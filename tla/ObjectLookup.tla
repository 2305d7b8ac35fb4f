---------------------------- MODULE ObjectLookup ----------------------------
(***************************************************************************)
(* Lookups of registry objects: the detail pages of contacts, nssets,      *)
(* keysets, domains and registrars, and the search that tries all five     *)
(* with one handle.  A lookup opens a log request, loads the object, closes*)
(* the log and only then loads what the object refers to and the texts of  *)
(* its statuses.  Every load is a call of its own, and the registry changes*)
(* between them; tables of status texts are cached for all workers.        *)
(***************************************************************************)
EXTENDS Naturals, Sequences, FiniteSets

CONSTANTS
    Lookups,        \* the GET requests browsers send, one handler each
    Handles,        \* handles of registry objects
    HandleForms,    \* what each handle looks like
    Views,          \* which pages are asked for, "multiple" is the search
    Languages,      \* the languages of the site
    Statuses,       \* states objects can be in
    Records,        \* what the registry may say of each object
    Beginnings,     \* the contents of the registry to start with
    MaxChanges,     \* bound on the changes of the registry
    LoggerEnabled,  \* whether the LOGGER setting is set
    Faults,         \* which calls out of the process may go wrong
    OBJECT_DELETE_CANDIDATE,  \* the registry's answer about a domain left to be deleted
    NULL            \* Python's None

Kinds == {"contact", "nsset", "keyset", "registrar", "domain"}

\* Registrars have no statuses.
TableKinds == Kinds \ {"registrar"}

Objects == Kinds \X Handles

\* What a handle typed by a user is as a domain name.  "TOO_MANY_LABELS" are
\* those of which the regular expression finds the last two labels,
\* "ODD_LABELS" those too long ones in which it finds nothing.
DomainForms ==
    {"leading_dot", "IDNAError", "INVALID_LABEL", "UNMANAGED_ZONE", "TOO_MANY_LABELS",
     "ODD_LABELS", "in_zone"}

PossibleFaults == {"logger_fails", "registry_fails", "cache_fails", "worker_dies"}

\* One answer about an object.  Of a domain the first contact is the holder;
\* a domain that is only left to be deleted has no record.
Record ==
    [statuses   : SUBSET Statuses,
     contacts   : Seq(Handles),
     registrars : Seq(Handles),
     nsset      : Handles \cup {NULL},
     keyset     : Handles \cup {NULL}]

\* What the records of a kind refer to: contacts to registrars, sets to
\* contacts and registrars, domains to all but domains, registrars to nothing.
FitsKind(kind, r) ==
    IF kind = "domain" /\ r = OBJECT_DELETE_CANDIDATE THEN TRUE
    ELSE /\ r \in Record
         /\ kind = "domain" => r.contacts # <<>>
         /\ kind # "domain" => r.nsset = NULL /\ r.keyset = NULL
         /\ kind \in {"contact", "registrar"} => r.contacts = <<>>
         /\ kind = "registrar" => r.registrars = <<>>

ASSUME LookupAssumption ==
    /\ HandleForms \in
          [Handles -> [accepted_by : SUBSET (Kinds \ {"domain"}), domain : DomainForms]]
    /\ \A o \in Objects : \A r \in Records[o] : FitsKind(o[1], r)
    /\ MaxChanges \in Nat
    /\ LoggerEnabled \in BOOLEAN
    /\ Faults \subseteq PossibleFaults
    /\ Views \subseteq Kinds \cup {"multiple"}

\* The registry holds nothing under a handle it does not accept.
ASSUME HandlesAreAccepted ==
    \A kind \in Kinds, h \in Handles :
        Records[<<kind, h>>] # {} =>
            IF kind = "domain" THEN HandleForms[h].domain = "in_zone"
            ELSE kind \in HandleForms[h].accepted_by

\* The contents of the registry: what it says of each object, and the statuses
\* it describes.
Moments ==
    [objects   : [Objects -> Record \cup {OBJECT_DELETE_CANDIDATE, NULL}],
     described : [TableKinds -> SUBSET Statuses]]

ASSUME BeginningsAssumption ==
    \A moment \in Beginnings :
        /\ moment \in Moments
        /\ \A o \in Objects : moment.objects[o] \in Records[o] \cup {NULL}

Replies ==
    {"page", "exception_page", "multiple_entries", "redirect", "server_error"}

\* The codes of exception pages; "not_found" stands for the pages without one.
Codes == {"not_found", "INVALID_HANDLE", "OBJECT_NOT_FOUND"} \cup DomainForms

\* The exceptions that leave a handler.
Errors ==
    {"LoggerError", "AssertionError", "COMM_FAILURE", "CacheError", "KeyError",
     "OBJECT_NOT_FOUND"}

\* None, and the answer about a domain to be deleted, are nothing else.
ASSUME NullIsNoObject ==
    /\ NULL \notin Record \cup {OBJECT_DELETE_CANDIDATE}
    /\ OBJECT_DELETE_CANDIDATE \notin Record
    /\ NULL \notin Handles \cup Nat \cup Kinds \cup Replies \cup Codes \cup Errors

VARIABLES
    history,   \* the contents of the registry so far, the last is its present
    lookup,    \* the state of each handler
    tables,    \* the cached status texts by language and kind, or NULL
    audit      \* the logger's requests; the index is the id

vars == <<history, lookup, tables, audit>>

-----------------------------------------------------------------------------
(* The registry. *)

Now == history[Len(history)]

LinksOf(r) ==
    IF r \in {NULL, OBJECT_DELETE_CANDIDATE} THEN {}
    ELSE {<<"contact", r.contacts[i]>> : i \in DOMAIN r.contacts}
         \cup {<<"registrar", r.registrars[i]>> : i \in DOMAIN r.registrars}
         \cup {<<"nsset", h>> : h \in {r.nsset} \ {NULL}}
         \cup {<<"keyset", h>> : h \in {r.keyset} \ {NULL}}

StatusesOf(r) == IF r \in {NULL, OBJECT_DELETE_CANDIDATE} THEN {} ELSE r.statuses

\* The registry refers only to objects it holds, in states it can describe.
Sound(moment) ==
    \A o \in Objects :
        /\ \A linked \in LinksOf(moment.objects[o]) : moment.objects[linked] # NULL
        /\ StatusesOf(moment.objects[o]) \subseteq
              IF o[1] \in TableKinds THEN moment.described[o[1]] ELSE {}

\* An object is registered, updated or deleted.
ChangeObject(o, r) ==
    /\ Len(history) <= MaxChanges
    /\ r # Now.objects[o]
    /\ LET next == [Now EXCEPT !.objects[o] = r]
       IN  Sound(next) /\ history' = Append(history, next)
    /\ UNCHANGED <<lookup, tables, audit>>

\* Objects of a kind can be in one more state.
AddStatus(kind, s) ==
    /\ Len(history) <= MaxChanges
    /\ s \notin Now.described[kind]
    /\ history' = Append(history, [Now EXCEPT !.described[kind] = @ \cup {s}])
    /\ UNCHANGED <<lookup, tables, audit>>

-----------------------------------------------------------------------------
(* What a lookup consists of. *)

\* The kinds load_registry_object asks for, in order.
Asked(view) ==
    IF view = "multiple" THEN <<"contact", "nsset", "keyset", "registrar", "domain">>
    ELSE <<view>>

\* The work left after the log is closed.
LoadTask(kind, handle) == [do |-> "load", kind |-> kind, handle |-> handle]
TableTask(kind) == [do |-> "table", kind |-> kind]
DescribeTask(kind, statuses) == [do |-> "describe", kind |-> kind, statuses |-> statuses]

LoadTasks(kind, handles) == [i \in DOMAIN handles |-> LoadTask(kind, handles[i])]

\* append_nsset_related, append_keyset_related
SetTasks(kind, r) ==
    <<TableTask(kind)>> \o LoadTasks("contact", r.contacts)
        \o LoadTasks("registrar", r.registrars) \o <<DescribeTask(kind, r.statuses)>>

\* Mutant: the keyset is asked for under the handle of the nsset.
DomainTasksMixedUp(r) ==
    IF r = OBJECT_DELETE_CANDIDATE THEN <<TableTask("domain")>>
    ELSE <<TableTask("domain"), DescribeTask("domain", r.statuses)>>
         \o IF "deleteCandidate" \in r.statuses THEN <<>>
            ELSE <<LoadTask("contact", Head(r.contacts))>>
                 \o LoadTasks("registrar", r.registrars)
                 \o LoadTasks("contact", Tail(r.contacts))
                 \o (IF r.nsset = NULL THEN <<>> ELSE <<LoadTask("nsset", r.nsset)>>)
                 \o (IF r.keyset = NULL THEN <<>> ELSE <<LoadTask("keyset", r.nsset)>>)

\* load_related_objects of a domain.
DomainTasks(r) ==
    IF r = OBJECT_DELETE_CANDIDATE THEN <<TableTask("domain")>>
    ELSE <<TableTask("domain"), DescribeTask("domain", r.statuses)>>
         \o IF "deleteCandidate" \in r.statuses THEN <<>>
            ELSE <<LoadTask("contact", Head(r.contacts))>>
                 \o LoadTasks("registrar", r.registrars)
                 \o LoadTasks("contact", Tail(r.contacts))
                 \o (IF r.nsset = NULL THEN <<>> ELSE <<LoadTask("nsset", r.nsset)>>)
                 \o (IF r.keyset = NULL THEN <<>> ELSE <<LoadTask("keyset", r.keyset)>>)

\* load_related_objects of each view, with the object it loaded.
RelatedTasks(kind, r) ==
    CASE kind = "contact" ->
            <<TableTask("contact"), DescribeTask("contact", r.statuses)>>
                \o LoadTasks("registrar", r.registrars)
      [] kind \in {"nsset", "keyset"} -> SetTasks(kind, r)
      [] kind = "domain" -> DomainTasks(r)
      [] kind = "registrar" -> <<>>

\* The code of the exception page load_registry_object prepares when it finds
\* nothing.
ExceptionCode(kind, handle) ==
    IF kind # "domain"
    THEN IF kind \in HandleForms[handle].accepted_by THEN "not_found" ELSE "INVALID_HANDLE"
    ELSE CASE HandleForms[handle].domain = "leading_dot" -> "INVALID_HANDLE"
           [] HandleForms[handle].domain = "in_zone" -> "not_found"
           [] HandleForms[handle].domain \notin {"leading_dot", "in_zone"} ->
                 HandleForms[handle].domain

FoundKinds(found) == {k \in Kinds : found[k] # NULL}

\* The search replaces whatever exception is left when nothing was found.
Resolved(view, found, code) ==
    IF view = "multiple" /\ FoundKinds(found) = {} THEN "OBJECT_NOT_FOUND" ELSE code

\* Mutant: an exception page prepared on the way hides the objects found.
PageUnlessException(s) ==
    LET found == FoundKinds(s.found)
    IN  CASE s.server_exception # NULL -> "exception_page"
          [] s.server_exception = NULL /\ s.view # "multiple" -> "page"
          [] s.server_exception = NULL /\ s.view = "multiple" ->
                IF Cardinality(found) = 1 THEN "redirect" ELSE "multiple_entries"

\* What a lookup that loaded all it needs answers.
Page(s) ==
    LET found == FoundKinds(s.found)
    IN  CASE s.view = "multiple" /\ Cardinality(found) = 1 -> "redirect"
          [] s.view = "multiple" /\ Cardinality(found) > 1 -> "multiple_entries"
          [] s.view # "multiple" /\ s.server_exception = NULL -> "page"
          [] s.server_exception # NULL /\ (s.view = "multiple" => found = {}) ->
                "exception_page"

\* Mutant: a lookup that had related objects to load is not answered.
ContinuedSilently(s, todo) ==
    [s EXCEPT !.todo = todo,
              !.pc = IF todo = <<>> THEN "done" ELSE "related",
              !.reply = IF todo = <<>> /\ s.pc = "finish" THEN Page(s) ELSE NULL]

\* The handler goes on with the tasks, or answers when there are none.
Continued(s, todo) ==
    [s EXCEPT !.todo = todo,
              !.pc = IF todo = <<>> THEN "done" ELSE "related",
              !.reply = IF todo = <<>> THEN Page(s) ELSE NULL]

\* An exception leaves the handler.
Failed(s, error) == [s EXCEPT !.pc = "done", !.error = error, !.reply = "server_error"]

\* What the handler loads after the log is closed.
RelatedOf(s) ==
    IF s.view = "multiple" \/ s.found[s.view] = NULL THEN <<>>
    ELSE RelatedTasks(s.view, s.found[s.view])

-----------------------------------------------------------------------------
(* The logger. *)

OpenLogRequest(l) ==
    [handle |-> lookup[l].handle, handleType |-> lookup[l].view, closed |-> FALSE,
     result |-> "Error", foundType |-> {}, reason |-> NULL, exception |-> NULL]

\* Mutant: whether something was found is told by the exception page.
FinishLoggingRequestByException(l) ==
    LET error == lookup[l].error
        code == lookup[l].server_exception
        found == IF code = NULL THEN FoundKinds(lookup[l].found) ELSE {}
    IN  IF lookup[l].log_request = NULL
        THEN audit' = audit
        ELSE audit' = [audit EXCEPT
                ![lookup[l].log_request].closed = TRUE,
                ![lookup[l].log_request].result =
                    IF error # NULL THEN "Error" ELSE IF code = NULL THEN "Ok" ELSE "NotFound",
                ![lookup[l].log_request].foundType = IF error # NULL THEN {} ELSE found,
                ![lookup[l].log_request].exception = error]

\* finish_logging_request
FinishLoggingRequest(l) ==
    LET found == FoundKinds(lookup[l].found)
        error == lookup[l].error
        code == lookup[l].server_exception
    IN  IF lookup[l].log_request = NULL
        THEN audit' = audit
        ELSE audit' = [audit EXCEPT
                ![lookup[l].log_request].closed = TRUE,
                ![lookup[l].log_request].result =
                    IF error # NULL THEN "Error" ELSE IF found # {} THEN "Ok" ELSE "NotFound",
                ![lookup[l].log_request].foundType = IF error # NULL THEN {} ELSE found,
                ![lookup[l].log_request].reason =
                    IF error = NULL /\ found = {}
                       /\ code \notin {NULL, "not_found", "OBJECT_NOT_FOUND"}
                    THEN code ELSE NULL,
                ![lookup[l].log_request].exception = error]

-----------------------------------------------------------------------------
(* The handler of a lookup. *)

Idle ==
    [pc |-> "idle", view |-> NULL, handle |-> NULL, lang |-> NULL, began |-> 0,
     log_request |-> NULL, todo |-> <<>>, found |-> [k \in Kinds |-> NULL],
     server_exception |-> NULL, descripts |-> NULL, shown |-> {}, error |-> NULL,
     reply |-> NULL]

Begin(l, view, handle, lang) ==
    /\ lookup[l].pc = "idle"
    /\ lookup' = [lookup EXCEPT ![l] =
            [Idle EXCEPT !.pc = IF LoggerEnabled THEN "log" ELSE "load",
                         !.view = view, !.handle = handle, !.lang = lang,
                         !.began = Len(history), !.todo = Asked(view)]]
    /\ UNCHANGED <<history, tables, audit>>

PrepareLoggingRequest(l) ==
    /\ lookup[l].pc = "log"
    /\ audit' = Append(audit, OpenLogRequest(l))
    /\ lookup' = [lookup EXCEPT ![l].pc = "load", ![l].log_request = Len(audit')]
    /\ UNCHANGED <<history, tables>>

\* The logger is called before the "try".
PrepareLoggingRequestFails(l) ==
    /\ lookup[l].pc = "log"
    /\ "logger_fails" \in Faults
    /\ audit' \in {audit, Append(audit, OpenLogRequest(l))}
    /\ lookup' = [lookup EXCEPT ![l] = Failed(@, "LoggerError")]
    /\ UNCHANGED <<history, tables>>

\* The registry is asked for the next kind: the object goes into the context,
\* or an exception page does.
LoadRegistryObject(l) ==
    LET kind == Head(lookup[l].todo)
        handle == lookup[l].handle
        r == Now.objects[<<kind, handle>>]
        found == [lookup[l].found EXCEPT ![kind] = r]
        code == IF r # NULL THEN lookup[l].server_exception ELSE ExceptionCode(kind, handle)
        last == Tail(lookup[l].todo) = <<>>
    IN  /\ lookup[l].pc = "load"
        /\ ~(kind = "domain" /\ HandleForms[handle].domain = "ODD_LABELS")
        /\ lookup' = [lookup EXCEPT
                ![l].pc = IF last THEN "finish" ELSE "load",
                ![l].todo = Tail(@),
                ![l].found = found,
                ![l].server_exception =
                    IF last THEN Resolved(lookup[l].view, found, code) ELSE code]
        /\ UNCHANGED <<history, tables, audit>>

\* "assert domain_match is not None"
NoExampleDomain(l) ==
    /\ lookup[l].pc = "load"
    /\ Head(lookup[l].todo) = "domain"
    /\ HandleForms[lookup[l].handle].domain = "ODD_LABELS"
    /\ lookup' = [lookup EXCEPT ![l].pc = "finish", ![l].error = "AssertionError"]
    /\ UNCHANGED <<history, tables, audit>>

LoadRegistryObjectFails(l) ==
    /\ lookup[l].pc = "load"
    /\ "registry_fails" \in Faults
    /\ lookup' = [lookup EXCEPT ![l].pc = "finish", ![l].error = "COMM_FAILURE"]
    /\ UNCHANGED <<history, tables, audit>>

\* Mutant: no "finally", the log of a lookup that failed stays open.
FinishUnlessFailed(l) ==
    /\ lookup[l].pc = "finish"
    /\ IF lookup[l].error = NULL THEN FinishLoggingRequest(l) ELSE UNCHANGED audit
    /\ lookup' = [lookup EXCEPT
            ![l] = IF @.error # NULL THEN Failed(@, @.error) ELSE Continued(@, RelatedOf(@))]
    /\ UNCHANGED <<history, tables>>

\* The "finally" clause of _get_registry_objects, and what follows it until
\* the next call.
Finish(l) ==
    /\ lookup[l].pc = "finish"
    /\ FinishLoggingRequest(l)
    /\ lookup' = [lookup EXCEPT
            ![l] = IF @.error # NULL THEN Failed(@, @.error) ELSE Continued(@, RelatedOf(@))]
    /\ UNCHANGED <<history, tables>>

\* The logger does not close the log, or its answer is lost.
FinishFails(l) ==
    /\ lookup[l].pc = "finish"
    /\ "logger_fails" \in Faults
    /\ lookup[l].log_request # NULL
    /\ audit' = audit \/ FinishLoggingRequest(l)
    /\ lookup' = [lookup EXCEPT ![l] = Failed(@, "LoggerError")]
    /\ UNCHANGED <<history, tables>>

-----------------------------------------------------------------------------
(* Related objects and status texts, after the log is closed. *)

Task(l) == Head(lookup[l].todo)
Doing(l, do) == lookup[l].pc = "related" /\ Task(l).do = do
Rest(l) == Tail(lookup[l].todo)

\* Mutant: the cache key has no language.
CacheKeyOfKind(l) == <<CHOOSE lang \in Languages : TRUE, Task(l).kind>>

\* Mutant: the cache key has no kind.
CacheKeyOfLanguage(l) == <<lookup[l].lang, CHOOSE kind \in TableKinds : TRUE>>

\* "webwhois_descr_%s_%s" % (lang, type_name)
CacheKey(l) == <<lookup[l].lang, Task(l).kind>>

\* cache.get finds the texts.
GetDescriptions(l) ==
    /\ Doing(l, "table")
    /\ tables[CacheKey(l)] # NULL
    /\ tables[CacheKey(l)].statuses # {}
    /\ lookup' = [lookup EXCEPT
            ![l] = [Continued(@, Rest(l)) EXCEPT !.descripts = tables[CacheKey(l)]]]
    /\ UNCHANGED <<history, tables, audit>>

\* cache.get finds nothing, or an empty dictionary.
DescriptionsMissing(l) ==
    /\ Doing(l, "table")
    /\ tables[CacheKey(l)] # NULL => tables[CacheKey(l)].statuses = {}
    /\ lookup' = [lookup EXCEPT ![l].pc = "fetch"]
    /\ UNCHANGED <<history, tables, audit>>

\* The registry describes the statuses of the kind in the language.
FetchDescriptions(l) ==
    /\ lookup[l].pc = "fetch"
    /\ lookup' = [lookup EXCEPT
            ![l].pc = "store",
            ![l].descripts = [lang     |-> lookup[l].lang,
                              kind     |-> Task(l).kind,
                              statuses |-> Now.described[Task(l).kind]]]
    /\ UNCHANGED <<history, tables, audit>>

\* cache.set, by whichever worker comes last.
StoreDescriptions(l) ==
    /\ lookup[l].pc = "store"
    /\ tables' = [tables EXCEPT ![CacheKey(l)] = lookup[l].descripts]
    /\ lookup' = [lookup EXCEPT ![l] = Continued(@, Rest(l))]
    /\ UNCHANGED <<history, audit>>

\* The table may have been stored all the same.
CacheFails(l) ==
    /\ "cache_fails" \in Faults
    /\ Doing(l, "table") \/ lookup[l].pc = "store"
    /\ \/ tables' = tables
       \/ /\ lookup[l].pc = "store"
          /\ tables' = [tables EXCEPT ![CacheKey(l)] = lookup[l].descripts]
    /\ lookup' = [lookup EXCEPT ![l] = Failed(@, "CacheError")]
    /\ UNCHANGED <<history, audit>>

\* descriptions[key] for every status of the object.
DescribeStatuses(l) ==
    /\ Doing(l, "describe")
    /\ lookup' = [lookup EXCEPT
            ![l] = IF Task(l).statuses \subseteq @.descripts.statuses
                   THEN Continued(@, Rest(l)) ELSE Failed(@, "KeyError")]
    /\ UNCHANGED <<history, tables, audit>>

\* Mutant: what the nsset or keyset of a domain refers to is left out.
LoadRelatedAlone(l) ==
    LET o == <<Task(l).kind, Task(l).handle>>
        r == Now.objects[o]
        shown == lookup[l].shown \cup {<<o, r>>}
    IN  /\ Doing(l, "load")
        /\ lookup' = [lookup EXCEPT
                ![l] = IF r = NULL THEN Failed(@, "OBJECT_NOT_FOUND")
                       ELSE Continued([@ EXCEPT !.shown = shown], Rest(l))]
        /\ UNCHANGED <<history, tables, audit>>

\* An object referred to is loaded, the one of a domain's nsset or keyset with
\* all that it refers to itself.
LoadRelated(l) ==
    LET o == <<Task(l).kind, Task(l).handle>>
        r == Now.objects[o]
        shown == lookup[l].shown \cup {<<o, r>>}
        more == IF o[1] \in {"nsset", "keyset"} THEN SetTasks(o[1], r) ELSE <<>>
    IN  /\ Doing(l, "load")
        /\ lookup' = [lookup EXCEPT
                ![l] = IF r = NULL THEN Failed(@, "OBJECT_NOT_FOUND")
                       ELSE Continued([@ EXCEPT !.shown = shown],
                                      more \o Rest(l))]
        /\ UNCHANGED <<history, tables, audit>>

RelatedFails(l) ==
    /\ "registry_fails" \in Faults
    /\ Doing(l, "load") \/ lookup[l].pc = "fetch"
    /\ lookup' = [lookup EXCEPT ![l] = Failed(@, "COMM_FAILURE")]
    /\ UNCHANGED <<history, tables, audit>>

WorkerDies(l) ==
    /\ "worker_dies" \in Faults
    /\ lookup[l].pc \notin {"idle", "done", "dead"}
    /\ lookup' = [lookup EXCEPT ![l].pc = "dead"]
    /\ UNCHANGED <<history, tables, audit>>

\* The cache drops a table: its time is over, or it is evicted.
Expire(key) ==
    /\ tables[key] # NULL
    /\ tables' = [tables EXCEPT ![key] = NULL]
    /\ UNCHANGED <<history, lookup, audit>>

-----------------------------------------------------------------------------

Init ==
    /\ history \in {<<moment>> : moment \in Beginnings}
    /\ Sound(Now)
    /\ lookup = [l \in Lookups |-> Idle]
    /\ tables = [key \in Languages \X TableKinds |-> NULL]
    /\ audit = <<>>

LookupStep(l) ==
    \/ PrepareLoggingRequest(l)
    \/ PrepareLoggingRequestFails(l)
    \/ LoadRegistryObject(l)
    \/ NoExampleDomain(l)
    \/ LoadRegistryObjectFails(l)
    \/ Finish(l)
    \/ FinishFails(l)
    \/ GetDescriptions(l)
    \/ DescriptionsMissing(l)
    \/ FetchDescriptions(l)
    \/ StoreDescriptions(l)
    \/ CacheFails(l)
    \/ DescribeStatuses(l)
    \/ LoadRelated(l)
    \/ RelatedFails(l)

Next ==
    \/ \E l \in Lookups :
          \/ \E view \in Views, h \in Handles, lang \in Languages : Begin(l, view, h, lang)
          \/ LookupStep(l)
          \/ WorkerDies(l)
    \/ \E o \in Objects : \E r \in Records[o] \cup {NULL} : ChangeObject(o, r)
    \/ \E kind \in TableKinds, s \in Statuses : AddStatus(kind, s)
    \/ \E key \in Languages \X TableKinds : Expire(key)

Spec == Init /\ [][Next]_vars

\* Every call out of a handler returns or raises.
FairSpec == Spec /\ \A l \in Lookups : WF_vars(LookupStep(l))

-----------------------------------------------------------------------------
(* Types. *)

Tables == [lang : Languages, kind : TableKinds, statuses : SUBSET Statuses]

TypeOK ==
    /\ Len(history) \in 1..(MaxChanges + 1)
    /\ \A t \in DOMAIN history : history[t] \in Moments
    /\ tables \in [Languages \X TableKinds -> Tables \cup {NULL}]
    /\ \A l \in Lookups :
          /\ lookup[l].pc \in {"idle", "log", "load", "finish", "related", "fetch", "store",
                               "done", "dead"}
          /\ lookup[l].view \in Views \cup {NULL}
          /\ lookup[l].began \in 0..Len(history)
          /\ lookup[l].log_request \in DOMAIN audit \cup {NULL}
          /\ lookup[l].descripts \in Tables \cup {NULL}
          /\ lookup[l].server_exception \in Codes \cup {NULL}
          /\ lookup[l].error \in Errors \cup {NULL}
          /\ lookup[l].reply \in Replies \cup {NULL}
          /\ lookup[l].pc = "done" <=> lookup[l].reply # NULL
    /\ \A i \in DOMAIN audit :
          /\ audit[i].result \in {"Ok", "NotFound", "Error"}
          /\ audit[i].foundType \subseteq Kinds

-----------------------------------------------------------------------------
(* Correctness. *)

\* The moments of the registry since a lookup began.
Since(l) == lookup[l].began .. Len(history)

\* Whatever the registry does meanwhile and whatever the lookups before it
\* reported, each kind a lookup asks for is found as it was at some moment
\* since the lookup began, and missed only if it was missing at such a moment;
\* the answer follows from what was found and from nothing else
\* (load_registry_object of the search calls five others on one context).
AnswersFromTheTime ==
    \A l \in Lookups :
        LET s == lookup[l]
            asked == {Asked(s.view)[i] : i \in DOMAIN Asked(s.view)}
            found == FoundKinds(s.found)
        IN  s.pc \in {"finish", "related", "fetch", "store", "done"} /\ s.error = NULL =>
                /\ found \subseteq asked
                /\ \A k \in asked : \E t \in Since(l) :
                      history[t].objects[<<k, s.handle>>] = s.found[k]
                /\ s.reply = "exception_page" => found = {}
                /\ s.reply = "page" => found = {s.view}
                /\ s.reply = "redirect" => Cardinality(found) = 1
                /\ s.reply = "multiple_entries" => Cardinality(found) > 1

\* The logs tell what browsers were told: found what a page, a list or a
\* redirect speaks of, nothing when there is an exception page.  A server
\* error may come after a log "Ok", when related objects are loaded
\* (_get_registry_objects closes the log before load_related_objects).
RepliesAreLogged ==
    LoggerEnabled =>
        \A l \in Lookups :
            LET s == lookup[l]
                log == audit[s.log_request]
            IN  /\ s.reply \in Replies \ {"server_error"} => log.closed
                /\ s.reply \in {"page", "multiple_entries", "redirect"} =>
                      log.result = "Ok" /\ log.foundType = FoundKinds(s.found)
                /\ s.reply = "exception_page" =>
                      log.result = "NotFound" /\ log.foundType = {}
                /\ s.log_request # NULL =>
                      /\ log.handle = s.handle /\ log.handleType = s.view
                      /\ log.closed /\ log.result = "Error" => s.reply = "server_error"

\* What the page of an object has to show besides it.
Belonging(s) ==
    LET r == s.found[s.view]
    IN  IF s.view = "domain" /\ "deleteCandidate" \in StatusesOf(r) THEN {}
        ELSE LinksOf(r) \cup UNION {LinksOf(x[2]) : x \in {y \in s.shown : y[1][1] # "contact"}}

\* A page shows with an object all the objects it refers to, of its nsset and
\* keyset too, and no others, each as it was at some moment of the lookup; a
\* domain to be deleted is shown alone.
PageShowsItsObjects ==
    \A l \in Lookups :
        lookup[l].reply = "page" =>
            /\ {x[1] : x \in lookup[l].shown} = Belonging(lookup[l])
            /\ \A x \in lookup[l].shown : \E t \in Since(l) : history[t].objects[x[1]] = x[2]

\* Without a failing service a page becomes a server error only when it was
\* overtaken: the object it could not load belongs on it, was held at a moment
\* since the lookup began and deleted at a later one; a text was missing from a
\* table other than the registry's (get_object_by_handle of the related objects
\* and "descriptions[key]", neither of them in a "try").
ServerErrorHasCause ==
    \A l \in Lookups :
        LET s == lookup[l]
            missing == <<Head(s.todo).kind, Head(s.todo).handle>>
        IN  /\ s.error = "OBJECT_NOT_FOUND" =>
                  /\ missing \in Belonging(s)
                  /\ \E t, u \in Since(l) :
                        /\ t < u
                        /\ history[t].objects[missing] # NULL
                        /\ history[u].objects[missing] = NULL
            /\ s.error = "KeyError" =>
                  s.descripts.statuses # Now.described[s.descripts.kind]

\* A table of status texts, in the cache or in use, is one the registry gave
\* for this very language and kind, however workers fill the cache
\* (_get_status_descriptions).
TablesAreAuthentic ==
    LET authentic(table, lang, kind) ==
            /\ table.lang = lang /\ table.kind = kind
            /\ \E t \in DOMAIN history : history[t].described[kind] = table.statuses
    IN  /\ \A key \in DOMAIN tables :
              tables[key] # NULL => authentic(tables[key], key[1], key[2])
        /\ \A l \in Lookups :
              Doing(l, "describe") => authentic(lookup[l].descripts, lookup[l].lang, Task(l).kind)

\* Every lookup comes to an end, its log closed, however the registry changes
\* what it still has to load, as long as the logger answers and workers live.
LookupsEnd ==
    \A l \in Lookups :
        lookup[l].pc # "idle" ~>
            /\ lookup[l].pc = "done"
            /\ lookup[l].log_request # NULL => audit[lookup[l].log_request].closed

=============================================================================
