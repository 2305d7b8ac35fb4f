---------------------------- MODULE RegistrarPages ----------------------------
(***************************************************************************)
(* The list of registrars and the evaluation files of their certificates.  *)
(* A list is put together from up to three calls of a registry that        *)
(* changes between them; an evaluation file is downloaded in five calls,   *)
(* any of which may fail, from a file manager that keeps an object for     *)
(* every download until it is told to finalize it.                         *)
(***************************************************************************)
EXTENDS Naturals, Sequences

CONSTANTS
    Visits,       \* the GET requests, one handler each
    Registrars,   \* handles of registrars
    Groups,       \* names of registrar groups
    Files,        \* ids of files of the file manager
    Scores,       \* scores of certificates
    Moments,      \* the contents the registry may have
    MaxChanges,   \* how often the registry changes
    Faults,       \* which calls may fail
    NULL

Calls == {"registrars", "groups", "certifications", "info", "load", "download", "finalize"}

\* A call of Faults raises an exception, "load_answer" the loss of the answer
\* to a load the file manager has executed.
ASSUME RegistrarsAssumption ==
    /\ MaxChanges \in Nat
    /\ Faults \subseteq Calls \cup {"load_answer", "worker_dies"}

Certificates == [score : Scores, file : Files \cup {NULL}]

\* What WHOIS knows: the registrars, the members of each group there is, and
\* the certificates, one at most of a registrar.
ASSUME MomentsAssumption ==
    Moments \subseteq
        [registrars     : SUBSET Registrars,
         groups         : [Groups -> (SUBSET Registrars) \cup {NULL}],
         certifications : [Registrars -> Certificates \cup {NULL}]]

\* None is none of the answers it stands beside.
ASSUME NullIsNoAnswer ==
    /\ \A registrars \in SUBSET Registrars : registrars # NULL
    /\ \A groups \in [Groups -> (SUBSET Registrars) \cup {NULL}] : groups # NULL
    /\ \A certifications \in [Registrars -> Certificates \cup {NULL}] : certifications # NULL
    /\ NULL \notin {"list", "file", "not_found", "server_error"}

VARIABLES
    history,    \* the contents of the registry so far, the last is its present
    visit,      \* the state of each GET's handler
    downloads   \* the download objects of the file manager, in order

vars == <<history, visit, downloads>>

Now == history[Len(history)]

\* The moments of the registry since a handler began.
Since(v) == visit[v].began .. Len(history)

\* What each visit is for: a list, of one group or of all, or the file of a
\* registrar.
Subjects ==
    [page : {"list"}, group : Groups \cup {NULL}]
        \cup [page : {"file"}, handle : Registrars]

VisitStates ==
    [pc             : Calls \cup {"idle", "done", "dead"},
     subject        : Subjects \cup {NULL},
     began          : Nat,
     registrars     : (SUBSET Registrars) \cup {NULL},
     groups         : [Groups -> (SUBSET Registrars) \cup {NULL}] \cup {NULL},
     certifications : [Registrars -> Certificates \cup {NULL}] \cup {NULL},
     file_id        : Files \cup {NULL},
     download       : Nat \cup {NULL},      \* file_download
     file_data      : Files \cup {NULL},    \* whose contents were read
     failed         : SUBSET (Calls \cup {"load_answer"}),
     reply          : {"list", "file", "not_found", "server_error", NULL}]

Downloads == [file : Files, state : {"open", "read", "finalized"}, owner : Visits]

TypeOK ==
    /\ history \in Seq(Moments) /\ Len(history) \in 1 .. MaxChanges + 1
    /\ visit \in [Visits -> VisitStates]
    /\ downloads \in Seq(Downloads)

\* The registry changes on its own.
Change ==
    /\ Len(history) <= MaxChanges
    /\ \E moment \in Moments \ {Now} : history' = Append(history, moment)
    /\ UNCHANGED <<visit, downloads>>

-----------------------------------------------------------------------------
(* The list. *)

\* get_registrars, once the calls it needs are answered.
Listed(s) ==
    IF s.subject.group = NULL THEN s.registrars
    ELSE {r \in s.registrars : r \in s.groups[s.subject.group]}

GroupIsUnknown(s) ==
    s.subject.group # NULL /\ s.groups # NULL /\ s.groups[s.subject.group] = NULL

\* The call get_context_data comes to next: groups and certifications are
\* read once, and certifications only for a row.
NextListCall(s) ==
    IF s.registrars = NULL THEN "registrars"
    ELSE IF s.subject.group # NULL /\ s.groups = NULL THEN "groups"
    ELSE IF GroupIsUnknown(s) THEN "done"
    ELSE IF s.certifications = NULL /\ Listed(s) # {} THEN "certifications"
    ELSE IF s.groups = NULL THEN "groups"
    ELSE "done"

ContinuedList(s) ==
    LET call == NextListCall(s)
    IN  [s EXCEPT !.pc = call,
                  !.reply = IF call # "done" THEN NULL
                            ELSE IF GroupIsUnknown(s) THEN "not_found" ELSE "list"]

\* get_registrar_context; the order of the rows is left out.
Row(r, certifications) ==
    [registrar |-> r, cert |-> certifications[r],
     score |-> IF certifications[r] = NULL THEN 0 ELSE certifications[r].score]

Rows(s) == {Row(r, s.certifications) : r \in Listed(s)}

-----------------------------------------------------------------------------
(* The handlers. *)

IdleVisit ==
    [pc |-> "idle", subject |-> NULL, began |-> 0, registrars |-> NULL, groups |-> NULL,
     certifications |-> NULL, file_id |-> NULL, download |-> NULL, file_data |-> NULL,
     failed |-> {}, reply |-> NULL]

Begin(v, subject) ==
    /\ visit[v].pc = "idle"
    /\ visit' = [visit EXCEPT
            ![v].subject = subject, ![v].began = Len(history),
            ![v].pc = IF subject.page = "list" THEN "registrars" ELSE "certifications"]
    /\ UNCHANGED <<history, downloads>>

\* Mutant: the cache of groups is an attribute of the class, not of the view.
ReadGroupsOfClass(v) ==
    /\ visit[v].pc = "groups"
    /\ \E w \in Visits :
          LET groups == IF visit[w].groups # NULL THEN visit[w].groups ELSE Now.groups
          IN  visit' = [visit EXCEPT ![v] = ContinuedList([@ EXCEPT !.groups = groups])]
    /\ UNCHANGED <<history, downloads>>

ReadRegistrars(v) ==
    /\ visit[v].pc = "registrars"
    /\ visit' = [visit EXCEPT ![v] = ContinuedList([@ EXCEPT !.registrars = Now.registrars])]
    /\ UNCHANGED <<history, downloads>>

\* get_groups
ReadGroups(v) ==
    /\ visit[v].pc = "groups"
    /\ visit' = [visit EXCEPT ![v] = ContinuedList([@ EXCEPT !.groups = Now.groups])]
    /\ UNCHANGED <<history, downloads>>

\* get_certifications of the list
ReadCertifications(v) ==
    /\ visit[v].pc = "certifications" /\ visit[v].subject.page = "list"
    /\ visit' = [visit EXCEPT
            ![v] = ContinuedList([@ EXCEPT !.certifications = Now.certifications])]
    /\ UNCHANGED <<history, downloads>>

\* Mutant: the handles are not compared.
CertificateOfAny(v) ==
    LET certified == {r \in Registrars : Now.certifications[r] # NULL}
    IN  IF certified = {} THEN NULL ELSE Now.certifications[CHOOSE r \in certified : TRUE]

\* The certificate of the registrar asked for.
CertificateOf(v) == Now.certifications[visit[v].subject.handle]

\* DownloadEvalFileView.get
FindEvaluationFile(v) ==
    /\ visit[v].pc = "certifications" /\ visit[v].subject.page = "file"
    /\ visit' = [visit EXCEPT
            ![v] = IF CertificateOf(v) = NULL
                   THEN [@ EXCEPT !.pc = "done", !.reply = "not_found"]
                   ELSE [@ EXCEPT !.pc = "info", !.file_id = CertificateOf(v).file]]
    /\ UNCHANGED <<history, downloads>>

\* Mutant: the file is loaded without asking what it is.
ReadNoFileInfo(v) ==
    /\ visit[v].pc = "info"
    /\ visit' = [visit EXCEPT ![v].pc = "load"]
    /\ UNCHANGED <<history, downloads>>

\* FILE_MANAGER.info
ReadFileInfo(v) ==
    /\ visit[v].pc = "info"
    /\ visit[v].file_id # NULL
    /\ visit' = [visit EXCEPT ![v].pc = "load"]
    /\ UNCHANGED <<history, downloads>>

OpenDownload(v) ==
    downloads' = Append(downloads, [file |-> visit[v].file_id, state |-> "open", owner |-> v])

\* FILE_MANAGER.load
LoadFile(v) ==
    /\ visit[v].pc = "load"
    /\ OpenDownload(v)
    /\ visit' = [visit EXCEPT ![v].pc = "download", ![v].download = Len(downloads')]
    /\ UNCHANGED history

\* The file manager opens the download and its answer is lost.
LoadAnswerLost(v) ==
    /\ visit[v].pc = "load"
    /\ "load_answer" \in Faults
    /\ OpenDownload(v)
    /\ visit' = [visit EXCEPT ![v].pc = "done", ![v].reply = "server_error",
                              ![v].failed = @ \cup {"load_answer"}]
    /\ UNCHANGED history

\* file_download.download
ReadDownload(v) ==
    /\ visit[v].pc = "download"
    /\ downloads' = [downloads EXCEPT ![visit[v].download].state = "read"]
    /\ visit' = [visit EXCEPT ![v].pc = "finalize",
                              ![v].file_data = downloads[visit[v].download].file]
    /\ UNCHANGED history

\* file_download.finalize_download, in the "finally" clause: the exception of
\* the download, if there was one, goes on.
FinalizeDownload(v) ==
    /\ visit[v].pc = "finalize"
    /\ downloads' = [downloads EXCEPT ![visit[v].download].state = "finalized"]
    /\ visit' = [visit EXCEPT
            ![v].pc = "done",
            ![v].reply = IF "download" \in visit[v].failed THEN "server_error" ELSE "file"]
    /\ UNCHANGED history

CallFails(v) ==
    \/ visit[v].pc \in Faults
    \/ visit[v].pc = "info" /\ visit[v].file_id = NULL

\* Mutant: no "finally", a failed download leaves at once.
FailUnfinalized(v) ==
    /\ visit[v].pc \in Calls
    /\ CallFails(v)
    /\ visit' = [visit EXCEPT ![v].failed = @ \cup {visit[v].pc},
                              ![v].pc = "done", ![v].reply = "server_error"]
    /\ UNCHANGED <<history, downloads>>

\* Mutant: a call that fails is made again.
FailAndRetry(v) ==
    /\ visit[v].pc \in Calls
    /\ CallFails(v)
    /\ visit' = [visit EXCEPT ![v].failed = @ \cup {visit[v].pc}]
    /\ UNCHANGED <<history, downloads>>

\* The call raises an exception, as the file manager does of a file that is
\* none; only the download is in a "try".
Fail(v) ==
    /\ visit[v].pc \in Calls
    /\ CallFails(v)
    /\ visit' = [visit EXCEPT
            ![v].failed = @ \cup {visit[v].pc},
            ![v].pc = IF @ = "download" THEN "finalize" ELSE "done",
            ![v].reply = IF visit[v].pc = "download" THEN NULL ELSE "server_error"]
    /\ UNCHANGED <<history, downloads>>

WorkerDies(v) ==
    /\ "worker_dies" \in Faults
    /\ visit[v].pc \notin {"idle", "done", "dead"}
    /\ visit' = [visit EXCEPT ![v].pc = "dead"]
    /\ UNCHANGED <<history, downloads>>

Init ==
    /\ history \in {<<moment>> : moment \in Moments}
    /\ visit = [v \in Visits |-> IdleVisit]
    /\ downloads = <<>>

Step(v) ==
    \/ ReadRegistrars(v) \/ ReadGroups(v) \/ ReadCertifications(v)
    \/ FindEvaluationFile(v) \/ ReadFileInfo(v) \/ LoadFile(v) \/ LoadAnswerLost(v)
    \/ ReadDownload(v) \/ FinalizeDownload(v) \/ Fail(v)

Next ==
    \/ Change
    \/ \E v \in Visits : (\E subject \in Subjects : Begin(v, subject)) \/ Step(v) \/ WorkerDies(v)

Spec == Init /\ [][Next]_vars

\* A worker that lives goes on, and every call returns or fails.
FairSpec == Spec /\ \A v \in Visits : WF_vars(Step(v))

-----------------------------------------------------------------------------
(* Properties. *)

\* A list shows registrars of one moment since the visitor asked, filtered by
\* the very groups it shows, which are of one moment too, as are the
\* certificates of all its rows - though the three moments may differ
\* (RegistrarListMixin caches each answer in the view, a new one per request).
ListIsOfItsTime ==
    \A v \in Visits : visit[v].reply = "list" =>
        \E t1, t2, t3 \in Since(v) :
            LET group == visit[v].subject.group
            IN  /\ IF group = NULL THEN t1 <= t3 /\ t3 <= t2 ELSE t1 <= t2 /\ t2 <= t3
                /\ visit[v].groups = history[t2].groups
                /\ Rows(visit[v]) =
                      {Row(r, history[t3].certifications) :
                          r \in IF group = NULL THEN history[t1].registrars
                                ELSE history[t1].registrars \cap history[t2].groups[group]}

\* "Not found" is true of a moment since the visitor asked: there was no such
\* group, or the registrar had no certificate; a certificate without a file
\* is a failure instead.
NotFoundIsTrue ==
    \A v \in Visits : visit[v].reply = "not_found" =>
        \E t \in Since(v) :
            IF visit[v].subject.page = "list"
            THEN history[t].groups[visit[v].subject.group] = NULL
            ELSE history[t].certifications[visit[v].subject.handle] = NULL

\* A file that is served was read from the handler's own download, while it
\* was open, and is the evaluation of the registrar asked for at a moment
\* since then, whatever the other handlers downloaded.
FileIsTheRegistrars ==
    \A v \in Visits : visit[v].reply = "file" =>
        /\ \E t \in Since(v) :
              LET cert == history[t].certifications[visit[v].subject.handle]
              IN  cert # NULL /\ cert.file = visit[v].file_data
        /\ downloads[visit[v].download] =
              [file |-> visit[v].file_data, state |-> "finalized", owner |-> v]

\* The file manager is left with no download of a visitor who was answered,
\* unless it was the file manager itself that did not answer "load" or
\* "finalize_download": a failed download is released like any other (the
\* "finally" of _serve_file).
DownloadsAreReleased ==
    \A d \in DOMAIN downloads :
        LET s == visit[downloads[d].owner]
        IN  downloads[d].state # "finalized" /\ s.reply # NULL =>
                s.failed \cap {"load_answer", "finalize"} # {}

\* A visitor whose worker lives gets an answer, whatever fails.
VisitsEnd == \A v \in Visits : visit[v].pc # "idle" ~> visit[v].pc \in {"done", "dead"}

=============================================================================
