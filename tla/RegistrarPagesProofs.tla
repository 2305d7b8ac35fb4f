------------------------- MODULE RegistrarPagesProofs -------------------------
(* Theorems about RegistrarPages, for any visitors, registrars and faults. *)
EXTENDS RegistrarPages, TLAPS

\* What is known of a handler: only one that is done has replied, and one
\* that has loaded a file holds an open download of its own.
VisitGood(v) ==
    LET s == visit[v]
    IN  /\ s.pc # "idle" => s.subject \in Subjects
        /\ s.pc \in {"registrars", "groups"} => s.subject.page = "list"
        /\ s.pc \in {"info", "load", "download", "finalize"} => s.subject.page = "file"
        /\ s.pc # "done" => s.reply = NULL
        /\ s.pc \in {"load", "download", "finalize"} => s.file_id \in Files
        /\ s.pc \in {"download", "finalize"} =>
              /\ s.download \in DOMAIN downloads
              /\ downloads[s.download].owner = v

\* A download not finalized is in the hands of its owner, or its owner was
\* killed, or the file manager failed the owner.
DownloadGood(d) ==
    LET s == visit[downloads[d].owner]
    IN  downloads[d].state # "finalized" =>
            \/ s.pc \in {"download", "finalize"} /\ s.download = d
            \/ s.pc = "dead"
            \/ s.pc = "done" /\ s.failed \cap {"load_answer", "finalize"} # {}

Good ==
    /\ TypeOK
    /\ \A v \in Visits : VisitGood(v)
    /\ \A d \in DOMAIN downloads : DownloadGood(d)

\* The present is one of the contents the registry may have.
LEMMA NowIsMoment ==
    ASSUME TypeOK
    PROVE  /\ Now \in Moments /\ Len(history) \in Nat \ {0}
           /\ Now.registrars \in SUBSET Registrars
           /\ Now.groups \in [Groups -> (SUBSET Registrars) \cup {NULL}]
           /\ Now.certifications \in [Registrars -> Certificates \cup {NULL}]
<1>1. Len(history) \in Nat \ {0} /\ history \in Seq(Moments)
  BY RegistrarsAssumption DEF TypeOK
<1>2. Now \in Moments
  BY <1>1 DEF Now
<1> QED
  BY <1>1, <1>2, MomentsAssumption

\* A step of v keeps the invariant if it is right about its own state and its
\* own downloads, and leaves those of others alone.
LEMMA VisitFrame ==
    ASSUME Good, NEW v \in Visits,
           visit' = [visit EXCEPT ![v] = visit'[v]],
           visit'[v] \in VisitStates, VisitGood(v)',
           downloads' \in Seq(Downloads), DOMAIN downloads \subseteq DOMAIN downloads',
           \A d \in DOMAIN downloads : downloads'[d].owner = downloads[d].owner,
           \A d \in DOMAIN downloads' :
              \/ downloads'[d].owner = v /\ DownloadGood(d)'
              \/ d \in DOMAIN downloads /\ downloads'[d] = downloads[d]
                    /\ downloads[d].owner # v,
           UNCHANGED history
    PROVE  Good'
<1>1. TypeOK'
  BY DEF Good, TypeOK
<1>2. \A w \in Visits : VisitGood(w)'
  BY DEF Good, TypeOK, VisitGood
<1>3. ASSUME NEW d \in DOMAIN downloads' PROVE DownloadGood(d)'
  <2>1. CASE downloads'[d].owner = v
    BY <2>1
  <2>2. CASE d \in DOMAIN downloads /\ downloads'[d] = downloads[d] /\ downloads[d].owner # v
    <3>1. downloads[d] \in Downloads
      BY <2>2 DEF Good, TypeOK
    <3>2. visit'[downloads[d].owner] = visit[downloads[d].owner]
      BY <2>2, <3>1 DEF Good, TypeOK, Downloads
    <3> QED
      BY <2>2, <3>2 DEF Good, DownloadGood
  <2> QED
    BY <2>1, <2>2
<1> QED
  BY <1>1, <1>2, <1>3 DEF Good

\* The same of a step that leaves all downloads alone.
LEMMA SteadyFrame ==
    ASSUME Good, NEW v \in Visits,
           visit' = [visit EXCEPT ![v] = visit'[v]],
           visit'[v] \in VisitStates, VisitGood(v)',
           \A d \in DOMAIN downloads : downloads[d].owner = v => DownloadGood(d)',
           UNCHANGED <<history, downloads>>
    PROVE  Good'
  BY VisitFrame DEF Good, TypeOK

\* A handler that is not at a download keeps what is known of its downloads
\* while it goes on.
LEMMA NothingHeld ==
    ASSUME Good, NEW v \in Visits, visit[v].pc \notin {"download", "finalize", "done", "dead"},
           NEW d \in DOMAIN downloads, downloads[d].owner = v
    PROVE  downloads[d].state = "finalized"
  BY DEF Good, DownloadGood

\* What a step of v finds.
Found(v) ==
    /\ TypeOK /\ VisitGood(v)
    /\ visit \in [Visits -> VisitStates]
    /\ visit[v] \in VisitStates

LEMMA GoodFound ==
    ASSUME Good, NEW v \in Visits PROVE Found(v)
  BY DEF Good, Found, TypeOK

\* What a list goes on to is typed, and it replies at its end only.
LEMMA ContinuedType ==
    ASSUME NEW s \in VisitStates, s.subject.page = "list", s.reply = NULL
    PROVE  /\ ContinuedList(s) \in VisitStates
           /\ ContinuedList(s) = [s EXCEPT !.pc = ContinuedList(s).pc,
                                           !.reply = ContinuedList(s).reply]
           /\ ContinuedList(s).pc \in {"registrars", "groups", "certifications", "done"}
           /\ ContinuedList(s).pc # "done" => ContinuedList(s).reply = NULL
<1>1. NextListCall(s) \in {"registrars", "groups", "certifications", "done"}
  BY DEF NextListCall
<1> DEFINE reply == IF NextListCall(s) # "done" THEN NULL
                    ELSE IF GroupIsUnknown(s) THEN "not_found" ELSE "list"
<1>2. ContinuedList(s) = [s EXCEPT !.pc = NextListCall(s), !.reply = reply]
  BY DEF ContinuedList
<1>3. reply \in {"list", "not_found", NULL} /\ (NextListCall(s) # "done" => reply = NULL)
  OBVIOUS
<1> HIDE DEF reply
<1> QED
  BY <1>1, <1>2, <1>3 DEF VisitStates, Calls

LEMMA GoodInit == Init => Good
<1> SUFFICES ASSUME Init PROVE Good
  OBVIOUS
<1>1. TypeOK
  <2>1. IdleVisit \in VisitStates
    BY DEF IdleVisit, VisitStates
  <2>2. history \in Seq(Moments) /\ Len(history) = 1
    <3>1. PICK moment \in Moments : history = <<moment>>
      BY DEF Init
    <3> QED
      BY <3>1
  <2>3. visit \in [Visits -> VisitStates] /\ downloads \in Seq(Downloads)
    BY <2>1 DEF Init
  <2> QED
    BY <2>2, <2>3, RegistrarsAssumption DEF TypeOK
<1>2. \A v \in Visits : VisitGood(v)
  BY DEF Init, VisitGood, IdleVisit
<1>3. \A d \in DOMAIN downloads : DownloadGood(d)
  BY DEF Init
<1> QED
  BY <1>1, <1>2, <1>3 DEF Good

LEMMA GoodBegin ==
    ASSUME Good, NEW v \in Visits, NEW subject \in Subjects, Begin(v, subject)
    PROVE  Good'
<1>1. Found(v)
  BY GoodFound
<1>2. /\ visit' = [visit EXCEPT ![v] = visit'[v]]
      /\ visit'[v] = [visit[v] EXCEPT
            !.subject = subject, !.began = Len(history),
            !.pc = IF subject.page = "list" THEN "registrars" ELSE "certifications"]
  BY <1>1 DEF Begin, Found, VisitStates
<1>3. visit'[v] \in VisitStates
  <2>1. PICK began \in Nat, pc \in {"registrars", "certifications"} :
            visit'[v] = [visit[v] EXCEPT !.subject = subject, !.began = began, !.pc = pc]
    BY <1>1, <1>2, NowIsMoment DEF Found
  <2> QED
    BY <1>1, <2>1, ZenonT(40) DEF Found, VisitStates, Calls
<1>4. VisitGood(v)'
  BY <1>1, <1>2 DEF Found, VisitGood, VisitStates, Begin
<1>5. \A d \in DOMAIN downloads : downloads[d].owner = v => DownloadGood(d)'
  BY NothingHeld DEF Begin, DownloadGood
<1> QED
  BY <1>2, <1>3, <1>4, <1>5, SteadyFrame DEF Begin

\* The three calls of a list.
LEMMA GoodList ==
    ASSUME Good, NEW v \in Visits,
           ReadRegistrars(v) \/ ReadGroups(v) \/ ReadCertifications(v)
    PROVE  Good'
<1>1. Found(v)
  BY GoodFound
<1>2. visit[v].subject.page = "list" /\ visit[v].reply = NULL
      /\ visit[v].pc \in {"registrars", "groups", "certifications"}
      /\ visit[v].subject \in Subjects
  BY <1>1 DEF Found, VisitGood, ReadRegistrars, ReadGroups, ReadCertifications
<1>3. PICK s \in VisitStates :
         /\ visit' = [visit EXCEPT ![v] = ContinuedList(s)]
         /\ s.subject = visit[v].subject /\ s.reply = NULL
  <2>1. CASE ReadRegistrars(v)
    <3> DEFINE s == [visit[v] EXCEPT !.registrars = Now.registrars]
    <3>1. s \in VisitStates /\ s.subject = visit[v].subject /\ s.reply = NULL
      BY <1>1, <1>2, NowIsMoment DEF Found, VisitStates
    <3>2. visit' = [visit EXCEPT ![v] = ContinuedList(s)]
      BY <2>1, <1>1 DEF ReadRegistrars, Found
    <3> QED
      BY <3>1, <3>2
  <2>2. CASE ReadGroups(v)
    <3> DEFINE s == [visit[v] EXCEPT !.groups = Now.groups]
    <3>1. s \in VisitStates /\ s.subject = visit[v].subject /\ s.reply = NULL
      BY <1>1, <1>2, NowIsMoment DEF Found, VisitStates
    <3>2. visit' = [visit EXCEPT ![v] = ContinuedList(s)]
      BY <2>2, <1>1 DEF ReadGroups, Found
    <3> QED
      BY <3>1, <3>2
  <2>3. CASE ReadCertifications(v)
    <3> DEFINE s == [visit[v] EXCEPT !.certifications = Now.certifications]
    <3>1. s \in VisitStates /\ s.subject = visit[v].subject /\ s.reply = NULL
      BY <1>1, <1>2, NowIsMoment DEF Found, VisitStates
    <3>2. visit' = [visit EXCEPT ![v] = ContinuedList(s)]
      BY <2>3, <1>1 DEF ReadCertifications, Found
    <3> QED
      BY <3>1, <3>2
  <2> QED
    BY <2>1, <2>2, <2>3
<1>4. /\ visit'[v] = ContinuedList(s)
      /\ visit' = [visit EXCEPT ![v] = visit'[v]]
  BY <1>1, <1>3 DEF Found
<1>5. /\ visit'[v] \in VisitStates
      /\ visit'[v].subject = visit[v].subject
      /\ visit'[v].pc \in {"registrars", "groups", "certifications", "done"}
      /\ visit'[v].pc # "done" => visit'[v].reply = NULL
  <2>1. /\ ContinuedList(s) \in VisitStates
        /\ ContinuedList(s) = [s EXCEPT !.pc = ContinuedList(s).pc,
                                        !.reply = ContinuedList(s).reply]
        /\ ContinuedList(s).pc \in {"registrars", "groups", "certifications", "done"}
        /\ ContinuedList(s).pc # "done" => ContinuedList(s).reply = NULL
    BY <1>2, <1>3, ContinuedType
  <2>2. ContinuedList(s).subject = s.subject
    BY <2>1 DEF VisitStates
  <2> QED
    BY <1>3, <1>4, <2>1, <2>2
<1>6. UNCHANGED <<history, downloads>>
  BY DEF ReadRegistrars, ReadGroups, ReadCertifications
<1>7. VisitGood(v)'
  BY <1>2, <1>5, <1>6 DEF VisitGood
<1>8. \A d \in DOMAIN downloads : downloads[d].owner = v => DownloadGood(d)'
  BY <1>2, <1>6, NothingHeld DEF DownloadGood
<1> QED
  BY <1>4, <1>5, <1>6, <1>7, <1>8, SteadyFrame

\* The steps of a file before it is loaded.
LEMMA GoodFindFile ==
    ASSUME Good, NEW v \in Visits, FindEvaluationFile(v) \/ ReadFileInfo(v)
    PROVE  Good'
<1>1. Found(v)
  BY GoodFound
<1>2. visit' = [visit EXCEPT ![v] = visit'[v]]
  BY <1>1 DEF FindEvaluationFile, ReadFileInfo, Found
<1>3. visit'[v] \in VisitStates /\ VisitGood(v)'
  <2>1. CASE FindEvaluationFile(v)
    <3>1. visit[v].subject.handle \in Registrars
      BY <2>1, <1>1 DEF FindEvaluationFile, Found, VisitGood, Subjects
    <3>2. CASE CertificateOf(v) = NULL
      <4>1. visit'[v] = [visit[v] EXCEPT !.pc = "done", !.reply = "not_found"]
        BY <2>1, <1>1, <3>2 DEF FindEvaluationFile, Found
      <4> QED
        BY <2>1, <1>1, <4>1 DEF FindEvaluationFile, Found, VisitStates, VisitGood
    <3>3. CASE CertificateOf(v) # NULL
      <4>1. visit'[v] = [visit[v] EXCEPT !.pc = "info", !.file_id = CertificateOf(v).file]
        BY <2>1, <1>1, <3>3 DEF FindEvaluationFile, Found
      <4>2. CertificateOf(v) \in Certificates
        BY <3>1, <3>3, <1>1, NowIsMoment DEF CertificateOf, Found
      <4>3. PICK file \in Files \cup {NULL} :
                visit'[v] = [visit[v] EXCEPT !.pc = "info", !.file_id = file]
        BY <4>1, <4>2 DEF Certificates
      <4>4. visit'[v] \in VisitStates
        BY <1>1, <4>3 DEF Found, VisitStates, Calls
      <4>5. /\ visit'[v].pc = "info" /\ visit'[v].subject = visit[v].subject
            /\ visit'[v].reply = visit[v].reply
        BY <1>1, <4>3 DEF Found, VisitStates
      <4> QED
        BY <2>1, <1>1, <4>4, <4>5 DEF FindEvaluationFile, Found, VisitGood
    <3> QED
      BY <3>2, <3>3
  <2>2. CASE ReadFileInfo(v)
    <3>1. visit'[v] = [visit[v] EXCEPT !.pc = "load"]
      BY <2>2, <1>1 DEF ReadFileInfo, Found
    <3> QED
      BY <2>2, <1>1, <3>1 DEF ReadFileInfo, Found, VisitStates, VisitGood, Calls
  <2> QED
    BY <2>1, <2>2
<1>4. UNCHANGED <<history, downloads>>
  BY DEF FindEvaluationFile, ReadFileInfo
<1>5. \A d \in DOMAIN downloads : downloads[d].owner = v => DownloadGood(d)'
  BY <1>4, NothingHeld DEF DownloadGood, FindEvaluationFile, ReadFileInfo
<1> QED
  BY <1>2, <1>3, <1>4, <1>5, SteadyFrame


\* A download is opened, by its owner.
LEMMA OpenDownloadType ==
    ASSUME TypeOK, NEW v \in Visits, visit[v].file_id \in Files, OpenDownload(v)
    PROVE  /\ downloads' \in Seq(Downloads)
           /\ Len(downloads') = Len(downloads) + 1 /\ Len(downloads) \in Nat
           /\ DOMAIN downloads' = DOMAIN downloads \cup {Len(downloads')}
           /\ \A d \in DOMAIN downloads : downloads'[d] = downloads[d]
           /\ downloads'[Len(downloads')] =
                 [file |-> visit[v].file_id, state |-> "open", owner |-> v]
  BY DEF TypeOK, OpenDownload, Downloads

\* The file manager opens a download, and its answer may be lost.
LEMMA GoodLoad ==
    ASSUME Good, NEW v \in Visits, LoadFile(v) \/ LoadAnswerLost(v)
    PROVE  Good'
<1>1. Found(v)
  BY GoodFound
<1>2. visit[v].pc = "load" /\ OpenDownload(v) /\ UNCHANGED history
  BY DEF LoadFile, LoadAnswerLost
<1>3. visit[v].file_id \in Files
  BY <1>1, <1>2 DEF Found, VisitGood
<1>0. PICK opened \in Nat : opened = Len(downloads')
  <2>1. Len(downloads') \in Nat
    BY <1>1, <1>2, <1>3, OpenDownloadType DEF Found
  <2> QED
    BY <2>1
<1>4. /\ downloads' \in Seq(Downloads) /\ Len(downloads') = opened
      /\ DOMAIN downloads' = DOMAIN downloads \cup {opened}
      /\ \A d \in DOMAIN downloads : downloads'[d] = downloads[d]
      /\ downloads'[opened] = [file |-> visit[v].file_id, state |-> "open", owner |-> v]
  BY <1>0, <1>1, <1>2, <1>3, OpenDownloadType DEF Found
<1>5. visit' = [visit EXCEPT ![v] = visit'[v]]
  BY <1>1 DEF LoadFile, LoadAnswerLost, Found
<1>6. /\ visit'[v] \in VisitStates /\ VisitGood(v)'
      /\ DownloadGood(opened)'
  <2>1. CASE LoadFile(v)
    <3>1. visit'[v] = [visit[v] EXCEPT !.pc = "download", !.download = opened]
      BY <2>1, <1>1, <1>4 DEF LoadFile, Found
    <3>2. visit'[v] \in VisitStates
      BY <1>1, <3>1, ZenonT(40) DEF Found, VisitStates, Calls
    <3>3. /\ visit'[v].pc = "download" /\ visit'[v].download = opened
          /\ visit'[v].subject = visit[v].subject /\ visit'[v].reply = visit[v].reply
          /\ visit'[v].file_id = visit[v].file_id
      BY <1>1, <3>1 DEF Found, VisitStates
    <3>4. VisitGood(v)'
      BY <1>1, <1>2, <1>3, <1>4, <3>3 DEF Found, VisitGood
    <3>5. DownloadGood(opened)'
      BY <1>4, <3>3 DEF DownloadGood
    <3> QED
      BY <3>2, <3>4, <3>5
  <2>2. CASE LoadAnswerLost(v)
    <3>1. visit'[v] = [visit[v] EXCEPT !.pc = "done", !.reply = "server_error",
                                       !.failed = @ \cup {"load_answer"}]
      BY <2>2, <1>1 DEF LoadAnswerLost, Found
    <3>2. visit'[v] \in VisitStates
      <4>1. visit[v].failed \cup {"load_answer"} \subseteq Calls \cup {"load_answer"}
        BY <1>1 DEF Found, VisitStates
      <4>2. PICK failed \in SUBSET (Calls \cup {"load_answer"}) :
               visit'[v] = [visit[v] EXCEPT !.pc = "done", !.reply = "server_error",
                                            !.failed = failed]
        BY <3>1, <4>1
      <4> QED
        BY <1>1, <4>2 DEF Found, VisitStates
    <3>3. VisitGood(v)'
      BY <1>1, <1>2, <1>3, <1>4, <3>1 DEF Found, VisitStates, VisitGood
    <3>4. visit'[v].pc = "done" /\ "load_answer" \in visit'[v].failed
      BY <1>1, <3>1 DEF Found, VisitStates
    <3>5. DownloadGood(opened)'
      BY <1>4, <3>4 DEF DownloadGood
    <3> QED
      BY <3>2, <3>3, <3>5
  <2> QED
    BY <2>1, <2>2
<1>7. \A d \in DOMAIN downloads' :
         \/ downloads'[d].owner = v /\ DownloadGood(d)'
         \/ d \in DOMAIN downloads /\ downloads'[d] = downloads[d] /\ downloads[d].owner # v
  <2>1. \A d \in DOMAIN downloads : downloads[d].owner = v => DownloadGood(d)'
    BY <1>2, <1>4, NothingHeld DEF DownloadGood
  <2> QED
    BY <1>4, <1>6, <2>1
<1> QED
  BY <1>2, <1>4, <1>5, <1>6, <1>7, VisitFrame

\* What v holds it can read and release.
LEMMA GoodDownload ==
    ASSUME Good, NEW v \in Visits, ReadDownload(v) \/ FinalizeDownload(v)
    PROVE  Good'
<1>1. Found(v)
  BY GoodFound
<1>2. visit[v].pc \in {"download", "finalize"} /\ UNCHANGED history
  BY DEF ReadDownload, FinalizeDownload
<1> DEFINE state == IF visit[v].pc = "download" THEN "read" ELSE "finalized"
<1>3. PICK held \in DOMAIN downloads :
      /\ visit[v].download = held /\ downloads[held] \in Downloads
      /\ downloads[held].owner = v
  BY <1>1, <1>2 DEF Found, VisitGood, TypeOK
<1>4. downloads' = [downloads EXCEPT ![held] = [@ EXCEPT !.state = state]]
  BY <1>2, <1>3 DEF ReadDownload, FinalizeDownload
<1>5. /\ downloads' \in Seq(Downloads) /\ DOMAIN downloads' = DOMAIN downloads
      /\ downloads'[held].owner = v /\ downloads'[held].state = state
      /\ \A d \in DOMAIN downloads \ {held} : downloads'[d] = downloads[d]
  <2>1. [downloads[held] EXCEPT !.state = state] \in Downloads
    BY <1>3 DEF Downloads
  <2>2. downloads \in Seq(Downloads)
    BY DEF Good, TypeOK
  <2> HIDE DEF state
  <2> QED
    BY <1>3, <1>4, <2>1, <2>2 DEF Downloads
<1>6. visit' = [visit EXCEPT ![v] = visit'[v]]
  BY <1>1 DEF ReadDownload, FinalizeDownload, Found
<1>7. /\ visit'[v] \in VisitStates /\ VisitGood(v)'
      /\ visit'[v].download = held
      /\ visit'[v].pc = IF visit[v].pc = "download" THEN "finalize" ELSE "done"
  <2>1. CASE ReadDownload(v)
    <3>1. visit'[v] = [visit[v] EXCEPT !.pc = "finalize", !.file_data = downloads[held].file]
      BY <2>1, <1>1, <1>3 DEF ReadDownload, Found
    <3>2. downloads[held].file \in Files
      BY <1>3 DEF Downloads
    <3> QED
      BY <2>1, <1>1, <1>3, <1>5, <3>1, <3>2
      DEF ReadDownload, Found, VisitStates, VisitGood, Calls
  <2>2. CASE FinalizeDownload(v)
    <3>1. visit'[v] = [visit[v] EXCEPT
             !.pc = "done",
             !.reply = IF "download" \in visit[v].failed THEN "server_error" ELSE "file"]
      BY <2>2, <1>1 DEF FinalizeDownload, Found
    <3>2. PICK reply \in {"server_error", "file"} :
             visit'[v] = [visit[v] EXCEPT !.pc = "done", !.reply = reply]
      BY <3>1
    <3> QED
      BY <2>2, <1>1, <1>3, <3>2, ZenonT(40) DEF FinalizeDownload, Found, VisitStates, VisitGood
  <2> QED
    BY <2>1, <2>2
<1>8. \A d \in DOMAIN downloads' :
         \/ downloads'[d].owner = v /\ DownloadGood(d)'
         \/ d \in DOMAIN downloads /\ downloads'[d] = downloads[d] /\ downloads[d].owner # v
  <2>1. DownloadGood(held)'
    BY <1>2, <1>3, <1>5, <1>7 DEF DownloadGood
  <2>2. ASSUME NEW d \in DOMAIN downloads \ {held}, downloads[d].owner = v
        PROVE  downloads[d].state = "finalized"
    BY <1>2, <1>3, <2>2 DEF Good, DownloadGood
  <2>3. \A d \in DOMAIN downloads \ {held} : downloads[d].owner = v => DownloadGood(d)'
    BY <1>5, <2>2 DEF DownloadGood
  <2> QED
    BY <1>3, <1>5, <2>1, <2>3
<1>9. \A d \in DOMAIN downloads : downloads'[d].owner = downloads[d].owner
  BY <1>3, <1>5
<1> QED
  BY <1>2, <1>5, <1>6, <1>7, <1>8, <1>9, VisitFrame

\* A call fails: the download is given up only where it could not be released.
LEMMA GoodFail ==
    ASSUME Good, NEW v \in Visits, Fail(v)
    PROVE  Good'
<1>1. Found(v)
  BY GoodFound
<1>2. /\ visit' = [visit EXCEPT ![v] = visit'[v]]
      /\ visit'[v] = [visit[v] EXCEPT
            !.failed = @ \cup {visit[v].pc},
            !.pc = IF visit[v].pc = "download" THEN "finalize" ELSE "done",
            !.reply = IF visit[v].pc = "download" THEN NULL ELSE "server_error"]
      /\ visit[v].pc \in Calls
  BY <1>1 DEF Fail, Found, VisitStates
<1>3. visit'[v] \in VisitStates
  <2>1. visit[v].failed \cup {visit[v].pc} \subseteq Calls \cup {"load_answer"}
    BY <1>1, <1>2 DEF Found, VisitStates
  <2>2. PICK failed \in SUBSET (Calls \cup {"load_answer"}), pc \in {"finalize", "done"},
             reply \in {"server_error", NULL} :
           visit'[v] = [visit[v] EXCEPT !.failed = failed, !.pc = pc, !.reply = reply]
    BY <1>2, <2>1
  <2> QED
    BY <1>1, <2>2 DEF Found, VisitStates, Calls
<1>4. VisitGood(v)'
  BY <1>1, <1>2 DEF Found, VisitGood, VisitStates, Fail, Calls
<1>5. \A d \in DOMAIN downloads : downloads[d].owner = v => DownloadGood(d)'
  <2> TAKE d \in DOMAIN downloads
  <2> HAVE downloads[d].owner = v
  <2>1. CASE visit[v].pc \in {"download", "finalize"}
    BY <1>1, <1>2, <2>1 DEF Good, DownloadGood, Fail, Found, VisitStates
  <2>2. CASE visit[v].pc \notin {"download", "finalize"}
    <3>1. downloads[d].state = "finalized"
      BY <1>2, <2>2, NothingHeld DEF Calls
    <3> QED
      BY <3>1 DEF DownloadGood, Fail
  <2> QED
    BY <2>1, <2>2
<1> QED
  BY <1>2, <1>3, <1>4, <1>5, SteadyFrame DEF Fail

LEMMA GoodWorkerDies ==
    ASSUME Good, NEW v \in Visits, WorkerDies(v)
    PROVE  Good'
<1>1. Found(v)
  BY GoodFound
<1>2. /\ visit' = [visit EXCEPT ![v] = visit'[v]]
      /\ visit'[v] = [visit[v] EXCEPT !.pc = "dead"]
  BY <1>1 DEF WorkerDies, Found
<1>3. visit'[v] \in VisitStates /\ VisitGood(v)'
  BY <1>1, <1>2 DEF Found, VisitStates, VisitGood, WorkerDies
<1>4. \A d \in DOMAIN downloads : downloads[d].owner = v => DownloadGood(d)'
  BY <1>1, <1>2 DEF DownloadGood, Found, VisitStates, WorkerDies
<1> QED
  BY <1>2, <1>3, <1>4, SteadyFrame DEF WorkerDies

LEMMA GoodChange ==
    ASSUME Good, Change PROVE Good'
<1>1. TypeOK'
  <2>1. PICK moment \in Moments : history' = Append(history, moment)
    BY DEF Change
  <2>2. /\ history \in Seq(Moments) /\ Len(history) \in Nat /\ Len(history) >= 1
        /\ Len(history) <= MaxChanges
    BY NowIsMoment DEF Good, TypeOK, Change
  <2>3. history' \in Seq(Moments) /\ Len(history') \in 1 .. MaxChanges + 1
    BY <2>1, <2>2, RegistrarsAssumption
  <2> QED
    BY <2>3 DEF Good, TypeOK, Change
<1> QED
  BY <1>1 DEF Good, Change, VisitGood, DownloadGood

LEMMA GoodStep == Good /\ [Next]_vars => Good'
<1> SUFFICES ASSUME Good, [Next]_vars PROVE Good'
  OBVIOUS
<1>1. CASE Change
  BY <1>1, GoodChange
<1>2. ASSUME NEW v \in Visits, NEW subject \in Subjects, Begin(v, subject) PROVE Good'
  BY <1>2, GoodBegin
<1>3. ASSUME NEW v \in Visits, Step(v) PROVE Good'
  BY <1>3, GoodList, GoodFindFile, GoodLoad, GoodDownload, GoodFail DEF Step
<1>4. ASSUME NEW v \in Visits, WorkerDies(v) PROVE Good'
  BY <1>4, GoodWorkerDies
<1>5. CASE UNCHANGED vars
  BY <1>5 DEF vars, Good, TypeOK, VisitGood, DownloadGood
<1> QED
  BY <1>1, <1>2, <1>3, <1>4, <1>5 DEF Next

LEMMA GoodAlways == Spec => []Good
  BY GoodInit, GoodStep, PTL DEF Spec

\* Every variable keeps its type: what is read from the registry and the file
\* manager is what handlers remember.
THEOREM RegistrarTypeCorrect == Spec => []TypeOK
<1>1. Good => TypeOK
  BY DEF Good
<1> QED
  BY <1>1, GoodAlways, PTL

\* No download is left behind in the file manager by a visitor who was
\* answered, however many visitors there are and whichever calls fail, unless
\* the file manager failed to answer "load" or "finalize_download".
THEOREM NoDownloadIsForgotten == Spec => []DownloadsAreReleased
<1>1. Good => DownloadsAreReleased
  <2> SUFFICES ASSUME Good, NEW d \in DOMAIN downloads,
                      downloads[d].state # "finalized",
                      visit[downloads[d].owner].reply # NULL
               PROVE  visit[downloads[d].owner].failed \cap {"load_answer", "finalize"} # {}
    BY DEF DownloadsAreReleased
  <2>1. downloads[d].owner \in Visits
    <3>1. downloads[d] \in Downloads
      BY DEF Good, TypeOK
    <3> QED
      BY <3>1 DEF Downloads
  <2> QED
    BY <2>1 DEF Good, VisitGood, DownloadGood
<1> QED
  BY <1>1, GoodAlways, PTL

-----------------------------------------------------------------------------
(* What handlers remember is of a moment since they began. *)

\* The registrar asked for had a certificate with this file.
Certified(v) ==
    \E t \in Since(v) :
        LET cert == history[t].certifications[visit[v].subject.handle]
        IN  cert # NULL /\ cert.file = visit[v].file_id

\* The download v holds is of the file of the certificate.
FileRemembered(v) ==
    LET s == visit[v]
    IN  /\ s.pc \in {"info", "load", "download", "finalize"} => Certified(v)
        /\ s.pc \in {"download", "finalize"} => downloads[s.download].file = s.file_id
        /\ s.pc = "finalize" /\ "download" \notin s.failed => s.file_data = s.file_id
        /\ s.reply = "file" =>
              /\ Certified(v) /\ s.file_data = s.file_id /\ s.download \in DOMAIN downloads
              /\ downloads[s.download] =
                    [file |-> s.file_id, state |-> "finalized", owner |-> v]

\* "Not found" was true.
AbsenceRemembered(v) ==
    visit[v].reply = "not_found" =>
        \E t \in Since(v) :
            IF visit[v].subject.page = "list"
            THEN history[t].groups[visit[v].subject.group] = NULL
            ELSE history[t].certifications[visit[v].subject.handle] = NULL

\* Registrars, and groups where they are read before the certificates, are
\* those of two moments in this order; so are the certificates of the rows.
ListRemembered(v) ==
    LET s == visit[v]
        group == s.subject.group
    IN  s.pc # "idle" /\ s.subject.page = "list" =>
            /\ s.pc = "registrars" => s.groups = NULL /\ s.certifications = NULL
            /\ s.pc = "groups" /\ group # NULL =>
                  /\ s.registrars # NULL /\ s.groups = NULL /\ s.certifications = NULL
                  /\ \E t1 \in Since(v) : s.registrars = history[t1].registrars
            /\ s.pc = "certifications" /\ group # NULL =>
                  /\ s.registrars # NULL /\ s.groups # NULL /\ s.certifications = NULL
                  /\ ~GroupIsUnknown(s)
                  /\ \E t1, t2 \in Since(v) :
                        /\ t1 <= t2
                        /\ s.registrars = history[t1].registrars /\ s.groups = history[t2].groups
            /\ s.pc = "certifications" /\ group = NULL =>
                  /\ s.registrars # NULL /\ s.groups = NULL /\ s.certifications = NULL
                  /\ \E t1 \in Since(v) : s.registrars = history[t1].registrars
            /\ s.pc = "groups" /\ group = NULL =>
                  /\ s.registrars # NULL /\ s.groups = NULL
                  /\ s.certifications = NULL => Listed(s) = {}
                  /\ \E t1, t3 \in Since(v) :
                        /\ t1 <= t3
                        /\ s.registrars = history[t1].registrars
                        /\ Listed(s) # {} => s.certifications = history[t3].certifications
            /\ s.reply = "list" =>
                  \E t1, t2, t3 \in Since(v) :
                     /\ IF group = NULL THEN t1 <= t3 /\ t3 <= t2 ELSE t1 <= t2 /\ t2 <= t3
                     /\ s.registrars = history[t1].registrars /\ s.groups = history[t2].groups
                     /\ Listed(s) # {} => s.certifications = history[t3].certifications

Remembered(v) ==
    /\ visit[v].pc = "idle" => visit[v] = IdleVisit
    /\ visit[v].reply = "list" => visit[v].pc # "idle" /\ visit[v].subject.page = "list"
    /\ visit[v].pc # "idle" => visit[v].began \in 1 .. Len(history)
    /\ FileRemembered(v) /\ AbsenceRemembered(v) /\ ListRemembered(v)

Memory == Good /\ \A v \in Visits : Remembered(v)

\* What a handler remembers stays true while the registry goes on and others
\* use the file manager.
LEMMA StillRemembered ==
    ASSUME Good, Good', NEW v \in Visits, Remembered(v),
           visit'[v] = visit[v],
           Len(history) <= Len(history'),
           \A t \in 1 .. Len(history) : history'[t] = history[t],
           \A d \in DOMAIN downloads :
              downloads[d].owner = v => d \in DOMAIN downloads' /\ downloads'[d] = downloads[d]
    PROVE  Remembered(v)'
<1>1. Len(history) \in Nat /\ Len(history') \in Nat
  BY DEF Good, TypeOK
<1>2. CASE visit[v].pc = "idle"
  BY <1>2, NullIsNoAnswer DEF Good, VisitGood, Remembered, FileRemembered,
        AbsenceRemembered, ListRemembered
<1>3. CASE visit[v].pc # "idle"
  <2>1. /\ visit[v].began \in 1 .. Len(history) /\ visit'[v].began = visit[v].began
        /\ Since(v) \subseteq Since(v)' /\ \A t \in Since(v) : history'[t] = history[t]
    BY <1>1, <1>3 DEF Remembered, Since
  <2>2. visit'[v].began \in 1 .. Len(history')
    BY <1>1, <2>1
  <2>3. FileRemembered(v)'
    <3>1. Certified(v) => Certified(v)'
      BY <2>1 DEF Certified
    <3>2. visit[v].pc \in {"download", "finalize"} =>
             /\ visit[v].download \in DOMAIN downloads
             /\ downloads[visit[v].download].owner = v
      BY DEF Good, VisitGood
    <3> QED
      BY <3>1, <3>2 DEF Remembered, FileRemembered
  <2>4. AbsenceRemembered(v)'
    BY <2>1 DEF Remembered, AbsenceRemembered
  <2>5. ListRemembered(v)'
    BY <2>1 DEF Remembered, ListRemembered
  <2> QED
    BY <2>2, <2>3, <2>4, <2>5 DEF Remembered
<1> QED
  BY <1>2, <1>3

LEMMA MemoryInit == Init => Memory
<1>1. ASSUME Init, NEW v \in Visits PROVE Remembered(v)
  <2>1. visit[v] = IdleVisit
    BY <1>1 DEF Init
  <2>2. visit[v].pc = "idle" /\ visit[v].reply = NULL
    BY <2>1 DEF IdleVisit
  <2> QED
    BY <2>1, <2>2, NullIsNoAnswer
    DEF Remembered, FileRemembered, AbsenceRemembered, ListRemembered
<1> QED
  BY <1>1, GoodInit DEF Memory

\* A step of v that leaves the registry and the downloads of others alone.
LEMMA MemoryFrame ==
    ASSUME Memory, Good', NEW v \in Visits, Remembered(v)',
           visit' = [visit EXCEPT ![v] = visit'[v]],
           UNCHANGED history,
           \A d \in DOMAIN downloads :
              downloads[d].owner # v => d \in DOMAIN downloads' /\ downloads'[d] = downloads[d]
    PROVE  Memory'
<1>1. ASSUME NEW w \in Visits, w # v PROVE Remembered(w)'
  <2>1. visit'[w] = visit[w]
    BY <1>1 DEF Memory, Good, TypeOK
  <2>2. Len(history) \in Nat
    BY DEF Memory, Good, TypeOK
  <2> QED
    BY <1>1, <2>1, <2>2, StillRemembered DEF Memory
<1> QED
  BY <1>1 DEF Memory

\* What a step of v finds.
Recalls(v) ==
    /\ Found(v) /\ Remembered(v)
    /\ Len(history) \in Nat
    /\ visit[v].pc # "idle" => Len(history) \in Since(v)

LEMMA MemoryRecalls ==
    ASSUME Memory, NEW v \in Visits PROVE Recalls(v)
<1>1. Found(v) /\ Len(history) \in Nat
  BY GoodFound DEF Memory, Good, TypeOK
<1> QED
  BY <1>1 DEF Memory, Recalls, Remembered, Since

LEMMA MemoryBegin ==
    ASSUME Memory, NEW v \in Visits, NEW subject \in Subjects, Begin(v, subject)
    PROVE  Memory'
<1>1. Recalls(v) /\ Good'
  BY MemoryRecalls, GoodBegin DEF Memory
<1>2. /\ visit' = [visit EXCEPT ![v] = visit'[v]]
      /\ visit'[v] = [visit[v] EXCEPT
            !.subject = subject, !.began = Len(history),
            !.pc = IF subject.page = "list" THEN "registrars" ELSE "certifications"]
  BY <1>1 DEF Begin, Recalls, Found, VisitStates
<1>3. UNCHANGED <<history, downloads>>
  BY DEF Begin
<1>4. /\ visit'[v].reply = NULL /\ visit'[v].groups = NULL /\ visit'[v].certifications = NULL
      /\ visit'[v].began = Len(history) /\ visit'[v].subject = subject
      /\ visit'[v].pc = IF subject.page = "list" THEN "registrars" ELSE "certifications"
  <2>1. visit[v] = IdleVisit
    BY <1>1 DEF Begin, Recalls, Remembered
  <2> QED
    BY <1>2, <2>1 DEF IdleVisit
<1>5. Len(history) \in 1 .. Len(history)
  BY <1>1 DEF Recalls, Found, TypeOK
<1>6. Remembered(v)'
  BY <1>3, <1>4, <1>5, NullIsNoAnswer
  DEF Remembered, FileRemembered, AbsenceRemembered, ListRemembered
<1> QED
  BY <1>1, <1>2, <1>3, <1>6, MemoryFrame

\* The calls of a list keep what was read before them.
LEMMA ListKeeps ==
    ASSUME NEW s \in VisitStates, s.reply = NULL
    PROVE  LET c == ContinuedList(s)
           IN  /\ c.subject = s.subject /\ c.began = s.began /\ c.registrars = s.registrars
               /\ c.groups = s.groups /\ c.certifications = s.certifications
               /\ c.pc = NextListCall(s)
               /\ c.reply = IF NextListCall(s) # "done" THEN NULL
                            ELSE IF GroupIsUnknown(s) THEN "not_found" ELSE "list"
               /\ Listed(c) = Listed(s) /\ GroupIsUnknown(c) = GroupIsUnknown(s)
<1> DEFINE reply == IF NextListCall(s) # "done" THEN NULL
                    ELSE IF GroupIsUnknown(s) THEN "not_found" ELSE "list"
           c == ContinuedList(s)
<1>1. c = [s EXCEPT !.pc = NextListCall(s), !.reply = reply]
  BY DEF ContinuedList
<1> HIDE DEF reply, c
<1>2. /\ c.subject = s.subject /\ c.began = s.began /\ c.registrars = s.registrars
      /\ c.groups = s.groups /\ c.certifications = s.certifications
      /\ c.pc = NextListCall(s) /\ c.reply = reply
  BY <1>1 DEF VisitStates
<1>3. Listed(c) = Listed(s)
  BY <1>2 DEF Listed
<1>4. GroupIsUnknown(c) = GroupIsUnknown(s)
  BY <1>2 DEF GroupIsUnknown
<1> QED
  BY <1>2, <1>3, <1>4 DEF reply, c

\* What Recalls says of a handler of a list, and what ListFrame asks for.
ListStep(v, s) ==
    /\ visit[v].pc \in {"registrars", "groups", "certifications"}
    /\ visit[v].subject.page = "list"
    /\ s \in VisitStates /\ s.reply = NULL
    /\ s.subject = visit[v].subject /\ s.began = visit[v].began
    /\ visit' = [visit EXCEPT ![v] = ContinuedList(s)]
    /\ UNCHANGED <<history, downloads>>

\* A call of a list keeps the memory if the list does.
LEMMA ListFrame ==
    ASSUME Memory, Good', NEW v \in Visits, NEW s, ListStep(v, s),
           NextListCall(s) = "done" /\ GroupIsUnknown(s) => s.groups = Now.groups,
           ListRemembered(v)'
    PROVE  Memory'
<1>1. Recalls(v)
  BY MemoryRecalls
<1>2. /\ visit'[v] = ContinuedList(s) /\ visit' = [visit EXCEPT ![v] = visit'[v]]
      /\ UNCHANGED <<history, downloads>>
  BY <1>1 DEF ListStep, Recalls, Found
<1>3. /\ visit'[v].subject = visit[v].subject /\ visit'[v].began = visit[v].began
      /\ visit'[v].pc = NextListCall(s) /\ visit'[v].groups = s.groups
      /\ visit'[v].reply = IF NextListCall(s) # "done" THEN NULL
                           ELSE IF GroupIsUnknown(s) THEN "not_found" ELSE "list"
      /\ NextListCall(s) \in {"registrars", "groups", "certifications", "done"}
  BY <1>2, ListKeeps DEF ListStep, NextListCall
<1>4. FileRemembered(v)'
  BY <1>3, NullIsNoAnswer DEF FileRemembered, ListStep
<1>5. visit[v].began \in 1 .. Len(history) /\ Len(history) \in Since(v)'
  BY <1>1, <1>2, <1>3 DEF Recalls, Remembered, Since, ListStep
<1>6. AbsenceRemembered(v)'
  <2> SUFFICES ASSUME visit'[v].reply = "not_found"
               PROVE  history'[Len(history)].groups[visit'[v].subject.group] = NULL
    BY <1>2, <1>3, <1>5 DEF AbsenceRemembered, ListStep
  <2>1. NextListCall(s) = "done" /\ GroupIsUnknown(s)
    BY <1>3, NullIsNoAnswer
  <2>2. s.groups = Now.groups /\ s.groups[s.subject.group] = NULL
    BY <2>1 DEF GroupIsUnknown
  <2> QED
    BY <1>2, <1>3, <2>2 DEF Now, ListStep
<1>7. Remembered(v)'
  BY <1>2, <1>3, <1>4, <1>5, <1>6 DEF Remembered, ListStep
<1> QED
  BY <1>2, <1>7, MemoryFrame

LEMMA MemoryReadRegistrars ==
    ASSUME Memory, NEW v \in Visits, ReadRegistrars(v)
    PROVE  Memory'
<1>1. Recalls(v) /\ Good'
  BY MemoryRecalls, GoodList DEF Memory
<1> DEFINE s == [visit[v] EXCEPT !.registrars = Now.registrars]
<1>2. /\ ListStep(v, s) /\ s.registrars = Now.registrars /\ s.registrars # NULL
      /\ s.groups = NULL /\ s.certifications = NULL
  <2>1. visit[v].subject.page = "list" /\ visit[v].reply = NULL
    BY <1>1 DEF Recalls, Found, VisitGood, ReadRegistrars
  <2>2. visit[v].groups = NULL /\ visit[v].certifications = NULL
    BY <1>1, <2>1 DEF Recalls, Remembered, ListRemembered, ReadRegistrars
  <2> QED
    BY <1>1, <2>1, <2>2, NowIsMoment, NullIsNoAnswer
    DEF ListStep, ReadRegistrars, Recalls, Found, VisitStates
<1> HIDE DEF s
<1>3. ~GroupIsUnknown(s) /\ NextListCall(s) =
         IF s.subject.group # NULL THEN "groups"
         ELSE IF Listed(s) # {} THEN "certifications" ELSE "groups"
  BY <1>2 DEF GroupIsUnknown, NextListCall
<1>4. ListRemembered(v)'
  <2>1. visit'[v] = ContinuedList(s)
    BY <1>1, <1>2 DEF ListStep, Recalls, Found
  <2>2. /\ visit'[v].subject = s.subject /\ visit'[v].began = s.began
        /\ visit'[v].registrars = history'[Len(history)].registrars
        /\ visit'[v].registrars # NULL
        /\ visit'[v].groups = NULL /\ visit'[v].certifications = NULL
        /\ visit'[v].pc = NextListCall(s) /\ visit'[v].reply = NULL
        /\ Listed(visit'[v]) = Listed(s)
    BY <1>2, <1>3, <2>1, ListKeeps DEF ListStep, Now
  <2>3. Len(history) \in Since(v)' /\ Len(history) \in Nat
    BY <1>1, <1>2, <2>2 DEF Recalls, Since, ListStep
  <2> QED
    BY <1>3, <2>2, <2>3, NullIsNoAnswer DEF ListRemembered
<1> QED
  BY <1>1, <1>2, <1>3, <1>4, ListFrame

LEMMA MemoryReadGroups ==
    ASSUME Memory, NEW v \in Visits, ReadGroups(v)
    PROVE  Memory'
<1>1. Recalls(v) /\ Good'
  BY MemoryRecalls, GoodList DEF Memory
<1> DEFINE s == [visit[v] EXCEPT !.groups = Now.groups]
<1>2. /\ ListStep(v, s) /\ s.groups = Now.groups /\ s.groups # NULL
      /\ s.registrars = visit[v].registrars /\ s.certifications = visit[v].certifications
      /\ s.subject = visit[v].subject
  <2>1. visit[v].subject.page = "list" /\ visit[v].reply = NULL
    BY <1>1 DEF Recalls, Found, VisitGood, ReadGroups
  <2> QED
    <3>1. PICK groups : groups = Now.groups
      OBVIOUS
    <3>2. groups \in [Groups -> (SUBSET Registrars) \cup {NULL}] /\ groups # NULL
      BY <3>1, <1>1, NowIsMoment, NullIsNoAnswer DEF Recalls, Found
    <3>3. s \in VisitStates
      BY <3>1, <3>2, <1>1 DEF Recalls, Found, VisitStates
    <3> QED
      BY <3>1, <3>2, <3>3, <1>1, <2>1 DEF ListStep, ReadGroups, Recalls, Found, VisitStates
<1> HIDE DEF s
<1>3. /\ visit'[v] = ContinuedList(s) /\ visit'[v].subject = s.subject
      /\ visit'[v].began = s.began /\ visit'[v].registrars = s.registrars
      /\ visit'[v].groups = history'[Len(history)].groups /\ visit'[v].groups # NULL
      /\ visit'[v].certifications = s.certifications
      /\ visit'[v].pc = NextListCall(s)
      /\ visit'[v].reply = IF NextListCall(s) # "done" THEN NULL
                           ELSE IF GroupIsUnknown(s) THEN "not_found" ELSE "list"
      /\ Listed(visit'[v]) = Listed(s) /\ GroupIsUnknown(visit'[v]) = GroupIsUnknown(s)
  BY <1>1, <1>2, ListKeeps DEF ListStep, Now, Recalls, Found
<1>4. Len(history) \in Since(v)' /\ Len(history) \in Nat /\ UNCHANGED history
      /\ Since(v)' = Since(v) /\ \A t \in Since(v) : t <= Len(history)
  BY <1>1, <1>2, <1>3 DEF Recalls, Since, ListStep, Remembered
<1>5. ListRemembered(v)'
  <2>1. CASE visit[v].subject.group # NULL
    <3>1. /\ s.registrars # NULL /\ s.certifications = NULL
          /\ \E t1 \in Since(v) : s.registrars = history[t1].registrars
      BY <1>1, <1>2, <2>1 DEF Recalls, Remembered, ListRemembered, ListStep, ReadGroups
    <3>2. NextListCall(s) = IF GroupIsUnknown(s) THEN "done"
                            ELSE IF Listed(s) # {} THEN "certifications" ELSE "done"
      BY <1>2, <3>1 DEF NextListCall
    <3> QED
      BY <1>2, <1>3, <1>4, <2>1, <3>1, <3>2, NullIsNoAnswer DEF ListRemembered
  <2>2. CASE visit[v].subject.group = NULL
    <3>1. /\ s.registrars # NULL
          /\ s.certifications = NULL => Listed(visit[v]) = {}
          /\ \E t1, t3 \in Since(v) :
                /\ t1 <= t3
                /\ s.registrars = history[t1].registrars
                /\ Listed(visit[v]) # {} => s.certifications = history[t3].certifications
      BY <1>1, <1>2, <2>2 DEF Recalls, Remembered, ListRemembered, ListStep, ReadGroups
    <3>2. Listed(s) = Listed(visit[v])
      BY <1>2, <2>2 DEF Listed
    <3>3. NextListCall(s) = "done" /\ ~GroupIsUnknown(s)
      BY <1>2, <2>2, <3>1, <3>2 DEF NextListCall, GroupIsUnknown
    <3> QED
      BY <1>2, <1>3, <1>4, <2>2, <3>1, <3>2, <3>3, NullIsNoAnswer DEF ListRemembered
  <2> QED
    BY <2>1, <2>2
<1> QED
  BY <1>1, <1>2, <1>5, ListFrame

LEMMA MemoryReadCertifications ==
    ASSUME Memory, NEW v \in Visits, ReadCertifications(v)
    PROVE  Memory'
<1>1. Recalls(v) /\ Good'
  BY MemoryRecalls, GoodList DEF Memory
<1> DEFINE s == [visit[v] EXCEPT !.certifications = Now.certifications]
<1>2. /\ ListStep(v, s) /\ s.certifications = Now.certifications /\ s.certifications # NULL
      /\ s.registrars = visit[v].registrars /\ s.groups = visit[v].groups
      /\ s.subject = visit[v].subject
  <2>1. visit[v].reply = NULL
    BY <1>1 DEF Recalls, Found, VisitGood, ReadCertifications
  <2> QED
    BY <1>1, <2>1, NowIsMoment, NullIsNoAnswer
    DEF ListStep, ReadCertifications, Recalls, Found, VisitStates
<1> HIDE DEF s
<1>3. /\ visit'[v] = ContinuedList(s) /\ visit'[v].subject = s.subject
      /\ visit'[v].began = s.began /\ visit'[v].registrars = s.registrars
      /\ visit'[v].groups = s.groups
      /\ visit'[v].certifications = history'[Len(history)].certifications
      /\ visit'[v].certifications # NULL
      /\ visit'[v].pc = NextListCall(s)
      /\ visit'[v].reply = IF NextListCall(s) # "done" THEN NULL
                           ELSE IF GroupIsUnknown(s) THEN "not_found" ELSE "list"
      /\ Listed(visit'[v]) = Listed(s) /\ GroupIsUnknown(visit'[v]) = GroupIsUnknown(s)
  BY <1>1, <1>2, ListKeeps DEF ListStep, Now, Recalls, Found
<1>4. Len(history) \in Since(v)' /\ Len(history) \in Nat /\ UNCHANGED history
      /\ Since(v)' = Since(v) /\ \A t \in Since(v) : t <= Len(history)
  BY <1>1, <1>2, <1>3 DEF Recalls, Since, ListStep, Remembered
<1>5. GroupIsUnknown(s) = GroupIsUnknown(visit[v])
  BY <1>2 DEF GroupIsUnknown
<1>6. ~GroupIsUnknown(s) /\ ListRemembered(v)'
  <2>1. CASE visit[v].subject.group # NULL
    <3>1. /\ s.registrars # NULL /\ s.groups # NULL /\ ~GroupIsUnknown(s)
          /\ \E t1, t2 \in Since(v) :
                /\ t1 <= t2
                /\ s.registrars = history[t1].registrars /\ s.groups = history[t2].groups
      BY <1>1, <1>2, <1>5, <2>1
      DEF Recalls, Remembered, ListRemembered, ListStep, ReadCertifications
    <3>2. NextListCall(s) = "done"
      BY <1>2, <3>1 DEF NextListCall
    <3> QED
      BY <1>2, <1>3, <1>4, <2>1, <3>1, <3>2, NullIsNoAnswer DEF ListRemembered
  <2>2. CASE visit[v].subject.group = NULL
    <3>1. /\ s.registrars # NULL /\ s.groups = NULL
          /\ \E t1 \in Since(v) : s.registrars = history[t1].registrars
      BY <1>1, <1>2, <2>2
      DEF Recalls, Remembered, ListRemembered, ListStep, ReadCertifications
    <3>2. NextListCall(s) = "groups" /\ ~GroupIsUnknown(s)
      BY <1>2, <2>2, <3>1 DEF NextListCall, GroupIsUnknown
    <3> QED
      BY <1>2, <1>3, <1>4, <2>2, <3>1, <3>2, NullIsNoAnswer DEF ListRemembered
  <2> QED
    BY <2>1, <2>2
<1> QED
  BY <1>1, <1>2, <1>6, ListFrame

LEMMA MemoryFindFile ==
    ASSUME Memory, NEW v \in Visits, FindEvaluationFile(v)
    PROVE  Memory'
<1>1. Recalls(v) /\ Good'
  BY MemoryRecalls, GoodFindFile DEF Memory
<1>2. /\ visit' = [visit EXCEPT ![v] = visit'[v]]
      /\ visit[v].subject.page = "file" /\ visit[v].reply = NULL
      /\ visit[v].pc = "certifications" /\ UNCHANGED <<history, downloads>>
  BY <1>1 DEF FindEvaluationFile, Recalls, Found, VisitGood
<1>3. Len(history) \in Since(v) /\ visit[v].began \in 1 .. Len(history)
  BY <1>1, <1>2 DEF Recalls, Remembered
<1>4. CASE CertificateOf(v) = NULL
  <2>1. /\ visit'[v] = [visit[v] EXCEPT !.pc = "done", !.reply = "not_found"]
    BY <1>1, <1>4 DEF FindEvaluationFile, Recalls, Found
  <2>2. /\ visit'[v].subject = visit[v].subject /\ visit'[v].began = visit[v].began
        /\ visit'[v].pc = "done" /\ visit'[v].reply = "not_found"
    BY <1>1, <2>1 DEF Recalls, Found, VisitStates
  <2>3. Len(history) \in Since(v)'
        /\ history'[Len(history)].certifications[visit'[v].subject.handle] = NULL
    BY <1>2, <1>3, <1>4, <2>2 DEF Since, CertificateOf, Now
  <2>4. Remembered(v)'
    BY <1>2, <1>3, <2>2, <2>3
    DEF Remembered, FileRemembered, AbsenceRemembered, ListRemembered
  <2> QED
    BY <1>1, <1>2, <2>4, MemoryFrame
<1>5. CASE CertificateOf(v) # NULL
  <2>1. /\ visit'[v] = [visit[v] EXCEPT !.pc = "info", !.file_id = CertificateOf(v).file]
    BY <1>1, <1>5 DEF FindEvaluationFile, Recalls, Found
  <2>2. /\ visit'[v].subject = visit[v].subject /\ visit'[v].began = visit[v].began
        /\ visit'[v].pc = "info" /\ visit'[v].reply = NULL
        /\ visit'[v].file_id = CertificateOf(v).file
    BY <1>1, <1>2, <2>1 DEF Recalls, Found, VisitStates
  <2>3. Certified(v)'
    BY <1>2, <1>3, <1>5, <2>2 DEF Certified, Since, CertificateOf, Now
  <2>4. Remembered(v)'
    BY <1>2, <1>3, <2>2, <2>3, NullIsNoAnswer
    DEF Remembered, FileRemembered, AbsenceRemembered, ListRemembered
  <2> QED
    BY <1>1, <1>2, <2>4, MemoryFrame
<1> QED
  BY <1>4, <1>5

\* What a step of a file after the certificate keeps.
FileStep(v) ==
    /\ visit[v].pc \in {"info", "load", "download", "finalize"}
    /\ visit' = [visit EXCEPT ![v] = visit'[v]]
    /\ visit'[v].subject = visit[v].subject /\ visit'[v].began = visit[v].began
    /\ visit'[v].file_id = visit[v].file_id
    /\ visit'[v].pc \in Calls \cup {"done", "dead"}
    /\ UNCHANGED history

\* Such a step keeps the memory if what it says of the download is right.
LEMMA FileFrame ==
    ASSUME Memory, Good', NEW v \in Visits, FileStep(v),
           visit'[v].pc \in {"info", "load", "download", "finalize", "done", "dead"},
           visit'[v].reply \in {NULL, "file", "server_error"},
           \A d \in DOMAIN downloads :
              downloads[d].owner # v => d \in DOMAIN downloads' /\ downloads'[d] = downloads[d],
           Certified(v)' => FileRemembered(v)'
    PROVE  Memory'
<1>1. Recalls(v)
  BY MemoryRecalls
<1>2. visit[v].subject.page = "file" /\ Certified(v)
  BY <1>1 DEF FileStep, Recalls, Found, VisitGood, Remembered, FileRemembered
<1>3. Since(v)' = Since(v) /\ Certified(v)'
  BY <1>2 DEF FileStep, Certified, Since
<1>4. Remembered(v)'
  BY <1>1, <1>2, <1>3, NullIsNoAnswer
  DEF FileStep, Recalls, Remembered, AbsenceRemembered, ListRemembered
<1> QED
  BY <1>4, MemoryFrame DEF FileStep

LEMMA MemoryReadFileInfo ==
    ASSUME Memory, NEW v \in Visits, ReadFileInfo(v)
    PROVE  Memory'
<1>1. Recalls(v) /\ Good'
  BY MemoryRecalls, GoodFindFile DEF Memory
<1>2. /\ visit'[v] = [visit[v] EXCEPT !.pc = "load"]
      /\ visit' = [visit EXCEPT ![v] = visit'[v]]
  BY <1>1 DEF ReadFileInfo, Recalls, Found
<1>3. FileStep(v) /\ visit'[v].pc = "load" /\ visit'[v].reply = NULL
  BY <1>1, <1>2 DEF ReadFileInfo, FileStep, Recalls, Found, VisitGood, VisitStates, Calls
<1>4. Certified(v)' => FileRemembered(v)'
  BY <1>3, NullIsNoAnswer DEF FileRemembered
<1> QED
  BY <1>1, <1>3, <1>4, FileFrame DEF ReadFileInfo

LEMMA MemoryLoadFile ==
    ASSUME Memory, NEW v \in Visits, LoadFile(v)
    PROVE  Memory'
<1>1. Recalls(v) /\ Good'
  BY MemoryRecalls, GoodLoad DEF Memory
<1>2. /\ visit'[v] = [visit[v] EXCEPT !.pc = "download", !.download = Len(downloads')]
      /\ visit' = [visit EXCEPT ![v] = visit'[v]]
  BY <1>1 DEF LoadFile, Recalls, Found
<1>3. /\ FileStep(v) /\ visit'[v].pc = "download" /\ visit'[v].reply = NULL
      /\ visit'[v].download = Len(downloads')
  BY <1>1, <1>2 DEF LoadFile, FileStep, Recalls, Found, VisitGood, VisitStates, Calls
<1>4. /\ DOMAIN downloads \subseteq DOMAIN downloads'
      /\ \A d \in DOMAIN downloads : downloads'[d] = downloads[d]
      /\ downloads'[Len(downloads')].file = visit[v].file_id
  <2>1. visit[v].file_id \in Files
    BY <1>1 DEF LoadFile, Recalls, Found, VisitGood
  <2>2. /\ DOMAIN downloads' = DOMAIN downloads \cup {Len(downloads')}
        /\ \A d \in DOMAIN downloads : downloads'[d] = downloads[d]
        /\ downloads'[Len(downloads')] =
              [file |-> visit[v].file_id, state |-> "open", owner |-> v]
    BY <1>1, <2>1, OpenDownloadType DEF LoadFile, Recalls, Found
  <2>3. DOMAIN downloads \subseteq DOMAIN downloads'
    BY <2>2
  <2>4. downloads'[Len(downloads')].file = visit[v].file_id
    BY <2>2
  <2> QED
    BY <2>2, <2>3, <2>4
<1>5. Certified(v)' => FileRemembered(v)'
  BY <1>3, <1>4, NullIsNoAnswer DEF FileRemembered, FileStep
<1> QED
  BY <1>1, <1>3, <1>4, <1>5, FileFrame

LEMMA MemoryLoadAnswerLost ==
    ASSUME Memory, NEW v \in Visits, LoadAnswerLost(v)
    PROVE  Memory'
<1>1. Recalls(v) /\ Good'
  BY MemoryRecalls, GoodLoad DEF Memory
<1>2. /\ visit'[v] = [visit[v] EXCEPT !.pc = "done", !.reply = "server_error",
                                       !.failed = @ \cup {"load_answer"}]
      /\ visit' = [visit EXCEPT ![v] = visit'[v]]
  BY <1>1 DEF LoadAnswerLost, Recalls, Found
<1>3. FileStep(v) /\ visit'[v].pc = "done" /\ visit'[v].reply = "server_error"
  BY <1>1, <1>2 DEF LoadAnswerLost, FileStep, Recalls, Found, VisitStates, Calls
<1>4. /\ DOMAIN downloads \subseteq DOMAIN downloads'
      /\ \A d \in DOMAIN downloads : downloads'[d] = downloads[d]
  <2>1. visit[v].file_id \in Files
    BY <1>1 DEF LoadAnswerLost, Recalls, Found, VisitGood
  <2> QED
    BY <1>1, <2>1, OpenDownloadType DEF LoadAnswerLost, Recalls, Found
<1>5. Certified(v)' => FileRemembered(v)'
  BY <1>3 DEF FileRemembered
<1> QED
  BY <1>1, <1>3, <1>4, <1>5, FileFrame

\* The download is read, or released.
LEMMA MemoryDownload ==
    ASSUME Memory, NEW v \in Visits, ReadDownload(v) \/ FinalizeDownload(v)
    PROVE  Memory'
<1>1. Recalls(v) /\ Good'
  BY MemoryRecalls, GoodDownload DEF Memory
<1>2. PICK held \in DOMAIN downloads :
      /\ visit[v].download = held /\ downloads[held] \in Downloads
      /\ downloads[held].owner = v /\ downloads[held].file = visit[v].file_id
  BY <1>1 DEF ReadDownload, FinalizeDownload, Recalls, Found, VisitGood, TypeOK,
        Remembered, FileRemembered
<1>3. visit' = [visit EXCEPT ![v] = visit'[v]]
  BY <1>1 DEF ReadDownload, FinalizeDownload, Recalls, Found
<1>4. CASE ReadDownload(v)
  <2>1. visit'[v] = [visit[v] EXCEPT !.pc = "finalize", !.file_data = downloads[held].file]
    BY <1>1, <1>2, <1>4 DEF ReadDownload, Recalls, Found
  <2>2. /\ FileStep(v) /\ visit'[v].pc = "finalize" /\ visit'[v].reply = NULL
        /\ visit'[v].download = held /\ visit'[v].file_data = visit'[v].file_id
    BY <1>1, <1>2, <1>3, <1>4, <2>1
    DEF ReadDownload, FileStep, Recalls, Found, VisitGood, VisitStates, Calls
  <2>3. downloads' = [downloads EXCEPT ![held] = [@ EXCEPT !.state = "read"]]
    BY <1>2, <1>4 DEF ReadDownload
  <2>4. /\ DOMAIN downloads' = DOMAIN downloads /\ downloads'[held].file = visit[v].file_id
        /\ \A d \in DOMAIN downloads \ {held} : downloads'[d] = downloads[d]
    BY <1>2, <2>3 DEF Downloads
  <2>5. Certified(v)' => FileRemembered(v)'
    BY <2>2, <2>4, NullIsNoAnswer DEF FileRemembered, FileStep
  <2> QED
    BY <1>1, <1>2, <2>2, <2>4, <2>5, FileFrame
<1>5. CASE FinalizeDownload(v)
  <2>1. PICK reply \in {"server_error", "file"} :
           /\ visit'[v] = [visit[v] EXCEPT !.pc = "done", !.reply = reply]
           /\ reply = "file" => "download" \notin visit[v].failed
    BY <1>1, <1>5 DEF FinalizeDownload, Recalls, Found
  <2>2. /\ FileStep(v) /\ visit'[v].pc = "done" /\ visit'[v].reply = reply
        /\ visit'[v].download = held /\ visit'[v].file_data = visit[v].file_data
    BY <1>1, <1>2, <1>3, <1>5, <2>1
    DEF FinalizeDownload, FileStep, Recalls, Found, VisitStates, Calls
  <2>3. downloads' = [downloads EXCEPT ![held] = [@ EXCEPT !.state = "finalized"]]
    BY <1>2, <1>5 DEF FinalizeDownload
  <2>4. /\ DOMAIN downloads' = DOMAIN downloads
        /\ downloads'[held] = [file |-> visit[v].file_id, state |-> "finalized", owner |-> v]
        /\ \A d \in DOMAIN downloads \ {held} : downloads'[d] = downloads[d]
    BY <1>2, <2>3 DEF Downloads
  <2>5. reply = "file" => visit[v].file_data = visit[v].file_id
    BY <1>1, <1>5, <2>1 DEF FinalizeDownload, Recalls, Remembered, FileRemembered
  <2>6. Certified(v)' => FileRemembered(v)'
    BY <1>2, <2>1, <2>2, <2>4, <2>5 DEF FileRemembered, FileStep
  <2> QED
    BY <1>1, <1>2, <2>1, <2>2, <2>4, <2>6, FileFrame
<1> QED
  BY <1>4, <1>5

LEMMA MemoryFail ==
    ASSUME Memory, NEW v \in Visits, Fail(v)
    PROVE  Memory'
<1>1. Recalls(v) /\ Good'
  BY MemoryRecalls, GoodFail DEF Memory
<1>2. /\ visit' = [visit EXCEPT ![v] = visit'[v]]
      /\ visit'[v].subject = visit[v].subject /\ visit'[v].began = visit[v].began
      /\ visit'[v].download = visit[v].download /\ visit'[v].file_id = visit[v].file_id
      /\ visit'[v].failed = visit[v].failed \cup {visit[v].pc}
      /\ visit'[v].pc = IF visit[v].pc = "download" THEN "finalize" ELSE "done"
      /\ visit'[v].reply = IF visit[v].pc = "download" THEN NULL ELSE "server_error"
      /\ visit[v].pc \in Calls /\ UNCHANGED <<history, downloads>>
  BY <1>1 DEF Fail, Recalls, Found, VisitStates
<1>3. CASE visit[v].pc \in {"info", "load", "download", "finalize"}
  <2>1. FileStep(v)
    BY <1>2, <1>3 DEF FileStep, Calls
  <2>2. Certified(v)' => FileRemembered(v)'
    BY <1>1, <1>2, <1>3, NullIsNoAnswer DEF FileRemembered, Recalls, Remembered
  <2> QED
    BY <1>1, <1>2, <2>1, <2>2, FileFrame
<1>4. CASE visit[v].pc \in {"registrars", "groups", "certifications"}
  <2>1. visit'[v].pc = "done" /\ visit'[v].reply = "server_error"
    BY <1>2, <1>4
  <2>2. visit[v].began \in 1 .. Len(history)
    BY <1>1, <1>4 DEF Recalls, Remembered
  <2>3. Remembered(v)'
    BY <1>2, <2>1, <2>2 DEF Remembered, FileRemembered, AbsenceRemembered, ListRemembered
  <2> QED
    BY <1>1, <1>2, <2>3, MemoryFrame
<1> QED
  BY <1>2, <1>3, <1>4 DEF Calls

LEMMA MemoryWorkerDies ==
    ASSUME Memory, NEW v \in Visits, WorkerDies(v)
    PROVE  Memory'
<1>1. Recalls(v) /\ Good'
  BY MemoryRecalls, GoodWorkerDies DEF Memory
<1>2. /\ visit' = [visit EXCEPT ![v] = visit'[v]]
      /\ visit'[v].pc = "dead" /\ visit'[v].reply = NULL /\ visit'[v].began = visit[v].began
      /\ visit[v].pc # "idle" /\ UNCHANGED <<history, downloads>>
  BY <1>1 DEF WorkerDies, Recalls, Found, VisitGood, VisitStates
<1>3. visit[v].began \in 1 .. Len(history)
  BY <1>1, <1>2 DEF Recalls, Remembered
<1>4. Remembered(v)'
  BY <1>2, <1>3, NullIsNoAnswer
  DEF Remembered, FileRemembered, AbsenceRemembered, ListRemembered
<1> QED
  BY <1>1, <1>2, <1>4, MemoryFrame

LEMMA MemoryChange ==
    ASSUME Memory, Change PROVE Memory'
<1>1. Good'
  BY GoodChange DEF Memory
<1>2. PICK moment \in Moments : history' = Append(history, moment)
  BY DEF Change
<1>3. history \in Seq(Moments)
  BY DEF Memory, Good, TypeOK
<1>4. Len(history) <= Len(history') /\ \A t \in 1 .. Len(history) : history'[t] = history[t]
  BY <1>2, <1>3
<1> QED
  BY <1>1, <1>4, StillRemembered DEF Memory, Change

LEMMA MemoryStep == Memory /\ [Next]_vars => Memory'
<1> SUFFICES ASSUME Memory, [Next]_vars PROVE Memory'
  OBVIOUS
<1>1. CASE Change
  BY <1>1, MemoryChange
<1>2. ASSUME NEW v \in Visits, NEW subject \in Subjects, Begin(v, subject) PROVE Memory'
  BY <1>2, MemoryBegin
<1>3. ASSUME NEW v \in Visits, Step(v) PROVE Memory'
  BY <1>3, MemoryReadRegistrars, MemoryReadGroups, MemoryReadCertifications,
     MemoryFindFile, MemoryReadFileInfo, MemoryLoadFile, MemoryLoadAnswerLost,
     MemoryDownload, MemoryFail DEF Step
<1>4. ASSUME NEW v \in Visits, WorkerDies(v) PROVE Memory'
  BY <1>4, MemoryWorkerDies
<1>5. CASE UNCHANGED vars
  <2>1. Good'
    BY <1>5, GoodStep DEF Memory, vars
  <2>2. Len(history) \in Nat
    BY DEF Memory, Good, TypeOK
  <2> QED
    BY <1>5, <2>1, <2>2, StillRemembered DEF Memory, vars
<1> QED
  BY <1>1, <1>2, <1>3, <1>4, <1>5 DEF Next

LEMMA MemoryAlways == Spec => []Memory
  BY MemoryInit, MemoryStep, PTL DEF Spec

\* A file that is served is the evaluation of the registrar asked for at a
\* moment since then, read from the handler's own download: no number of
\* concurrent downloads exchanges their files.
THEOREM FilesAreNotExchanged == Spec => []FileIsTheRegistrars
<1>1. Memory => FileIsTheRegistrars
  BY DEF Memory, Remembered, FileRemembered, Certified, FileIsTheRegistrars
<1> QED
  BY <1>1, MemoryAlways, PTL

\* "Not found" is true of a moment since the visitor asked, however often the
\* registry changes between the calls of a handler.
THEOREM AbsenceIsTrue == Spec => []NotFoundIsTrue
<1>1. Memory => NotFoundIsTrue
  BY DEF Memory, Remembered, AbsenceRemembered, NotFoundIsTrue
<1> QED
  BY <1>1, MemoryAlways, PTL

\* A list shows registrars, groups and certificates of one moment each since
\* the visitor asked, and filters its rows by the groups it shows, for any
\* number of registrars, groups and changes.
THEOREM ListsAreOfTheirTime == Spec => []ListIsOfItsTime
<1>1. ASSUME Memory, NEW v \in Visits, visit[v].reply = "list"
      PROVE  \E t1, t2, t3 \in Since(v) :
            LET group == visit[v].subject.group
            IN  /\ IF group = NULL THEN t1 <= t3 /\ t3 <= t2 ELSE t1 <= t2 /\ t2 <= t3
                /\ visit[v].groups = history[t2].groups
                /\ Rows(visit[v]) =
                      {Row(r, history[t3].certifications) :
                          r \in IF group = NULL THEN history[t1].registrars
                                ELSE history[t1].registrars \cap history[t2].groups[group]}
  <2> DEFINE s == visit[v]
             group == s.subject.group
  <2>1. PICK t1, t2, t3 \in Since(v) :
           /\ IF group = NULL THEN t1 <= t3 /\ t3 <= t2 ELSE t1 <= t2 /\ t2 <= t3
           /\ s.registrars = history[t1].registrars /\ s.groups = history[t2].groups
           /\ Listed(s) # {} => s.certifications = history[t3].certifications
    BY <1>1 DEF Memory, Remembered, ListRemembered
  <2>2. Listed(s) = IF group = NULL THEN history[t1].registrars
                    ELSE history[t1].registrars \cap history[t2].groups[group]
    BY <2>1 DEF Listed
  <2>3. Rows(s) = {Row(r, history[t3].certifications) : r \in Listed(s)}
    BY <2>1 DEF Rows
  <2> HIDE DEF s
  <2> QED
    BY <2>1, <2>2, <2>3 DEF s
<1>2. Memory => ListIsOfItsTime
  BY <1>1 DEF ListIsOfItsTime
<1> QED
  BY <1>2, MemoryAlways, PTL

=============================================================================
