------------------------- MODULE ObjectLookupProofs -------------------------
(* Theorems about ObjectLookup, for any lookups, handles and statuses and    *)
(* any registry that changes meanwhile.                                      *)
EXTENDS ObjectLookup, SequenceTheorems, FiniteSetTheorems, TLAPS

-----------------------------------------------------------------------------
(* The registry. *)

\* Every moment is sound, and statuses are learnt and never forgotten.
HistoryGood ==
    /\ history \in Seq(Moments)
    /\ Len(history) \in 1..(MaxChanges + 1)
    /\ \A t \in DOMAIN history :
          /\ Sound(history[t])
          /\ \A o \in Objects : history[t].objects[o] \in Records[o] \cup {NULL}
          /\ \A kind \in TableKinds : history[t].described[kind] \subseteq Now.described[kind]

-----------------------------------------------------------------------------
(* Tasks. *)

Loads == [do : {"load"}, kind : Kinds \ {"domain"}, handle : Handles]
Tasks ==
    Loads \cup [do : {"table"}, kind : TableKinds]
          \cup [do : {"describe"}, kind : TableKinds, statuses : SUBSET Statuses]

\* The objects the tasks load.
Pending(todo) == {<<t.kind, t.handle>> : t \in Range(todo) \cap Loads}

\* A table is got first, and what a set refers to is loaded last.
Ordered(todo) ==
    /\ \A i \in DOMAIN todo : todo[i].do = "table" => i = 1
    /\ \A i, j \in DOMAIN todo :
          i < j /\ todo[j].do = "describe" /\ todo[i].do = "load" =>
              todo[i].kind \notin {"nsset", "keyset"}

-----------------------------------------------------------------------------
(* The handlers and their logs. *)

Working == {"related", "fetch", "store"}

Shown == SUBSET (Objects \X Record)

Pcs == Working \cup {"idle", "log", "load", "finish", "done", "dead"}

LookupStates ==
    [pc               : Pcs,
     view             : Views \cup {NULL},
     handle           : Handles \cup {NULL},
     lang             : Languages \cup {NULL},
     began            : Nat,
     log_request      : Nat \cup {NULL},
     todo             : Seq(Kinds) \cup Seq(Tasks),
     found            : [Kinds -> Record \cup {OBJECT_DELETE_CANDIDATE, NULL}],
     server_exception : Codes \cup {NULL},
     descripts        : Tables \cup {NULL},
     shown            : Shown,
     error            : Errors \cup {NULL},
     reply            : Replies \cup {NULL}]

LogRequests ==
    [handle    : Handles,
     handleType: Views,
     closed    : BOOLEAN,
     result    : {"Ok", "NotFound", "Error"},
     foundType : SUBSET Kinds,
     reason    : Codes \cup {NULL},
     exception : Errors \cup {NULL}]

\* All kinds are asked for, and no exception has left the handler.
Settled(s) == s.pc \in Working \cup {"finish", "done"} /\ s.error = NULL

\* A lookup that asked for all kinds has an answer.
Answerable(s) ==
    LET found == FoundKinds(s.found)
    IN  IF s.view = "multiple" THEN found = {} => s.server_exception # NULL
        ELSE found = IF s.server_exception = NULL THEN {s.view} ELSE {}

\* How far a handler is, by its pc.
Ready(s) ==
    LET found == FoundKinds(s.found)
    IN  /\ s.pc = "idle" => s = Idle
        /\ s.pc # "idle" =>
              /\ s.view \in Views /\ s.handle \in Handles /\ s.lang \in Languages
              /\ \A k \in Kinds : s.found[k] \in Records[<<k, s.handle>>] \cup {NULL}
        /\ s.pc = "done" <=> s.reply # NULL
        /\ s.pc = "done" => s.reply = IF s.error = NULL THEN Page(s) ELSE "server_error"
        /\ s.pc \in {"log", "load"} =>
              /\ s.error = NULL /\ s.todo \in Seq(Kinds) /\ s.todo # <<>>
              /\ s.view # "multiple" =>
                    s.todo = <<s.view>> /\ s.server_exception = NULL /\ found = {}
        /\ s.pc = "log" => LoggerEnabled
        /\ Settled(s) => Answerable(s)
        /\ s.pc \in Working =>
              /\ s.error = NULL /\ s.view \in found
              /\ s.todo \in Seq(Tasks) /\ s.todo # <<>>
        /\ s.pc \in {"fetch", "store"} => Head(s.todo).do = "table"
        /\ s.pc = "store" => s.descripts \in Tables

\* The log request of a handler: open until the object is loaded, and then
\* closed with what was found.
Logged(s, log) ==
    LET found == FoundKinds(s.found)
    IN  /\ s.log_request # NULL =>
              /\ LoggerEnabled
              /\ log.handle = s.handle /\ log.handleType = s.view
              /\ s.pc \in {"load", "finish"} => ~log.closed
              /\ log.closed /\ log.result = "Error" => s.reply = "server_error"
        /\ s.pc \in {"idle", "log"} => s.log_request = NULL
        /\ LoggerEnabled /\ (s.pc = "load" \/ Settled(s)) => s.log_request # NULL
        /\ Settled(s) /\ s.pc # "finish" /\ s.log_request # NULL =>
              /\ log.closed /\ log.foundType = found
              /\ log.result = IF found # {} THEN "Ok" ELSE "NotFound"

LogsDiffer ==
    \A l, m \in Lookups :
        l # m /\ lookup[l].log_request # NULL => lookup[l].log_request # lookup[m].log_request

\* The invariant of types and logs.
Good ==
    /\ HistoryGood
    /\ lookup \in [Lookups -> LookupStates]
    /\ tables \in [Languages \X TableKinds -> Tables \cup {NULL}]
    /\ audit \in Seq(LogRequests)
    /\ \A l \in Lookups :
          /\ Ready(lookup[l]) /\ Logged(lookup[l], audit[lookup[l].log_request])
          /\ lookup[l].pc # "idle" => lookup[l].began \in 1..Len(history)
          /\ lookup[l].log_request # NULL => lookup[l].log_request \in DOMAIN audit
    /\ LogsDiffer

-----------------------------------------------------------------------------
(* What handlers remember of the registry. *)

\* An object was as r, and was there, at some moment since a lookup began.
WasSince(began, o, r) == \E t \in began..Len(history) : history[t].objects[o] = r
ThereSince(began, o) == \E t \in began..Len(history) : history[t].objects[o] # NULL

\* An object was there since a lookup began, and later was not.
DeletedSince(began, o) ==
    \E t, u \in began..Len(history) :
        t < u /\ history[t].objects[o] # NULL /\ history[u].objects[o] = NULL

AskedKinds(view) == Range(Asked(view))

\* The kinds asked for are found or missed as they were.
FoundRemembered(s) ==
    LET todo == IF s.pc \in {"log", "load"} THEN Range(s.todo) ELSE {}
    IN  s.pc \in {"log", "load"} \/ Settled(s) =>
            /\ FoundKinds(s.found) \cup todo \subseteq AskedKinds(s.view)
            /\ \A k \in AskedKinds(s.view) \ todo : WasSince(s.began, <<k, s.handle>>, s.found[k])

\* What a page shows was there; what is still to be loaded was, too.
ShownRemembered(s) == \A x \in s.shown : WasSince(s.began, x[1], x[2])

PendingRemembered(s) ==
    s.pc \in Working => \A o \in Pending(s.todo) : ThereSince(s.began, o)

\* The page and the tasks together make up what belongs to the object.
ShownObjects(s) == {x[1] : x \in s.shown}

Gathered(s) ==
    /\ s.pc \in Working => ShownObjects(s) \cup Pending(s.todo) = Belonging(s)
    /\ s.reply = "page" => ShownObjects(s) = Belonging(s)
    /\ s.pc \in {"log", "load", "finish"} => s.shown = {}

\* A table the registry gave for a language and a kind.
Authentic(table, lang, kind) ==
    /\ table \in Tables /\ table.lang = lang /\ table.kind = kind
    /\ \E t \in DOMAIN history : history[t].described[kind] = table.statuses

\* Texts are looked up for statuses the registry describes, in a table of their
\* kind.
TextsOf(todo, table, lang) ==
    \A d \in Range(todo) :
        d.do = "describe" =>
            /\ d.statuses \subseteq Now.described[d.kind]
            /\ IF Head(todo).do = "table" THEN d.kind = Head(todo).kind
               ELSE Authentic(table, lang, d.kind)

TextsFit(s) ==
    /\ s.pc \in Working => Ordered(s.todo) /\ TextsOf(s.todo, s.descripts, s.lang)
    /\ s.pc = "store" => Authentic(s.descripts, s.lang, Head(s.todo).kind)

\* The object whose load failed: the task is still the first.
Missing(s) == <<Head(s.todo).kind, Head(s.todo).handle>>

\* Why a lookup failed.
Explained(s) ==
    /\ s.error = "OBJECT_NOT_FOUND" =>
          Missing(s) \in Belonging(s) /\ DeletedSince(s.began, Missing(s))
    /\ s.error = "KeyError" =>
          /\ s.descripts \in Tables
          /\ s.descripts.statuses \subseteq Now.described[s.descripts.kind]
          /\ s.descripts.statuses # Now.described[s.descripts.kind]

Remembers(s) ==
    /\ FoundRemembered(s) /\ ShownRemembered(s) /\ PendingRemembered(s)
    /\ Gathered(s) /\ TextsFit(s) /\ Explained(s)

\* The invariant of answers.
Memory ==
    /\ \A l \in Lookups : Remembers(lookup[l])
    /\ \A key \in Languages \X TableKinds :
          tables[key] # NULL => Authentic(tables[key], key[1], key[2])

-----------------------------------------------------------------------------
(* The registry only grows. *)

\* What a step may do to the past.
Grows ==
    /\ Len(history) <= Len(history')
    /\ \A t \in DOMAIN history : t \in DOMAIN history' /\ history'[t] = history[t]
    /\ \A kind \in TableKinds : Now.described[kind] \subseteq Now'.described[kind]

\* The present is one of the moments.
LEMMA NowIsAMoment ==
    ASSUME HistoryGood
    PROVE  /\ Len(history) \in DOMAIN history /\ DOMAIN history = 1..Len(history)
           /\ Len(history) \in Nat \ {0} /\ Now \in Moments
  BY LookupAssumption DEF HistoryGood, Now

\* A moment after the present.
LEMMA HistoryAppend ==
    ASSUME HistoryGood, NEW m \in Moments, Sound(m), Len(history) <= MaxChanges,
           \A o \in Objects : m.objects[o] \in Records[o] \cup {NULL},
           \A kind \in TableKinds : Now.described[kind] \subseteq m.described[kind],
           history' = Append(history, m)
    PROVE  HistoryGood' /\ Grows
<1>1. history' \in Seq(Moments) /\ Len(history') = Len(history) + 1
  BY DEF HistoryGood
<1>2. \A t \in DOMAIN history : t \in DOMAIN history' /\ history'[t] = history[t]
  BY <1>1 DEF HistoryGood
<1>3. history'[Len(history')] = m
  BY <1>1 DEF HistoryGood
<1>4. \A t \in DOMAIN history' : t \in DOMAIN history \/ t = Len(history')
  BY <1>1 DEF HistoryGood
<1>5. Now' = m
  BY <1>3 DEF Now
<1>6. Grows
  BY <1>1, <1>2, <1>5 DEF HistoryGood, Grows
<1>7. ASSUME NEW t \in DOMAIN history'
      PROVE  /\ Sound(history'[t])
             /\ \A o \in Objects : history'[t].objects[o] \in Records[o] \cup {NULL}
             /\ \A kind \in TableKinds : history'[t].described[kind] \subseteq m.described[kind]
  <2>1. CASE t \in DOMAIN history
    BY <2>1, <1>2 DEF HistoryGood
  <2>2. CASE t = Len(history')
    BY <2>2, <1>3
  <2> QED
    BY <2>1, <2>2, <1>4
<1>8. Len(history') \in 1..(MaxChanges + 1)
  BY <1>1, LookupAssumption DEF HistoryGood
<1> QED
  BY <1>1, <1>5, <1>6, <1>7, <1>8 DEF HistoryGood, Sound

LEMMA HistoryKept ==
    ASSUME HistoryGood, UNCHANGED history PROVE HistoryGood' /\ Grows
<1>1. Now' = Now
  BY DEF Now
<1> QED
  BY <1>1 DEF HistoryGood, Grows, Sound

LEMMA HistoryInit == Init => HistoryGood
<1> SUFFICES ASSUME Init PROVE HistoryGood
  OBVIOUS
<1>1. PICK m \in Beginnings : history = <<m>>
  BY DEF Init
<1>2. m \in Moments /\ \A o \in Objects : m.objects[o] \in Records[o] \cup {NULL}
  BY BeginningsAssumption
<1>3. history \in Seq(Moments) /\ Len(history) = 1 /\ DOMAIN history = {1} /\ history[1] = m
  BY <1>1, <1>2
<1>4. Now = m
  BY <1>3 DEF Now
<1> QED
  BY <1>2, <1>3, <1>4, LookupAssumption DEF HistoryGood, Init

LEMMA HistoryStep ==
    ASSUME HistoryGood, [Next]_vars PROVE HistoryGood' /\ Grows
<1>1. ASSUME NEW o \in Objects, NEW r \in Records[o] \cup {NULL}, ChangeObject(o, r)
      PROVE  HistoryGood' /\ Grows
  <2>1. PICK m : m = [Now EXCEPT !.objects[o] = r]
    OBVIOUS
  <2>2. Sound(m) /\ history' = Append(history, m) /\ Len(history) <= MaxChanges
    BY <1>1, <2>1 DEF ChangeObject
  <2>3. r \in Record \cup {OBJECT_DELETE_CANDIDATE, NULL}
    BY LookupAssumption DEF FitsKind
  <2>4. Now \in Moments /\ \A x \in Objects : Now.objects[x] \in Records[x] \cup {NULL}
    BY NowIsAMoment DEF HistoryGood, Now
  <2>5. m \in Moments /\ m.described = Now.described
    BY <2>1, <2>3, <2>4 DEF Moments
  <2>6. \A x \in Objects : m.objects[x] \in Records[x] \cup {NULL}
    BY <2>1, <2>4 DEF Moments
  <2> QED
    BY <2>2, <2>5, <2>6, HistoryAppend
<1>2. ASSUME NEW kind \in TableKinds, NEW s \in Statuses, AddStatus(kind, s)
      PROVE  HistoryGood' /\ Grows
  <2>1. PICK m : m = [Now EXCEPT !.described[kind] = @ \cup {s}]
    OBVIOUS
  <2>2. history' = Append(history, m) /\ Len(history) <= MaxChanges
    BY <1>2, <2>1 DEF AddStatus
  <2>3. Now \in Moments /\ Sound(Now)
        /\ \A x \in Objects : Now.objects[x] \in Records[x] \cup {NULL}
    BY NowIsAMoment DEF HistoryGood, Now
  <2>4. m \in Moments /\ m.objects = Now.objects
    BY <2>1, <2>3 DEF Moments
  <2>5. \A k \in TableKinds : Now.described[k] \subseteq m.described[k]
    BY <2>1, <2>3 DEF Moments
  <2>6. Sound(m)
    BY <2>3, <2>4, <2>5 DEF Sound
  <2> QED
    BY <2>2, <2>3, <2>4, <2>5, <2>6, HistoryAppend
<1>3. ASSUME UNCHANGED history PROVE HistoryGood' /\ Grows
  BY <1>3, HistoryKept
<1>4. ASSUME NEW l \in Lookups, LookupStep(l) PROVE UNCHANGED history
  BY <1>4 DEF LookupStep, PrepareLoggingRequest, PrepareLoggingRequestFails,
     LoadRegistryObject, NoExampleDomain, LoadRegistryObjectFails, Finish, FinishFails,
     GetDescriptions, DescriptionsMissing, FetchDescriptions, StoreDescriptions,
     CacheFails, DescribeStatuses, LoadRelated, RelatedFails
<1>5. ASSUME NEW l \in Lookups, NEW view \in Views, NEW h \in Handles, NEW lang \in Languages,
             Begin(l, view, h, lang)
      PROVE  UNCHANGED history
  BY <1>5 DEF Begin
<1>6. ASSUME NEW l \in Lookups, WorkerDies(l) PROVE UNCHANGED history
  BY <1>6 DEF WorkerDies
<1>7. ASSUME NEW key \in Languages \X TableKinds, Expire(key) PROVE UNCHANGED history
  BY <1>7 DEF Expire
<1> QED
  BY <1>1, <1>2, <1>3, <1>4, <1>5, <1>6, <1>7 DEF Next, vars

-----------------------------------------------------------------------------
(* What the tasks of an object are. *)

\* Tasks of loading only.
OnlyLoads(todo) == todo \in Seq(Tasks) /\ Range(todo) \subseteq Loads

LEMMA TaskKinds ==
    /\ \A t \in Tasks : t.do = "load" <=> t \in Loads
    /\ \A kind \in TableKinds : TableTask(kind) \in Tasks /\ TableTask(kind).do = "table"
    /\ \A kind \in TableKinds, statuses \in SUBSET Statuses :
          /\ DescribeTask(kind, statuses) \in Tasks
          /\ DescribeTask(kind, statuses).do = "describe"
    /\ \A kind \in Kinds \ {"domain"}, h \in Handles :
          /\ LoadTask(kind, h) \in Loads /\ LoadTask(kind, h) \in Tasks
          /\ LoadTask(kind, h).kind = kind /\ LoadTask(kind, h).handle = h
  BY DEF Tasks, Loads, TableTask, DescribeTask, LoadTask

LEMMA RangeOfOne == \A t : Range(<<t>>) = {t}
  BY DEF Range

LEMMA RangeOfNone == Range(<<>>) = {}
  BY DEF Range

\* The tasks for a list of handles.
LEMMA LoadTasksGood ==
    ASSUME NEW kind \in Kinds \ {"domain"}, NEW handles \in Seq(Handles)
    PROVE  /\ OnlyLoads(LoadTasks(kind, handles))
           /\ Pending(LoadTasks(kind, handles)) =
                 {<<kind, handles[i]>> : i \in DOMAIN handles}
           /\ \A t \in Range(LoadTasks(kind, handles)) : t.kind = kind
<1> DEFINE todo == LoadTasks(kind, handles)
<1>1. DOMAIN todo = 1..Len(handles) /\ DOMAIN handles = 1..Len(handles) /\ Len(handles) \in Nat
  BY DEF LoadTasks
<1>2. \A i \in DOMAIN handles : /\ handles[i] \in Handles
                                /\ todo[i] = LoadTask(kind, handles[i])
  BY DEF LoadTasks
<1>3. \A i \in DOMAIN handles : todo[i] \in Loads /\ todo[i] \in Tasks
                                /\ todo[i].kind = kind /\ todo[i].handle = handles[i]
  BY <1>2, TaskKinds
<1>4. todo \in [1..Len(handles) -> Tasks]
  BY <1>1, <1>3 DEF LoadTasks
<1>5. todo \in Seq(Tasks)
  BY <1>1, <1>4, SeqDef
<1>6. Range(todo) = {todo[i] : i \in DOMAIN handles}
  BY <1>1 DEF Range
<1> HIDE DEF todo
<1>7. OnlyLoads(todo) /\ \A t \in Range(todo) : t.kind = kind
  BY <1>3, <1>5, <1>6 DEF OnlyLoads
<1>8. Pending(todo) = {<<kind, handles[i]>> : i \in DOMAIN handles}
  BY <1>3, <1>6 DEF Pending
<1> QED
  BY <1>7, <1>8 DEF todo

LEMMA PendingConcat ==
    ASSUME NEW a \in Seq(Tasks), NEW b \in Seq(Tasks)
    PROVE  /\ a \o b \in Seq(Tasks)
           /\ Range(a \o b) = Range(a) \cup Range(b)
           /\ Pending(a \o b) = Pending(a) \cup Pending(b)
<1>1. Range(a \o b) = Range(a) \cup Range(b)
  BY RangeConcatenation
<1> QED
  BY <1>1 DEF Pending

LEMMA OneLoad ==
    ASSUME NEW kind \in Kinds \ {"domain"}, NEW h \in Handles
    PROVE  /\ OnlyLoads(<<LoadTask(kind, h)>>)
           /\ Pending(<<LoadTask(kind, h)>>) = {<<kind, h>>}
           /\ Range(<<LoadTask(kind, h)>>) = {LoadTask(kind, h)}
<1>1. Range(<<LoadTask(kind, h)>>) = {LoadTask(kind, h)}
  BY RangeOfOne
<1>2. LoadTask(kind, h) \in Loads /\ LoadTask(kind, h) \in Tasks
      /\ LoadTask(kind, h).kind = kind /\ LoadTask(kind, h).handle = h
  BY TaskKinds
<1>3. <<LoadTask(kind, h)>> \in Seq(Tasks)
  BY <1>2
<1> QED
  BY <1>1, <1>2, <1>3 DEF OnlyLoads, Pending

LEMMA NoLoads == OnlyLoads(<<>>) /\ Pending(<<>>) = {}
  BY RangeOfNone DEF OnlyLoads, Pending

\* Tasks that begin with the table of a kind, look up its texts at most once
\* and load sets only afterwards.
Begun(todo, kind, statuses) ==
    /\ todo \in Seq(Tasks) /\ Ordered(todo)
    /\ todo # <<>> /\ Head(todo) = TableTask(kind)
    /\ \A t \in Range(todo) : t.do = "describe" => t = DescribeTask(kind, statuses)

\* The table alone, and the table with the texts before the rest.
LEMMA BegunAlone ==
    ASSUME NEW kind \in TableKinds, NEW statuses
    PROVE  Begun(<<TableTask(kind)>>, kind, statuses) /\ Pending(<<TableTask(kind)>>) = {}
<1>1. TableTask(kind) \in Tasks /\ TableTask(kind).do = "table" /\ TableTask(kind) \notin Loads
  BY TaskKinds DEF Loads
<1>2. <<TableTask(kind)>> \in Seq(Tasks) /\ Range(<<TableTask(kind)>>) = {TableTask(kind)}
  BY <1>1, RangeOfOne
<1>3. Ordered(<<TableTask(kind)>>)
  BY <1>1 DEF Ordered
<1> QED
  BY <1>1, <1>2, <1>3 DEF Begun, Pending

LEMMA BegunWithTexts ==
    ASSUME NEW kind \in TableKinds, NEW statuses \in SUBSET Statuses, NEW rest, OnlyLoads(rest)
    PROVE  LET todo == <<TableTask(kind), DescribeTask(kind, statuses)>> \o rest
           IN  Begun(todo, kind, statuses) /\ Pending(todo) = Pending(rest)
<1> DEFINE first == <<TableTask(kind), DescribeTask(kind, statuses)>>
           todo == first \o rest
<1>1. /\ TableTask(kind) \in Tasks /\ TableTask(kind).do = "table"
      /\ DescribeTask(kind, statuses) \in Tasks /\ DescribeTask(kind, statuses).do = "describe"
      /\ \A t \in Loads : t.do = "load"
  BY TaskKinds DEF Loads
<1>2. first \in Seq(Tasks) /\ Len(first) = 2 /\ rest \in Seq(Tasks)
  BY <1>1 DEF OnlyLoads
<1>3. Range(first) = {TableTask(kind), DescribeTask(kind, statuses)}
  BY DEF Range
<1>4. Range(todo) = Range(first) \cup Range(rest) /\ todo \in Seq(Tasks)
      /\ Pending(todo) = Pending(first) \cup Pending(rest)
  BY <1>2, PendingConcat
<1>5. Pending(first) = {}
  BY <1>1, <1>3 DEF Pending
<1>6. /\ Len(todo) = 2 + Len(rest) /\ DOMAIN todo = 1..Len(todo) /\ Len(rest) \in Nat
      /\ todo[1] = TableTask(kind) /\ todo[2] = DescribeTask(kind, statuses)
      /\ \A i \in DOMAIN todo : i > 2 => todo[i] = rest[i - 2] /\ i - 2 \in DOMAIN rest
  BY <1>2, ConcatProperties
<1>7. \A i \in DOMAIN todo : i > 2 => todo[i].do = "load"
  BY <1>1, <1>6 DEF OnlyLoads, Range
<1>8. Ordered(todo)
  BY <1>1, <1>6, <1>7 DEF Ordered
<1>9. todo # <<>> /\ Head(todo) = TableTask(kind)
  BY <1>4, <1>6
<1>10. \A t \in Range(todo) : t.do = "describe" => t = DescribeTask(kind, statuses)
  BY <1>1, <1>3, <1>4 DEF OnlyLoads
<1> QED
  BY <1>4, <1>5, <1>8, <1>9, <1>10 DEF Begun

\* What may follow tasks that are in order.
LEMMA BegunConcat ==
    ASSUME NEW kind \in TableKinds, NEW statuses, NEW a, NEW b,
           Begun(a, kind, statuses), OnlyLoads(b)
    PROVE  /\ Begun(a \o b, kind, statuses)
           /\ Range(a \o b) = Range(a) \cup Range(b)
           /\ Pending(a \o b) = Pending(a) \cup Pending(b)
<1>1. a \in Seq(Tasks) /\ b \in Seq(Tasks) /\ Len(a) \in Nat \ {0} /\ Len(b) \in Nat
  BY EmptySeq DEF Begun, OnlyLoads
<1>2. /\ a \o b \in Seq(Tasks) /\ Range(a \o b) = Range(a) \cup Range(b)
      /\ Pending(a \o b) = Pending(a) \cup Pending(b)
  BY <1>1, PendingConcat
<1>3. /\ DOMAIN (a \o b) = 1..(Len(a) + Len(b)) /\ DOMAIN a = 1..Len(a) /\ DOMAIN b = 1..Len(b)
      /\ \A i \in DOMAIN (a \o b) :
            IF i <= Len(a) THEN i \in DOMAIN a /\ (a \o b)[i] = a[i]
            ELSE i - Len(a) \in DOMAIN b /\ (a \o b)[i] = b[i - Len(a)]
  BY <1>1, ConcatProperties
<1>4. \A i \in DOMAIN (a \o b) : i > Len(a) => (a \o b)[i].do = "load"
  BY <1>1, <1>3 DEF OnlyLoads, Range, Loads
<1>5. Ordered(a \o b)
  <2>1. ASSUME NEW i \in DOMAIN (a \o b), (a \o b)[i].do = "table" PROVE i = 1
    BY <2>1, <1>1, <1>3, <1>4 DEF Begun, Ordered
  <2>2. ASSUME NEW i \in DOMAIN (a \o b), NEW j \in DOMAIN (a \o b), i < j,
               (a \o b)[j].do = "describe", (a \o b)[i].do = "load"
        PROVE  (a \o b)[i].kind \notin {"nsset", "keyset"}
    <3>1. j <= Len(a) /\ i <= Len(a)
      BY <2>2, <1>1, <1>3, <1>4
    <3>2. i \in DOMAIN a /\ j \in DOMAIN a /\ (a \o b)[i] = a[i] /\ (a \o b)[j] = a[j]
      BY <3>1, <1>3
    <3> QED
      BY <2>2, <3>2 DEF Begun, Ordered
  <2> QED
    BY <2>1, <2>2 DEF Ordered
<1>6. a \o b # <<>> /\ Head(a \o b) = TableTask(kind)
  <2>1. 1 \in DOMAIN (a \o b) /\ (a \o b)[1] = a[1] /\ a[1] = Head(a)
    BY <1>1, <1>3
  <2> QED
    BY <2>1, <1>2 DEF Begun
<1>7. \A t \in Range(a \o b) : t.do = "describe" => t = DescribeTask(kind, statuses)
  BY <1>2 DEF Begun, OnlyLoads, Loads
<1> QED
  BY <1>2, <1>5, <1>6, <1>7 DEF Begun

LEMMA BegunTexts ==
    ASSUME NEW kind \in TableKinds, NEW statuses \in SUBSET Statuses, NEW a,
           Begun(a, kind, statuses),
           \A t \in Range(a) : t.do = "load" => t.kind \notin {"nsset", "keyset"}
    PROVE  LET todo == a \o <<DescribeTask(kind, statuses)>>
           IN  Begun(todo, kind, statuses) /\ Pending(todo) = Pending(a)
<1> DEFINE d == DescribeTask(kind, statuses)
           todo == a \o <<d>>
<1>1. d \in Tasks /\ d.do = "describe" /\ d \notin Loads
  BY TaskKinds DEF Loads
<1> HIDE DEF d
<1>2. a \in Seq(Tasks) /\ <<d>> \in Seq(Tasks) /\ Len(a) \in Nat \ {0} /\ Range(<<d>>) = {d}
  BY <1>1, EmptySeq, RangeOfOne DEF Begun
<1>3. /\ todo \in Seq(Tasks) /\ Range(todo) = Range(a) \cup {d}
      /\ Pending(todo) = Pending(a) \cup Pending(<<d>>)
  BY <1>2, PendingConcat
<1>4. Pending(<<d>>) = {}
  BY <1>1, <1>2 DEF Pending
<1>5. /\ DOMAIN todo = 1..(Len(a) + 1) /\ DOMAIN a = 1..Len(a)
      /\ \A i \in DOMAIN a : todo[i] = a[i]
      /\ todo[Len(a) + 1] = d
  BY <1>2, ConcatProperties
<1> HIDE DEF todo
<1>6. \A i \in DOMAIN todo : i \in DOMAIN a \/ (i = Len(a) + 1 /\ todo[i] = d)
  BY <1>2, <1>5
<1>7. \A i \in DOMAIN todo : todo[i].do = "table" => i = 1
  BY <1>1, <1>5, <1>6 DEF Begun, Ordered
<1>8. ASSUME NEW i \in DOMAIN todo, NEW j \in DOMAIN todo, i < j,
             todo[j].do = "describe", todo[i].do = "load"
      PROVE  todo[i].kind \notin {"nsset", "keyset"}
  <2>1. i \in DOMAIN a
    BY <1>8, <1>2, <1>5
  <2>2. todo[i] = a[i] /\ a[i] \in Range(a)
    BY <2>1, <1>5 DEF Range
  <2> QED
    BY <2>2, <1>8
<1>9. todo # <<>> /\ Head(todo) = TableTask(kind)
  <2>1. todo[1] = a[1] /\ a[1] = Head(a)
    BY <1>2, <1>5
  <2> QED
    BY <2>1, <1>2, <1>3, <1>5 DEF Begun
<1>10. \A t \in Range(todo) : t.do = "describe" => t = d
  BY <1>3 DEF Begun, d
<1> QED
  BY <1>3, <1>4, <1>7, <1>8, <1>9, <1>10 DEF Begun, Ordered, d, todo

\* The handles a record refers to.
LEMMA HandleLists ==
    ASSUME NEW r \in Record
    PROVE  /\ r.contacts \in Seq(Handles) /\ r.registrars \in Seq(Handles)
           /\ r.statuses \in SUBSET Statuses
           /\ r \notin {NULL, OBJECT_DELETE_CANDIDATE}
           /\ StatusesOf(r) = r.statuses
  BY NullIsNoObject DEF Record, StatusesOf

\* append_nsset_related and append_keyset_related.
LEMMA SetTasksGood ==
    ASSUME NEW kind \in {"nsset", "keyset"}, NEW r, FitsKind(kind, r)
    PROVE  /\ Begun(SetTasks(kind, r), kind, StatusesOf(r))
           /\ Pending(SetTasks(kind, r)) = LinksOf(r)
<1>0. PICK T, C, R : /\ T = <<TableTask(kind)>>
                     /\ C = LoadTasks("contact", r.contacts)
                     /\ R = LoadTasks("registrar", r.registrars)
  OBVIOUS
<1>1. r \in Record /\ r.nsset = NULL /\ r.keyset = NULL /\ kind \in TableKinds
  BY DEF FitsKind, Kinds, TableKinds
<1>2. /\ r.contacts \in Seq(Handles) /\ r.registrars \in Seq(Handles)
      /\ r.statuses \in SUBSET Statuses /\ StatusesOf(r) = r.statuses
      /\ r \notin {NULL, OBJECT_DELETE_CANDIDATE}
  BY <1>1, HandleLists
<1>3. OnlyLoads(C) /\ OnlyLoads(R)
      /\ (\A t \in Range(C) : t.kind = "contact") /\ (\A t \in Range(R) : t.kind = "registrar")
      /\ Pending(C) = {<<"contact", r.contacts[i]>> : i \in DOMAIN r.contacts}
      /\ Pending(R) = {<<"registrar", r.registrars[i]>> : i \in DOMAIN r.registrars}
  BY <1>0, <1>2, LoadTasksGood DEF Kinds
<1>4. Begun(T, kind, r.statuses) /\ Pending(T) = {} /\ Range(T) = {TableTask(kind)}
  BY <1>0, <1>1, BegunAlone, RangeOfOne
<1>5. Begun(T \o C, kind, r.statuses) /\ Pending(T \o C) = Pending(C)
      /\ Range(T \o C) = Range(T) \cup Range(C)
  <2>1. kind \in TableKinds /\ Begun(T, kind, r.statuses) /\ OnlyLoads(C)
    BY <1>1, <1>3, <1>4
  <2>2. /\ Begun(T \o C, kind, r.statuses) /\ Range(T \o C) = Range(T) \cup Range(C)
        /\ Pending(T \o C) = Pending(T) \cup Pending(C)
    <3>1. Begun(T \o C, kind, r.statuses)
      BY <2>1, BegunConcat
    <3>2. Range(T \o C) = Range(T) \cup Range(C) /\ Pending(T \o C) = Pending(T) \cup Pending(C)
      <4>1. T \in Seq(Tasks) /\ C \in Seq(Tasks)
        BY <2>1 DEF Begun, OnlyLoads
      <4> QED
        BY <4>1, PendingConcat
    <3> QED
      BY <3>1, <3>2
  <2> QED
    BY <2>2, <1>4
<1>6. Begun(T \o C \o R, kind, r.statuses) /\ Pending(T \o C \o R) = Pending(C) \cup Pending(R)
      /\ Range(T \o C \o R) = Range(T) \cup Range(C) \cup Range(R)
  <2>1. kind \in TableKinds /\ Begun(T \o C, kind, r.statuses) /\ OnlyLoads(R)
    BY <1>1, <1>3, <1>5
  <2>2. /\ Begun(T \o C \o R, kind, r.statuses)
        /\ Range(T \o C \o R) = Range(T \o C) \cup Range(R)
        /\ Pending(T \o C \o R) = Pending(T \o C) \cup Pending(R)
    BY <2>1, BegunConcat
  <2> QED
    BY <2>2, <1>5
<1>7. \A t \in Range(T \o C \o R) : t.do = "load" => t.kind \notin {"nsset", "keyset"}
  BY <1>1, <1>3, <1>4, <1>6, TaskKinds
<1>8. Begun(T \o C \o R \o <<DescribeTask(kind, r.statuses)>>, kind, r.statuses)
      /\ Pending(T \o C \o R \o <<DescribeTask(kind, r.statuses)>>) = Pending(C) \cup Pending(R)
  BY <1>1, <1>2, <1>6, <1>7, BegunTexts
<1>9. SetTasks(kind, r) = T \o C \o R \o <<DescribeTask(kind, r.statuses)>>
  BY <1>0 DEF SetTasks
<1>10. LinksOf(r) = Pending(C) \cup Pending(R)
  BY <1>1, <1>2, <1>3 DEF LinksOf
<1> QED
  BY <1>2, <1>8, <1>9, <1>10

\* Lists of loads one after the other.
LEMMA LoadsConcat ==
    ASSUME NEW a, NEW b, OnlyLoads(a), OnlyLoads(b)
    PROVE  OnlyLoads(a \o b) /\ Pending(a \o b) = Pending(a) \cup Pending(b)
  BY PendingConcat DEF OnlyLoads

LEMMA FiveLoads ==
    ASSUME NEW a, NEW b, NEW c, NEW d, NEW e,
           OnlyLoads(a), OnlyLoads(b), OnlyLoads(c), OnlyLoads(d), OnlyLoads(e)
    PROVE  /\ OnlyLoads(a \o b \o c \o d \o e)
           /\ Pending(a \o b \o c \o d \o e) =
                 Pending(a) \cup Pending(b) \cup Pending(c) \cup Pending(d) \cup Pending(e)
<1>1. OnlyLoads(a \o b) /\ Pending(a \o b) = Pending(a) \cup Pending(b)
  BY LoadsConcat
<1>2. OnlyLoads(a \o b \o c) /\ Pending(a \o b \o c) = Pending(a \o b) \cup Pending(c)
  BY <1>1, LoadsConcat
<1>3. /\ OnlyLoads(a \o b \o c \o d)
      /\ Pending(a \o b \o c \o d) = Pending(a \o b \o c) \cup Pending(d)
  BY <1>2, LoadsConcat
<1>4. /\ OnlyLoads(a \o b \o c \o d \o e)
      /\ Pending(a \o b \o c \o d \o e) = Pending(a \o b \o c \o d) \cup Pending(e)
  BY <1>3, LoadsConcat
<1> QED
  BY <1>1, <1>2, <1>3, <1>4

\* The loads of a domain: the holder, the registrar, the other contacts, the
\* nsset and the keyset.
DomainLoads(r) ==
    <<LoadTask("contact", Head(r.contacts))>>
        \o LoadTasks("registrar", r.registrars)
        \o LoadTasks("contact", Tail(r.contacts))
        \o (IF r.nsset = NULL THEN <<>> ELSE <<LoadTask("nsset", r.nsset)>>)
        \o (IF r.keyset = NULL THEN <<>> ELSE <<LoadTask("keyset", r.keyset)>>)

LEMMA DomainLoadsGood ==
    ASSUME NEW r \in Record, r.contacts # <<>>
    PROVE  OnlyLoads(DomainLoads(r)) /\ Pending(DomainLoads(r)) = LinksOf(r)
<1>1. PICK a, b, c, d, e :
         /\ a = <<LoadTask("contact", Head(r.contacts))>>
         /\ b = LoadTasks("registrar", r.registrars)
         /\ c = LoadTasks("contact", Tail(r.contacts))
         /\ d = IF r.nsset = NULL THEN <<>> ELSE <<LoadTask("nsset", r.nsset)>>
         /\ e = IF r.keyset = NULL THEN <<>> ELSE <<LoadTask("keyset", r.keyset)>>
  OBVIOUS
<1>2. /\ r.contacts \in Seq(Handles) /\ r.registrars \in Seq(Handles)
      /\ r.nsset \in Handles \cup {NULL} /\ r.keyset \in Handles \cup {NULL}
      /\ r \notin {NULL, OBJECT_DELETE_CANDIDATE}
  BY NullIsNoObject DEF Record
<1>3. Head(r.contacts) \in Handles /\ Tail(r.contacts) \in Seq(Handles)
  BY <1>2
<1>4. {"contact", "registrar", "nsset", "keyset"} \subseteq Kinds \ {"domain"}
  BY DEF Kinds
<1>5. OnlyLoads(a) /\ Pending(a) = {<<"contact", Head(r.contacts)>>}
  BY <1>1, <1>3, <1>4, OneLoad
<1>6. OnlyLoads(b) /\ Pending(b) = {<<"registrar", r.registrars[i]>> : i \in DOMAIN r.registrars}
  BY <1>1, <1>2, <1>4, LoadTasksGood
<1>7. OnlyLoads(c) /\ Pending(c) =
         {<<"contact", Tail(r.contacts)[i]>> : i \in DOMAIN Tail(r.contacts)}
  BY <1>1, <1>3, <1>4, LoadTasksGood
<1>8. OnlyLoads(d) /\ Pending(d) = {<<"nsset", h>> : h \in {r.nsset} \ {NULL}}
  <2>1. CASE r.nsset = NULL
    BY <2>1, <1>1, NoLoads
  <2>2. CASE r.nsset # NULL
    <3>1. r.nsset \in Handles
      BY <2>2, <1>2
    <3>2. OnlyLoads(d) /\ Pending(d) = {<<"nsset", r.nsset>>}
      BY <2>2, <3>1, <1>1, <1>4, OneLoad
    <3> QED
      BY <2>2, <3>2
  <2> QED
    BY <2>1, <2>2
<1>9. OnlyLoads(e) /\ Pending(e) = {<<"keyset", h>> : h \in {r.keyset} \ {NULL}}
  <2>1. CASE r.keyset = NULL
    BY <2>1, <1>1, NoLoads
  <2>2. CASE r.keyset # NULL
    <3>1. r.keyset \in Handles
      BY <2>2, <1>2
    <3>2. OnlyLoads(e) /\ Pending(e) = {<<"keyset", r.keyset>>}
      BY <2>2, <3>1, <1>1, <1>4, OneLoad
    <3> QED
      BY <2>2, <3>2
  <2> QED
    BY <2>1, <2>2
<1>10. DomainLoads(r) = a \o b \o c \o d \o e
  BY <1>1 DEF DomainLoads
<1>11. /\ OnlyLoads(DomainLoads(r))
       /\ Pending(DomainLoads(r)) =
             Pending(a) \cup Pending(b) \cup Pending(c) \cup Pending(d) \cup Pending(e)
  BY <1>5, <1>6, <1>7, <1>8, <1>9, <1>10, FiveLoads
<1>12. Pending(a) \cup Pending(c) = {<<"contact", r.contacts[i]>> : i \in DOMAIN r.contacts}
  <2>1. \A i \in DOMAIN Tail(r.contacts) :
           i + 1 \in DOMAIN r.contacts /\ Tail(r.contacts)[i] = r.contacts[i + 1]
    BY <1>2
  <2>2. 1 \in DOMAIN r.contacts /\ Head(r.contacts) = r.contacts[1]
    BY <1>2
  <2>3. \A i \in DOMAIN r.contacts :
           i = 1 \/ (i - 1 \in DOMAIN Tail(r.contacts)
                     /\ Tail(r.contacts)[i - 1] = r.contacts[i])
    BY <1>2
  <2>4. Pending(a) \cup Pending(c) \subseteq {<<"contact", r.contacts[i]>> : i \in DOMAIN r.contacts}
    BY <2>1, <2>2, <1>5, <1>7
  <2>5. {<<"contact", r.contacts[i]>> : i \in DOMAIN r.contacts} \subseteq Pending(a) \cup Pending(c)
    BY <2>2, <2>3, <1>5, <1>7
  <2> QED
    BY <2>4, <2>5
<1>13. LinksOf(r) = Pending(a) \cup Pending(c) \cup Pending(b) \cup Pending(d) \cup Pending(e)
  BY <1>2, <1>6, <1>8, <1>9, <1>12 DEF LinksOf
<1> QED
  BY <1>11, <1>13

\* What load_related_objects has to load for an object.
Own(kind, r) ==
    IF kind = "domain" /\ "deleteCandidate" \in StatusesOf(r) THEN {} ELSE LinksOf(r)

LEMMA RelatedTasksGood ==
    ASSUME NEW kind \in TableKinds, NEW r, FitsKind(kind, r)
    PROVE  /\ Begun(RelatedTasks(kind, r), kind, StatusesOf(r))
           /\ Pending(RelatedTasks(kind, r)) = Own(kind, r)
<1>1. CASE kind \in {"nsset", "keyset"}
  BY <1>1, SetTasksGood DEF RelatedTasks, Own
<1>2. CASE kind = "contact"
  <2>1. /\ r \in Record /\ r.contacts = <<>> /\ r.nsset = NULL /\ r.keyset = NULL
        /\ r.registrars \in Seq(Handles) /\ r.statuses \in SUBSET Statuses
        /\ r \notin {NULL, OBJECT_DELETE_CANDIDATE} /\ StatusesOf(r) = r.statuses
    BY <1>2, HandleLists DEF FitsKind
  <2>2. PICK R : R = LoadTasks("registrar", r.registrars)
    OBVIOUS
  <2>3. OnlyLoads(R)
        /\ Pending(R) = {<<"registrar", r.registrars[i]>> : i \in DOMAIN r.registrars}
    BY <2>1, <2>2, LoadTasksGood DEF Kinds
  <2>4. LinksOf(r) = Pending(R)
    BY <2>1, <2>3 DEF LinksOf
  <2>5. RelatedTasks(kind, r) = <<TableTask(kind), DescribeTask(kind, r.statuses)>> \o R
    BY <1>2, <2>2 DEF RelatedTasks
  <2>6. /\ Begun(RelatedTasks(kind, r), kind, r.statuses)
        /\ Pending(RelatedTasks(kind, r)) = Pending(R)
    BY <2>1, <2>3, <2>5, BegunWithTexts
  <2> QED
    BY <1>2, <2>1, <2>4, <2>6 DEF Own
<1>3. CASE kind = "domain"
  <2>1. RelatedTasks(kind, r) = DomainTasks(r)
    BY <1>3 DEF RelatedTasks
  <2>2. CASE r = OBJECT_DELETE_CANDIDATE
    <3>1. DomainTasks(r) = <<TableTask(kind)>> /\ LinksOf(r) = {}
      BY <1>3, <2>2 DEF DomainTasks, LinksOf
    <3> QED
      BY <2>1, <3>1, BegunAlone DEF Own
  <2>3. CASE r # OBJECT_DELETE_CANDIDATE
    <3>1. /\ r \in Record /\ r.contacts # <<>> /\ r.statuses \in SUBSET Statuses
          /\ StatusesOf(r) = r.statuses
      BY <1>3, <2>3, HandleLists DEF FitsKind
    <3>2. CASE "deleteCandidate" \in r.statuses
      <4>0. PICK none : none = <<>>
        OBVIOUS
      <4>1. DomainTasks(r) = <<TableTask(kind), DescribeTask(kind, r.statuses)>> \o none
        BY <1>3, <2>3, <3>2, <4>0 DEF DomainTasks
      <4>2. OnlyLoads(none) /\ Pending(none) = {}
        BY <4>0, NoLoads
      <4>3. Begun(DomainTasks(r), kind, r.statuses) /\ Pending(DomainTasks(r)) = {}
        BY <3>1, <4>1, <4>2, BegunWithTexts
      <4> QED
        BY <1>3, <2>1, <3>1, <3>2, <4>3 DEF Own
    <3>3. CASE "deleteCandidate" \notin r.statuses
      <4>1. DomainTasks(r) = <<TableTask(kind), DescribeTask(kind, r.statuses)>> \o DomainLoads(r)
        BY <1>3, <2>3, <3>3 DEF DomainTasks, DomainLoads
      <4>2. OnlyLoads(DomainLoads(r)) /\ Pending(DomainLoads(r)) = LinksOf(r)
        BY <3>1, DomainLoadsGood
      <4>3. Begun(DomainTasks(r), kind, r.statuses) /\ Pending(DomainTasks(r)) = LinksOf(r)
        BY <3>1, <4>1, <4>2, BegunWithTexts
      <4> QED
        BY <1>3, <2>1, <3>1, <3>3, <4>3 DEF Own
    <3> QED
      BY <3>2, <3>3
  <2> QED
    BY <2>2, <2>3
<1> QED
  BY <1>1, <1>2, <1>3 DEF TableKinds, Kinds

LEMMA RegistrarsAlone ==
    ASSUME NEW r, FitsKind("registrar", r)
    PROVE  RelatedTasks("registrar", r) = <<>> /\ LinksOf(r) = {}
<1>1. r \in Record /\ r.contacts = <<>> /\ r.registrars = <<>> /\ r.nsset = NULL /\ r.keyset = NULL
  BY DEF FitsKind
<1>2. RelatedTasks("registrar", r) = <<>>
  BY DEF RelatedTasks
<1>3. LinksOf(r) = {}
  BY <1>1 DEF LinksOf
<1> QED
  BY <1>2, <1>3

\* The first task and the others.
LEMMA TodoTail ==
    ASSUME NEW todo \in Seq(Tasks), todo # <<>>
    PROVE  /\ Head(todo) \in Tasks /\ Tail(todo) \in Seq(Tasks)
           /\ Range(todo) = {Head(todo)} \cup Range(Tail(todo))
           /\ Pending(todo) = Pending(Tail(todo)) \cup
                 {<<t.kind, t.handle>> : t \in {Head(todo)} \cap Loads}
<1>1. /\ Head(todo) \in Tasks /\ Tail(todo) \in Seq(Tasks)
      /\ DOMAIN todo = 1..Len(todo) /\ DOMAIN Tail(todo) = 1..(Len(todo) - 1)
      /\ Len(todo) \in Nat \ {0} /\ Head(todo) = todo[1]
      /\ \A i \in DOMAIN Tail(todo) : Tail(todo)[i] = todo[i + 1]
  BY EmptySeq
<1>2. Range(todo) = {Head(todo)} \cup Range(Tail(todo))
  <2>1. ASSUME NEW i \in DOMAIN todo PROVE todo[i] \in {Head(todo)} \cup Range(Tail(todo))
    <3>1. CASE i = 1
      BY <3>1, <1>1
    <3>2. CASE i # 1
      <4>1. i - 1 \in DOMAIN Tail(todo) /\ Tail(todo)[i - 1] = todo[i]
        BY <3>2, <1>1
      <4> QED
        BY <4>1 DEF Range
    <3> QED
      BY <3>1, <3>2
  <2>2. \A i \in DOMAIN Tail(todo) : i + 1 \in DOMAIN todo /\ Tail(todo)[i] = todo[i + 1]
    BY <1>1
  <2>3. Head(todo) \in Range(todo)
    BY <1>1 DEF Range
  <2> QED
    BY <2>1, <2>2, <2>3 DEF Range
<1> QED
  BY <1>1, <1>2 DEF Pending

LEMMA OrderedTail ==
    ASSUME NEW todo \in Seq(Tasks), todo # <<>>, Ordered(todo)
    PROVE  /\ Ordered(Tail(todo))
           /\ \A t \in Range(Tail(todo)) : t.do # "table"
           /\ Head(todo).do = "load" /\ Head(todo).kind \in {"nsset", "keyset"} =>
                 OnlyLoads(Tail(todo))
<1>1. /\ Tail(todo) \in Seq(Tasks)
      /\ DOMAIN todo = 1..Len(todo) /\ DOMAIN Tail(todo) = 1..(Len(todo) - 1)
      /\ Len(todo) \in Nat \ {0} /\ Head(todo) = todo[1]
      /\ \A i \in DOMAIN Tail(todo) : Tail(todo)[i] = todo[i + 1]
  BY EmptySeq
<1>2. \A i \in DOMAIN Tail(todo) : i + 1 \in DOMAIN todo /\ i + 1 # 1 /\ 1 < i + 1
  BY <1>1
<1>3. \A i \in DOMAIN Tail(todo) : Tail(todo)[i].do # "table"
  BY <1>1, <1>2 DEF Ordered
<1>4. \A i, j \in DOMAIN Tail(todo) : i < j => i + 1 < j + 1
  BY <1>1
<1>5. Ordered(Tail(todo))
  BY <1>1, <1>2, <1>3, <1>4 DEF Ordered
<1>6. ASSUME Head(todo).do = "load", Head(todo).kind \in {"nsset", "keyset"}
      PROVE  OnlyLoads(Tail(todo))
  <2>1. 1 \in DOMAIN todo
    BY <1>1
  <2>2. \A i \in DOMAIN Tail(todo) : Tail(todo)[i].do # "describe"
    BY <2>1, <1>1, <1>2, <1>6 DEF Ordered
  <2>3. \A t \in Range(Tail(todo)) : t \in Tasks /\ t.do # "table" /\ t.do # "describe"
    BY <2>2, <1>1, <1>3 DEF Range
  <2>4. Range(Tail(todo)) \subseteq Loads
    BY <2>3 DEF Tasks
  <2> QED
    BY <2>4, <1>1 DEF OnlyLoads
<1> QED
  BY <1>3, <1>5, <1>6 DEF Range

-----------------------------------------------------------------------------
(* What is found, and the page for it. *)

LEMMA Counting ==
    ASSUME NEW f
    PROVE  /\ IsFiniteSet(FoundKinds(f)) /\ Cardinality(FoundKinds(f)) \in Nat
           /\ Cardinality(FoundKinds(f)) = 0 <=> FoundKinds(f) = {}
           /\ FoundKinds(f) \subseteq Kinds
<1>1. IsFiniteSet(Kinds)
  <2>1. \A S, x : IsFiniteSet(S) => IsFiniteSet(S \cup {x})
    BY FS_AddElement
  <2>2. IsFiniteSet({})
    BY FS_EmptySet
  <2>3. IsFiniteSet({} \cup {"contact"})
    BY <2>1, <2>2
  <2>4. IsFiniteSet({} \cup {"contact"} \cup {"nsset"})
    BY <2>1, <2>3
  <2>5. IsFiniteSet({} \cup {"contact"} \cup {"nsset"} \cup {"keyset"})
    BY <2>1, <2>4
  <2>6. IsFiniteSet({} \cup {"contact"} \cup {"nsset"} \cup {"keyset"} \cup {"registrar"})
    BY <2>1, <2>5
  <2>7. IsFiniteSet({} \cup {"contact"} \cup {"nsset"} \cup {"keyset"} \cup {"registrar"}
                       \cup {"domain"})
    BY <2>1, <2>6
  <2>8. {} \cup {"contact"} \cup {"nsset"} \cup {"keyset"} \cup {"registrar"} \cup {"domain"} = Kinds
    BY DEF Kinds
  <2> QED
    BY <2>7, <2>8
<1>2. FoundKinds(f) \subseteq Kinds
  BY DEF FoundKinds
<1>3. IsFiniteSet(FoundKinds(f))
  BY <1>1, <1>2, FS_Subset
<1> QED
  BY <1>2, <1>3, FS_CardinalityType, FS_EmptySet

LEMMA OneIsOne == \A x : Cardinality({x}) = 1
  BY FS_Singleton

\* The page, by what was found.
LEMMA PageOf ==
    ASSUME NEW s
    PROVE  LET found == FoundKinds(s.found)
           IN  /\ s.view = "multiple" =>
                     /\ found = {} /\ s.server_exception # NULL => Page(s) = "exception_page"
                     /\ Cardinality(found) = 1 => Page(s) = "redirect"
                     /\ Cardinality(found) > 1 => Page(s) = "multiple_entries"
               /\ s.view # "multiple" =>
                     Page(s) = IF s.server_exception = NULL THEN "page" ELSE "exception_page"
<1>1. Cardinality(FoundKinds(s.found)) \in Nat
      /\ (Cardinality(FoundKinds(s.found)) = 0 <=> FoundKinds(s.found) = {})
  BY Counting
<1> QED
  BY <1>1 DEF Page

\* The page depends on nothing else.
LEMMA PageFollows ==
    ASSUME NEW s, NEW u, u.view = s.view, u.found = s.found,
           u.server_exception = s.server_exception
    PROVE  Page(u) = Page(s)
  BY DEF Page

LEMMA PageType ==
    ASSUME NEW s, Answerable(s) PROVE Page(s) \in Replies \ {"server_error"}
<1>1. Cardinality(FoundKinds(s.found)) \in Nat
      /\ (Cardinality(FoundKinds(s.found)) = 0 <=> FoundKinds(s.found) = {})
  BY Counting
<1>2. \/ FoundKinds(s.found) = {}
      \/ Cardinality(FoundKinds(s.found)) = 1 \/ Cardinality(FoundKinds(s.found)) > 1
  BY <1>1
<1> QED
  BY <1>2, PageOf DEF Answerable, Replies

LEMMA NullIsApart ==
    /\ NULL \notin Replies /\ NULL \notin Errors /\ NULL \notin Codes /\ NULL \notin Nat
    /\ NULL \notin Kinds
  BY NullIsNoObject

LEMMA ExceptionCodeType ==
    ASSUME NEW kind \in Kinds, NEW handle \in Handles PROVE ExceptionCode(kind, handle) \in Codes
<1>1. HandleForms[handle].domain \in DomainForms
  BY LookupAssumption
<1> QED
  BY <1>1 DEF ExceptionCode, Codes

LEMMA AskedType ==
    ASSUME NEW view \in Views
    PROVE  /\ Asked(view) \in Seq(Kinds) /\ Asked(view) # <<>>
           /\ view # "multiple" => Asked(view) = <<view>> /\ view \in Kinds
<1>1. view \in Kinds \cup {"multiple"}
  BY LookupAssumption
<1>2. CASE view = "multiple"
  BY <1>2 DEF Asked, Kinds
<1>3. CASE view # "multiple"
  BY <1>1, <1>3 DEF Asked
<1> QED
  BY <1>2, <1>3

-----------------------------------------------------------------------------
(* Good is an invariant. *)

LEMMA GoodInit == Init => Good
<1> SUFFICES ASSUME Init PROVE Good
  OBVIOUS
<1>1. HistoryGood
  BY HistoryInit
<1>2. Idle \in LookupStates
  <2>1. <<>> \in Seq(Kinds)
    OBVIOUS
  <2> QED
    BY <2>1 DEF Idle, LookupStates, Pcs, Shown
<1>3. \A l \in Lookups : lookup[l] = Idle
  BY DEF Init
<1>4. /\ Idle.pc = "idle" /\ Idle.reply = NULL /\ Idle.log_request = NULL
  BY DEF Idle
<1>5. Ready(Idle) /\ \A log : Logged(Idle, log)
  BY <1>4 DEF Ready, Logged, Settled, Working
<1>6. LogsDiffer
  BY <1>3, <1>4 DEF LogsDiffer
<1> QED
  BY <1>1, <1>2, <1>3, <1>4, <1>5, <1>6 DEF Init, Good

\* A step of a handler keeps the invariant if it is right about its own state
\* and its own log request.
LEMMA HandlerFrame ==
    ASSUME Good, NEW l \in Lookups, NEW s \in LookupStates,
           lookup' = [lookup EXCEPT ![l] = s], UNCHANGED history,
           tables' \in [Languages \X TableKinds -> Tables \cup {NULL}],
           audit' \in Seq(LogRequests), DOMAIN audit \subseteq DOMAIN audit',
           \A i \in DOMAIN audit : i # lookup[l].log_request => audit'[i] = audit[i],
           s.log_request \in {lookup[l].log_request} \cup (DOMAIN audit' \ DOMAIN audit),
           Ready(s), Logged(s, audit'[s.log_request]), s.began \in 1..Len(history)
    PROVE  Good'
<1>1. HistoryGood'
  BY HistoryKept DEF Good
<1>2. lookup' \in [Lookups -> LookupStates] /\ lookup'[l] = s
      /\ \A w \in Lookups : w # l => lookup'[w] = lookup[w]
  BY DEF Good
<1>3. \A w \in Lookups : lookup[w].log_request # NULL => lookup[w].log_request \in DOMAIN audit
  BY DEF Good
<1>4. \A v, w \in Lookups :
         v # w /\ lookup[v].log_request # NULL => lookup[v].log_request # lookup[w].log_request
  BY DEF Good, LogsDiffer
<1>5. ASSUME NEW w \in Lookups, w # l
      PROVE  /\ Ready(lookup'[w]) /\ Logged(lookup'[w], audit'[lookup'[w].log_request])
             /\ lookup'[w].pc # "idle" => lookup'[w].began \in 1..Len(history')
             /\ lookup'[w].log_request # NULL => lookup'[w].log_request \in DOMAIN audit'
  <2>1. lookup'[w] = lookup[w]
    BY <1>2, <1>5
  <2>2. /\ Ready(lookup[w]) /\ Logged(lookup[w], audit[lookup[w].log_request])
        /\ lookup[w].pc # "idle" => lookup[w].began \in 1..Len(history)
    BY DEF Good
  <2>3. CASE lookup[w].log_request # NULL
    <3>1. audit'[lookup[w].log_request] = audit[lookup[w].log_request]
      BY <2>3, <1>3, <1>4, <1>5
    <3> QED
      BY <2>1, <2>2, <3>1, <1>3
  <2>4. CASE lookup[w].log_request = NULL
    <3>1. Logged(lookup[w], audit'[lookup[w].log_request])
      BY <2>2, <2>4 DEF Logged
    <3> QED
      BY <2>1, <2>2, <2>4, <3>1
  <2> QED
    BY <2>3, <2>4
<1>6. ASSUME NEW v \in Lookups, NEW w \in Lookups, v # w, lookup'[v].log_request # NULL
      PROVE  lookup'[v].log_request # lookup'[w].log_request
  BY <1>2, <1>3, <1>4, <1>6
<1>7. LogsDiffer'
  BY <1>6 DEF LogsDiffer
<1>8. ASSUME NEW w \in Lookups
      PROVE  /\ Ready(lookup'[w]) /\ Logged(lookup'[w], audit'[lookup'[w].log_request])
             /\ lookup'[w].pc # "idle" => lookup'[w].began \in 1..Len(history')
             /\ lookup'[w].log_request # NULL => lookup'[w].log_request \in DOMAIN audit'
  <2>1. CASE w = l
    <3>1. s.log_request # NULL => s.log_request \in DOMAIN audit'
      BY <1>3
    <3> QED
      BY <2>1, <3>1, <1>2
  <2> QED
    BY <2>1, <1>5
<1> QED
  BY <1>1, <1>2, <1>7, <1>8 DEF Good

\* The most frequent steps leave the log and the tables alone.
LEMMA QuietFrame ==
    ASSUME Good, NEW l \in Lookups, NEW s \in LookupStates,
           lookup' = [lookup EXCEPT ![l] = s], UNCHANGED <<history, tables, audit>>,
           s.log_request = lookup[l].log_request, s.began = lookup[l].began,
           lookup[l].pc # "idle", Ready(s), Logged(s, audit[s.log_request])
    PROVE  Good'
<1>1. s.began \in 1..Len(history)
  BY DEF Good
<1> QED
  BY <1>1, HandlerFrame DEF Good

\* The fields of a handler.
LEMMA StateOf ==
    ASSUME Good, NEW l \in Lookups
    PROVE  /\ lookup[l] \in LookupStates /\ Ready(lookup[l])
           /\ Logged(lookup[l], audit[lookup[l].log_request])
           /\ lookup[l].pc # "idle" => lookup[l].began \in 1..Len(history)
           /\ lookup[l].log_request # NULL => lookup[l].log_request \in DOMAIN audit
  BY DEF Good

LEMMA BeginGood ==
    ASSUME Good, NEW l \in Lookups, NEW view \in Views, NEW handle \in Handles,
           NEW lang \in Languages, Begin(l, view, handle, lang)
    PROVE  Good'
<1>1. PICK s : s = [Idle EXCEPT !.pc = IF LoggerEnabled THEN "log" ELSE "load",
                                !.view = view, !.handle = handle, !.lang = lang,
                                !.began = Len(history), !.todo = Asked(view)]
  OBVIOUS
<1>2. /\ lookup' = [lookup EXCEPT ![l] = s] /\ UNCHANGED <<history, tables, audit>>
      /\ lookup[l].pc = "idle"
  BY <1>1 DEF Begin
<1>3. /\ s.pc = IF LoggerEnabled THEN "log" ELSE "load"
      /\ s.view = view /\ s.handle = handle /\ s.lang = lang
      /\ s.began = Len(history) /\ s.todo = Asked(view)
      /\ s.log_request = NULL /\ s.found = [k \in Kinds |-> NULL]
      /\ s.server_exception = NULL /\ s.error = NULL /\ s.reply = NULL
  BY <1>1 DEF Idle
<1>4. FoundKinds(s.found) = {}
  BY <1>3 DEF FoundKinds
<1>5. s \in LookupStates
  <2>1. Asked(view) \in Seq(Kinds) /\ Len(history) \in Nat
    BY AskedType, NowIsAMoment DEF Good
  <2>2. "log" \in Pcs /\ "load" \in Pcs
    BY DEF Pcs
  <2> QED
    BY <1>1, <2>1, <2>2 DEF Idle, LookupStates, Shown
<1>6. Len(history) \in 1..Len(history)
  BY NowIsAMoment DEF Good
<1>7. Ready(s)
  <2>1. \A k \in Kinds : s.found[k] = NULL
    BY <1>3
  <2> QED
    BY <1>3, <1>4, <2>1, AskedType, LookupAssumption DEF Ready, Settled, Working
<1>8. \A log : Logged(s, log)
  BY <1>3, LookupAssumption DEF Logged, Settled, Working
<1>9. lookup[l].log_request = NULL
  BY <1>2, StateOf DEF Logged
<1> QED
  BY <1>2, <1>3, <1>5, <1>6, <1>7, <1>8, <1>9, HandlerFrame DEF Good

LEMMA PrepareGood ==
    ASSUME Good, NEW l \in Lookups, PrepareLoggingRequest(l) PROVE Good'
<1>1. PICK n : n = Len(audit')
  OBVIOUS
<1>2. PICK x, s : x = lookup[l] /\ s = [x EXCEPT !.pc = "load", !.log_request = n]
  OBVIOUS
<1>3. /\ lookup' = [lookup EXCEPT ![l] = s] /\ UNCHANGED <<history, tables>>
      /\ x.pc = "log" /\ audit' = Append(audit, OpenLogRequest(l))
  BY <1>1, <1>2 DEF PrepareLoggingRequest, Good
<1>4. /\ x \in LookupStates /\ Ready(x) /\ Logged(x, audit[x.log_request])
      /\ x.began \in 1..Len(history)
  BY <1>2, <1>3, StateOf
<1>5. x.view \in Views /\ x.handle \in Handles
  BY <1>3, <1>4 DEF Ready
<1>6. OpenLogRequest(l) \in LogRequests
  BY <1>2, <1>5 DEF OpenLogRequest, LogRequests
<1>7. /\ audit \in Seq(LogRequests) /\ audit' \in Seq(LogRequests)
      /\ n = Len(audit) + 1 /\ n \in Nat /\ n \in DOMAIN audit' \ DOMAIN audit
      /\ audit'[n] = OpenLogRequest(l)
      /\ \A i \in DOMAIN audit : i \in DOMAIN audit' /\ audit'[i] = audit[i]
  BY <1>1, <1>3, <1>6 DEF Good
<1>8. s \in LookupStates
  <2>1. "load" \in Pcs /\ n \in Nat
    BY <1>7 DEF Pcs
  <2>2. x \in LookupStates /\ s = [x EXCEPT !.pc = "load", !.log_request = n]
    BY <1>2, <1>4
  <2> QED
    BY <2>1, <2>2 DEF LookupStates
<1>9. /\ s.pc = "load" /\ s.log_request = n /\ s.view = x.view
      /\ s.handle = x.handle /\ s.lang = x.lang /\ s.began = x.began
      /\ s.todo = x.todo /\ s.found = x.found /\ s.server_exception = x.server_exception
      /\ s.error = x.error /\ s.reply = x.reply
  BY <1>2, <1>4 DEF LookupStates
<1>10. Ready(s)
  BY <1>3, <1>4, <1>9 DEF Ready, Settled, Working
<1>11. LoggerEnabled
  BY <1>3, <1>4 DEF Ready
<1>12. Logged(s, audit'[n])
  BY <1>2, <1>5, <1>7, <1>9, <1>11, NullIsApart DEF Logged, Settled, Working, OpenLogRequest
<1> QED
  BY <1>3, <1>4, <1>7, <1>8, <1>9, <1>10, <1>12, HandlerFrame DEF Good

\* An exception leaves the handler.
LEMMA FailedReady ==
    ASSUME NEW s \in LookupStates, Ready(s), s.pc # "idle", NEW error \in Errors
    PROVE  LET u == Failed(s, error)
           IN  /\ u \in LookupStates /\ Ready(u)
               /\ u.log_request = s.log_request /\ u.began = s.began
               /\ \A log :
                     (s.log_request # NULL =>
                         LoggerEnabled /\ log.handle = s.handle /\ log.handleType = s.view)
                     => Logged(u, log)
<1>1. PICK u : u = Failed(s, error)
  OBVIOUS
<1>2. /\ u.pc = "done" /\ u.reply = "server_error" /\ u.error = error
      /\ u.view = s.view /\ u.handle = s.handle /\ u.lang = s.lang /\ u.found = s.found
      /\ u.log_request = s.log_request /\ u.began = s.began
  BY <1>1 DEF Failed, LookupStates
<1>3. u \in LookupStates
  <2>1. "done" \in Pcs /\ "server_error" \in Replies
    BY DEF Pcs, Replies
  <2> QED
    BY <1>1, <2>1 DEF Failed, LookupStates
<1>4. error # NULL /\ "server_error" # NULL
  BY NullIsApart DEF Replies
<1>5. Ready(u)
  BY <1>2, <1>4 DEF Ready, Settled, Working
<1>6. ASSUME NEW log,
             s.log_request # NULL =>
                 LoggerEnabled /\ log.handle = s.handle /\ log.handleType = s.view
      PROVE  Logged(u, log)
  BY <1>2, <1>4, <1>6 DEF Logged, Settled
<1> QED
  BY <1>1, <1>2, <1>3, <1>5, <1>6

LEMMA FailedGood ==
    ASSUME Good, NEW l \in Lookups, NEW error \in Errors, lookup[l].pc # "idle",
           lookup' = [lookup EXCEPT ![l] = Failed(lookup[l], error)],
           UNCHANGED <<history, tables, audit>>
    PROVE  Good'
<1>1. PICK x, u : x = lookup[l] /\ u = Failed(x, error)
  OBVIOUS
<1>2. x \in LookupStates /\ Ready(x) /\ Logged(x, audit[x.log_request])
  BY <1>1, StateOf
<1>3. PICK log : log = audit[x.log_request]
  OBVIOUS
<1>4. x.log_request # NULL =>
         LoggerEnabled /\ log.handle = x.handle /\ log.handleType = x.view
  BY <1>2, <1>3 DEF Logged
<1>5. /\ u \in LookupStates /\ Ready(u) /\ u.log_request = x.log_request /\ u.began = x.began
      /\ Logged(u, log)
  BY <1>1, <1>2, <1>4, FailedReady
<1> QED
  BY <1>1, <1>3, <1>5, QuietFrame

\* The handler goes on, or answers.
LEMMA ContinuedReady ==
    ASSUME NEW s \in LookupStates, Ready(s), Settled(s), s.pc # "done",
           NEW todo \in Seq(Tasks), todo = <<>> \/ s.view \in FoundKinds(s.found)
    PROVE  LET u == Continued(s, todo)
           IN  /\ u \in LookupStates /\ Ready(u)
               /\ u.log_request = s.log_request /\ u.began = s.began
               /\ \A log :
                     /\ s.log_request # NULL =>
                           /\ LoggerEnabled
                           /\ log.handle = s.handle /\ log.handleType = s.view
                           /\ log.closed /\ log.foundType = FoundKinds(s.found)
                           /\ log.result = IF FoundKinds(s.found) # {} THEN "Ok" ELSE "NotFound"
                     /\ LoggerEnabled => s.log_request # NULL
                     => Logged(u, log)
<1>1. PICK u, page : page = Page(s) /\ u = Continued(s, todo)
  OBVIOUS
<1>2. /\ u.todo = todo
      /\ u.pc = IF todo = <<>> THEN "done" ELSE "related"
      /\ u.reply = IF todo = <<>> THEN page ELSE NULL
      /\ u.view = s.view /\ u.handle = s.handle /\ u.lang = s.lang /\ u.found = s.found
      /\ u.log_request = s.log_request /\ u.began = s.began /\ u.error = s.error
      /\ u.server_exception = s.server_exception
  BY <1>1 DEF Continued, LookupStates
<1>3. s.pc # "idle" /\ s.error = NULL /\ Answerable(s)
  BY DEF Ready, Settled, Working
<1>4. page \in Replies /\ page # NULL /\ Page(u) = page /\ Answerable(u)
  <2>1. page \in Replies
    BY <1>1, <1>3, PageType
  <2>2. Page(u) = page
    BY <1>1, <1>2, PageFollows
  <2>3. Answerable(u)
    BY <1>2, <1>3 DEF Answerable
  <2> QED
    BY <2>1, <2>2, <2>3, NullIsApart
<1>5. u \in LookupStates
  <2>1. (IF todo = <<>> THEN "done" ELSE "related") \in Pcs
    BY DEF Pcs, Working
  <2>2. (IF todo = <<>> THEN page ELSE NULL) \in Replies \cup {NULL}
    BY <1>4
  <2>3. PICK p, y : /\ p = (IF todo = <<>> THEN "done" ELSE "related")
                    /\ y = (IF todo = <<>> THEN page ELSE NULL)
    OBVIOUS
  <2>4. u = [s EXCEPT !.todo = todo, !.pc = p, !.reply = y]
    BY <1>1, <2>3 DEF Continued
  <2>5. p \in Pcs /\ y \in Replies \cup {NULL}
    BY <2>1, <2>2, <2>3
  <2> QED
    BY <2>4, <2>5 DEF LookupStates
<1>6. /\ s.view \in Views /\ s.handle \in Handles /\ s.lang \in Languages
      /\ \A k \in Kinds : s.found[k] \in Records[<<k, s.handle>>] \cup {NULL}
  BY <1>3 DEF Ready
<1>7. Ready(u)
  BY <1>2, <1>3, <1>4, <1>6 DEF Ready, Working
<1>8. ASSUME NEW log,
             s.log_request # NULL =>
                 /\ LoggerEnabled
                 /\ log.handle = s.handle /\ log.handleType = s.view
                 /\ log.closed /\ log.foundType = FoundKinds(s.found)
                 /\ log.result = IF FoundKinds(s.found) # {} THEN "Ok" ELSE "NotFound",
             LoggerEnabled => s.log_request # NULL
      PROVE  Logged(u, log)
  BY <1>2, <1>8 DEF Logged
<1> QED
  BY <1>1, <1>2, <1>5, <1>7, <1>8

\* The record kept in the log of a handler that has answered its browser or
\* is still about to.
LEMMA LogKept ==
    ASSUME NEW s, NEW log, Logged(s, log), s.pc \in Working, s.error = NULL
    PROVE  /\ s.log_request # NULL =>
                 /\ LoggerEnabled
                 /\ log.handle = s.handle /\ log.handleType = s.view
                 /\ log.closed /\ log.foundType = FoundKinds(s.found)
                 /\ log.result = IF FoundKinds(s.found) # {} THEN "Ok" ELSE "NotFound"
           /\ LoggerEnabled => s.log_request # NULL
  BY DEF Logged, Settled, Working

LEMMA ContinuedGood ==
    ASSUME NEW s \in LookupStates, Ready(s), NEW log, Logged(s, log), s.pc \in Working,
           NEW todo \in Seq(Tasks)
    PROVE  LET u == Continued(s, todo)
           IN  /\ u \in LookupStates /\ Ready(u) /\ Logged(u, log)
               /\ u.log_request = s.log_request /\ u.began = s.began
<1>1. s.error = NULL /\ s.view \in FoundKinds(s.found) /\ Settled(s) /\ s.pc # "done"
  BY DEF Ready, Settled, Working
<1>2. /\ s.log_request # NULL =>
            /\ LoggerEnabled
            /\ log.handle = s.handle /\ log.handleType = s.view
            /\ log.closed /\ log.foundType = FoundKinds(s.found)
            /\ log.result = IF FoundKinds(s.found) # {} THEN "Ok" ELSE "NotFound"
      /\ LoggerEnabled => s.log_request # NULL
  BY <1>1, LogKept
<1> QED
  BY <1>1, <1>2, ContinuedReady

\* The logger was called in vain: with a request it keeps, or without one.
LEMMA PrepareFailsGood ==
    ASSUME Good, NEW l \in Lookups, PrepareLoggingRequestFails(l) PROVE Good'
<1>1. PICK x, u : x = lookup[l] /\ u = Failed(x, "LoggerError")
  OBVIOUS
<1>2. /\ lookup' = [lookup EXCEPT ![l] = u] /\ UNCHANGED <<history, tables>>
      /\ x.pc = "log" /\ audit' \in {audit, Append(audit, OpenLogRequest(l))}
  BY <1>1 DEF PrepareLoggingRequestFails, Good
<1>3. /\ x \in LookupStates /\ Ready(x) /\ Logged(x, audit[x.log_request])
      /\ x.began \in 1..Len(history)
  BY <1>1, <1>2, StateOf
<1>4. x.view \in Views /\ x.handle \in Handles /\ x.log_request = NULL
  BY <1>2, <1>3 DEF Ready, Logged
<1>5. OpenLogRequest(l) \in LogRequests
  BY <1>1, <1>4 DEF OpenLogRequest, LogRequests
<1>6. /\ audit \in Seq(LogRequests) /\ audit' \in Seq(LogRequests)
      /\ \A i \in DOMAIN audit : i \in DOMAIN audit' /\ audit'[i] = audit[i]
  <2>1. audit \in Seq(LogRequests)
    BY DEF Good
  <2>2. CASE audit' = audit
    BY <2>1, <2>2
  <2>3. CASE audit' = Append(audit, OpenLogRequest(l))
    BY <2>1, <2>3, <1>5
  <2> QED
    BY <2>2, <2>3, <1>2
<1>7. /\ u \in LookupStates /\ Ready(u) /\ u.log_request = NULL /\ u.began = x.began
      /\ \A log : Logged(u, log)
  <2>1. "LoggerError" \in Errors
    BY DEF Errors
  <2> QED
    BY <2>1, <1>1, <1>2, <1>3, <1>4, FailedReady
<1> QED
  BY <1>1, <1>2, <1>3, <1>4, <1>6, <1>7, HandlerFrame DEF Good

\* A handler whose log is still open.
LEMMA OpenKept ==
    ASSUME NEW s, NEW log, Logged(s, log), s.pc = "load", NEW u, u.pc \in {"load", "finish"},
           u.log_request = s.log_request, u.handle = s.handle, u.view = s.view,
           u.reply = s.reply
    PROVE  Logged(u, log)
  BY DEF Logged, Settled, Working

\* One more kind was asked for.
LEMMA LoadGood ==
    ASSUME Good, NEW l \in Lookups, LoadRegistryObject(l) PROVE Good'
<1>1. PICK x, kind, r, found, code :
         /\ x = lookup[l] /\ kind = Head(x.todo)
         /\ r = Now.objects[<<kind, x.handle>>]
         /\ found = [x.found EXCEPT ![kind] = r]
         /\ code = IF r # NULL THEN x.server_exception ELSE ExceptionCode(kind, x.handle)
  OBVIOUS
<1>2. PICK todo, pc, resolved :
         /\ todo = Tail(x.todo)
         /\ pc = IF todo = <<>> THEN "finish" ELSE "load"
         /\ resolved = IF todo = <<>> THEN Resolved(x.view, found, code) ELSE code
  <2>1. PICK rest : rest = Tail(x.todo)
    OBVIOUS
  <2>2. PICK p : p = IF rest = <<>> THEN "finish" ELSE "load"
    OBVIOUS
  <2>3. PICK c : c = IF rest = <<>> THEN Resolved(x.view, found, code) ELSE code
    OBVIOUS
  <2> QED
    BY <2>1, <2>2, <2>3
<1>3. PICK u : u = [x EXCEPT !.pc = pc, !.todo = todo, !.found = found,
                             !.server_exception = resolved]
  OBVIOUS
<1>4. /\ lookup' = [lookup EXCEPT ![l] = u] /\ UNCHANGED <<history, tables, audit>>
      /\ x.pc = "load"
  BY <1>1, <1>2, <1>3 DEF LoadRegistryObject, Good
<1>5. /\ x \in LookupStates /\ Ready(x) /\ Logged(x, audit[x.log_request])
  BY <1>1, StateOf
<1>6. /\ x.view \in Views /\ x.handle \in Handles /\ x.lang \in Languages
      /\ \A k \in Kinds : x.found[k] \in Records[<<k, x.handle>>] \cup {NULL}
      /\ x.error = NULL /\ x.todo \in Seq(Kinds) /\ x.todo # <<>> /\ x.reply = NULL
      /\ x.view # "multiple" => /\ x.todo = <<x.view>> /\ x.server_exception = NULL
                               /\ FoundKinds(x.found) = {}
  BY <1>4, <1>5 DEF Ready
<1>7. kind \in Kinds /\ todo \in Seq(Kinds)
  BY <1>1, <1>2, <1>6
<1>8. /\ r \in Records[<<kind, x.handle>>] \cup {NULL}
      /\ r \in Record \cup {OBJECT_DELETE_CANDIDATE, NULL}
  <2>1. <<kind, x.handle>> \in Objects
    BY <1>6, <1>7 DEF Objects
  <2> QED
    BY <2>1, <1>1, NowIsAMoment DEF Moments, HistoryGood, Good, Now
<1>9. /\ x.found \in [Kinds -> Record \cup {OBJECT_DELETE_CANDIDATE, NULL}]
      /\ x.server_exception \in Codes \cup {NULL}
  BY <1>5 DEF LookupStates
<1>10. /\ found \in [Kinds -> Record \cup {OBJECT_DELETE_CANDIDATE, NULL}]
       /\ found[kind] = r /\ \A k \in Kinds \ {kind} : found[k] = x.found[k]
  BY <1>1, <1>7, <1>8, <1>9
<1>11. code \in Codes \cup {NULL} /\ (r = NULL => code \in Codes)
  <2>1. ExceptionCode(kind, x.handle) \in Codes
    BY <1>6, <1>7, ExceptionCodeType
  <2> QED
    BY <2>1, <1>1, <1>9
<1>12. /\ resolved \in Codes \cup {NULL}
       /\ x.view # "multiple" => resolved = code
       /\ x.view = "multiple" /\ todo = <<>> /\ FoundKinds(found) = {} => resolved # NULL
  <2>1. "OBJECT_NOT_FOUND" \in Codes
    BY DEF Codes
  <2> QED
    BY <2>1, <1>2, <1>11, NullIsApart DEF Resolved
<1>13. /\ u.pc = pc /\ u.todo = todo /\ u.found = found /\ u.server_exception = resolved
       /\ u.view = x.view /\ u.handle = x.handle /\ u.lang = x.lang
       /\ u.began = x.began /\ u.log_request = x.log_request
       /\ u.error = x.error /\ u.reply = x.reply
  BY <1>3, <1>5 DEF LookupStates
<1>14. u \in LookupStates
  <2>1. pc \in Pcs /\ todo \in Seq(Kinds) \cup Seq(Tasks)
    BY <1>2, <1>7 DEF Pcs
  <2>2. x \in LookupStates /\ resolved \in Codes \cup {NULL}
    BY <1>5, <1>12
  <2>3. found \in [Kinds -> Record \cup {OBJECT_DELETE_CANDIDATE, NULL}]
    BY <1>10
  <2> QED
    BY <2>1, <2>2, <2>3, <1>3 DEF LookupStates
<1>15. pc \in {"load", "finish"} /\ (pc = "load" <=> todo # <<>>)
  BY <1>2
<1>16. \A k \in Kinds : u.found[k] \in Records[<<k, u.handle>>] \cup {NULL}
  BY <1>6, <1>8, <1>10, <1>13
<1>17. x.view # "multiple" =>
          /\ kind = x.view /\ todo = <<>>
          /\ FoundKinds(found) = IF r = NULL THEN {} ELSE {x.view}
          /\ resolved = NULL <=> r # NULL
  <2>1. ASSUME x.view # "multiple" PROVE kind = x.view /\ todo = <<>>
    BY <2>1, <1>1, <1>2, <1>6
  <2>2. ASSUME x.view # "multiple"
        PROVE  FoundKinds(found) = IF r = NULL THEN {} ELSE {x.view}
    BY <2>1, <2>2, <1>6, <1>7, <1>10 DEF FoundKinds
  <2>3. ASSUME x.view # "multiple" PROVE resolved = NULL <=> r # NULL
    BY <2>3, <1>1, <1>6, <1>11, <1>12, NullIsApart
  <2> QED
    BY <2>1, <2>2, <2>3
<1>18. todo = <<>> => Answerable(u)
  BY <1>12, <1>13, <1>17 DEF Answerable
<1>19. Ready(u)
  BY <1>6, <1>7, <1>13, <1>15, <1>16, <1>17, <1>18 DEF Ready, Settled, Working
<1>20. Logged(u, audit[u.log_request])
  BY <1>4, <1>5, <1>13, <1>15, OpenKept
<1> QED
  BY <1>1, <1>4, <1>13, <1>14, <1>19, <1>20, QuietFrame

\* An exception on the way to the object leads to the "finally" clause.
LEMMA ToFinally ==
    ASSUME Good, NEW l \in Lookups, lookup[l].pc = "load", NEW error \in Errors,
           lookup' = [lookup EXCEPT ![l].pc = "finish", ![l].error = error],
           UNCHANGED <<history, tables, audit>>
    PROVE  Good'
<1>1. PICK x : x = lookup[l]
  OBVIOUS
<1>2. PICK u : u = [x EXCEPT !.pc = "finish", !.error = error]
  OBVIOUS
<1>3. lookup' = [lookup EXCEPT ![l] = u] /\ x.pc = "load"
  BY <1>1, <1>2 DEF Good
<1>4. x \in LookupStates /\ Ready(x) /\ Logged(x, audit[x.log_request])
  BY <1>1, StateOf
<1>5. /\ u.pc = "finish" /\ u.error = error
      /\ u.view = x.view /\ u.handle = x.handle /\ u.lang = x.lang /\ u.found = x.found
      /\ u.began = x.began /\ u.log_request = x.log_request /\ u.reply = x.reply
  BY <1>2, <1>4 DEF LookupStates
<1>6. u \in LookupStates
  <2>1. "finish" \in Pcs
    BY DEF Pcs
  <2> QED
    BY <2>1, <1>2, <1>4 DEF LookupStates
<1>7. error # NULL
  BY NullIsApart
<1>8. Ready(u)
  BY <1>3, <1>4, <1>5, <1>7 DEF Ready, Settled, Working
<1>9. Logged(u, audit[u.log_request])
  BY <1>3, <1>4, <1>5, OpenKept
<1> QED
  BY <1>1, <1>3, <1>5, <1>6, <1>8, <1>9, QuietFrame

\* finish_logging_request closes the log of the handler and no other.
LEMMA LogClosed ==
    ASSUME Good, NEW l \in Lookups, lookup[l].pc = "finish", FinishLoggingRequest(l)
    PROVE  LET x == lookup[l]
               found == FoundKinds(x.found)
               log == audit'[x.log_request]
           IN  /\ audit' \in Seq(LogRequests) /\ DOMAIN audit' = DOMAIN audit
               /\ \A i \in DOMAIN audit : i # x.log_request => audit'[i] = audit[i]
               /\ x.log_request # NULL =>
                     /\ LoggerEnabled
                     /\ log.handle = x.handle /\ log.handleType = x.view
                     /\ log.closed
                     /\ x.error = NULL =>
                           /\ log.foundType = found
                           /\ log.result = IF found # {} THEN "Ok" ELSE "NotFound"
<1>1. PICK x, n, found : x = lookup[l] /\ n = x.log_request /\ found = FoundKinds(x.found)
  OBVIOUS
<1>2. x \in LookupStates /\ Logged(x, audit[n])
  BY <1>1, StateOf
<1>3. audit \in Seq(LogRequests)
  BY DEF Good
<1>4. CASE n = NULL
  <2>1. audit' = audit
    BY <1>1, <1>4 DEF FinishLoggingRequest
  <2> QED
    BY <2>1, <1>1, <1>3, <1>4
<1>5. CASE n # NULL
  <2>1. n \in DOMAIN audit
    BY <1>1, <1>5, StateOf
  <2>2. PICK result : result = IF x.error # NULL THEN "Error"
                               ELSE IF found # {} THEN "Ok" ELSE "NotFound"
    OBVIOUS
  <2>3. PICK foundType : foundType = IF x.error # NULL THEN {} ELSE found
    OBVIOUS
  <2>4. PICK reason : reason = IF /\ x.error = NULL /\ found = {}
                                  /\ x.server_exception \notin {NULL, "not_found", "OBJECT_NOT_FOUND"}
                               THEN x.server_exception ELSE NULL
    OBVIOUS
  <2>5. PICK error : error = x.error
    OBVIOUS
  <2>6. audit' = [audit EXCEPT ![n].closed = TRUE, ![n].result = result,
                               ![n].foundType = foundType, ![n].reason = reason,
                               ![n].exception = error]
    BY <1>1, <1>5, <2>2, <2>3, <2>4, <2>5 DEF FinishLoggingRequest
  <2>7. PICK log : log = [audit[n] EXCEPT !.closed = TRUE, !.result = result,
                                          !.foundType = foundType, !.reason = reason,
                                          !.exception = error]
    OBVIOUS
  <2>8. audit' = [audit EXCEPT ![n] = log]
    BY <2>1, <2>6, <2>7, <1>3
  <2>9. audit[n] \in LogRequests
    BY <2>1, <1>3
  <2>10. x.server_exception \in Codes \cup {NULL} /\ error \in Errors \cup {NULL}
         /\ x.handle \in Handles \cup {NULL} /\ x.view \in Views \cup {NULL}
    BY <1>2, <2>5 DEF LookupStates
  <2>11. /\ foundType \in SUBSET Kinds /\ result \in {"Ok", "NotFound", "Error"}
         /\ reason \in Codes \cup {NULL}
    BY <1>1, <2>2, <2>3, <2>4, <2>10 DEF FoundKinds
  <2>12. /\ log.closed /\ log.result = result /\ log.foundType = foundType
         /\ log.handle = audit[n].handle /\ log.handleType = audit[n].handleType
    BY <2>7, <2>9 DEF LogRequests
  <2>13. log \in LogRequests
    BY <2>7, <2>9, <2>10, <2>11 DEF LogRequests
  <2>14. /\ audit' \in Seq(LogRequests) /\ DOMAIN audit' = DOMAIN audit
         /\ audit'[n] = log
         /\ \A i \in DOMAIN audit : i # n => audit'[i] = audit[i]
    BY <2>1, <2>8, <2>13, <1>3
  <2>15. LoggerEnabled /\ audit[n].handle = x.handle /\ audit[n].handleType = x.view
    BY <1>1, <1>2, <1>5 DEF Logged
  <2> QED
    BY <1>1, <2>2, <2>3, <2>12, <2>14, <2>15
<1> QED
  BY <1>4, <1>5

\* What load_related_objects begins with, if there is anything to do.
LEMMA RelatedOfGood ==
    ASSUME NEW s, s.view \in Views, s.handle \in Handles,
           \A k \in Kinds : s.found[k] \in Records[<<k, s.handle>>] \cup {NULL}
    PROVE  \/ /\ RelatedOf(s) = <<>>
              /\ s.view # "multiple" /\ s.found[s.view] # NULL =>
                    s.view = "registrar" /\ LinksOf(s.found[s.view]) = {}
           \/ /\ s.view \in TableKinds /\ s.view \in FoundKinds(s.found)
              /\ FitsKind(s.view, s.found[s.view])
              /\ Begun(RelatedOf(s), s.view, StatusesOf(s.found[s.view]))
              /\ Pending(RelatedOf(s)) = Own(s.view, s.found[s.view])
<1>1. CASE s.view = "multiple" \/ s.found[s.view] = NULL
  BY <1>1 DEF RelatedOf
<1>2. CASE s.view # "multiple" /\ s.found[s.view] # NULL
  <2>1. PICK kind, r : kind = s.view /\ r = s.found[s.view]
    OBVIOUS
  <2>2. kind \in Kinds
    BY <1>2, <2>1, LookupAssumption
  <2>3. <<kind, s.handle>> \in Objects /\ r \in Records[<<kind, s.handle>>]
    BY <1>2, <2>1, <2>2 DEF Objects
  <2>4. FitsKind(kind, r)
    BY <2>3, LookupAssumption
  <2>5. RelatedOf(s) = RelatedTasks(kind, r)
    BY <1>2, <2>1 DEF RelatedOf
  <2>6. CASE kind = "registrar"
    BY <2>1, <2>4, <2>5, <2>6, RegistrarsAlone
  <2>7. CASE kind # "registrar"
    <3>1. kind \in TableKinds
      BY <2>2, <2>7 DEF TableKinds
    <3>2. kind \in FoundKinds(s.found)
      BY <1>2, <2>1, <2>2 DEF FoundKinds
    <3>3. Begun(RelatedOf(s), kind, StatusesOf(r)) /\ Pending(RelatedOf(s)) = Own(kind, r)
      BY <2>4, <2>5, <3>1, RelatedTasksGood
    <3> QED
      BY <2>1, <2>4, <3>1, <3>2, <3>3
  <2> QED
    BY <2>6, <2>7
<1> QED
  BY <1>1, <1>2

LEMMA FinishGood ==
    ASSUME Good, NEW l \in Lookups, Finish(l) PROVE Good'
<1>1. PICK x, todo : x = lookup[l] /\ todo = RelatedOf(x)
  OBVIOUS
<1>2. PICK u : u = IF x.error # NULL THEN Failed(x, x.error) ELSE Continued(x, todo)
  OBVIOUS
<1>3. /\ lookup' = [lookup EXCEPT ![l] = u] /\ UNCHANGED <<history, tables>>
      /\ x.pc = "finish" /\ FinishLoggingRequest(l)
  BY <1>1, <1>2 DEF Finish, Good
<1>4. /\ x \in LookupStates /\ Ready(x) /\ Logged(x, audit[x.log_request])
      /\ x.began \in 1..Len(history) /\ x.error \in Errors \cup {NULL}
  BY <1>1, <1>3, StateOf DEF LookupStates
<1>5. PICK log : log = audit'[x.log_request]
  OBVIOUS
<1>6. /\ audit' \in Seq(LogRequests) /\ DOMAIN audit' = DOMAIN audit
      /\ \A i \in DOMAIN audit : i # x.log_request => audit'[i] = audit[i]
      /\ x.log_request # NULL =>
            /\ LoggerEnabled
            /\ log.handle = x.handle /\ log.handleType = x.view
            /\ log.closed
            /\ x.error = NULL =>
                  /\ log.foundType = FoundKinds(x.found)
                  /\ log.result = IF FoundKinds(x.found) # {} THEN "Ok" ELSE "NotFound"
  BY <1>1, <1>3, <1>5, LogClosed
<1>7. u \in LookupStates /\ Ready(u) /\ u.log_request = x.log_request /\ u.began = x.began
      /\ Logged(u, log)
  <2>1. CASE x.error # NULL
    <3>1. x.error \in Errors /\ u = Failed(x, x.error)
      BY <1>2, <1>4, <2>1
    <3> QED
      BY <3>1, <1>3, <1>4, <1>6, FailedReady
  <2>2. CASE x.error = NULL
    <3>1. Settled(x)
      BY <2>2, <1>3 DEF Settled
    <3>2. /\ x.view \in Views /\ x.handle \in Handles
          /\ \A k \in Kinds : x.found[k] \in Records[<<k, x.handle>>] \cup {NULL}
      BY <1>3, <1>4 DEF Ready
    <3>3. todo \in Seq(Tasks) /\ (todo = <<>> \/ x.view \in FoundKinds(x.found))
      <4>1. \/ RelatedOf(x) = <<>>
            \/ /\ x.view \in FoundKinds(x.found)
               /\ Begun(RelatedOf(x), x.view, StatusesOf(x.found[x.view]))
        BY <3>2, RelatedOfGood
      <4>2. CASE RelatedOf(x) = <<>>
        <5>1. <<>> \in Seq(Tasks)
          OBVIOUS
        <5> QED
          BY <4>2, <5>1, <1>1
      <4>3. CASE RelatedOf(x) # <<>>
        BY <4>1, <4>3, <1>1 DEF Begun
      <4> QED
        BY <4>2, <4>3
    <3>4. LoggerEnabled => x.log_request # NULL
      BY <3>1, <1>4 DEF Logged
    <3>5. u = Continued(x, todo)
      BY <1>2, <2>2
    <3> QED
      BY <3>1, <3>3, <3>4, <3>5, <2>2, <1>3, <1>4, <1>6, ContinuedReady
  <2> QED
    BY <2>1, <2>2
<1> QED
  BY <1>1, <1>3, <1>4, <1>5, <1>6, <1>7, HandlerFrame DEF Good

\* A handler that only waits for the next call.
LEMMA Waiting ==
    ASSUME Good, NEW l \in Lookups, lookup[l].pc \in Working, NEW pc \in Working \ {"store"},
           Head(lookup[l].todo).do = "table",
           lookup' = [lookup EXCEPT ![l].pc = pc], UNCHANGED <<history, tables, audit>>
    PROVE  Good'
<1>1. PICK x : x = lookup[l]
  OBVIOUS
<1>2. PICK u : u = [x EXCEPT !.pc = pc]
  OBVIOUS
<1>3. lookup' = [lookup EXCEPT ![l] = u]
  BY <1>1, <1>2 DEF Good
<1>4. x \in LookupStates /\ Ready(x) /\ Logged(x, audit[x.log_request])
  BY <1>1, StateOf
<1>5. /\ u.pc = pc /\ u.error = x.error /\ u.todo = x.todo
      /\ u.view = x.view /\ u.handle = x.handle /\ u.lang = x.lang /\ u.found = x.found
      /\ u.began = x.began /\ u.log_request = x.log_request /\ u.reply = x.reply
      /\ u.server_exception = x.server_exception
  BY <1>2, <1>4 DEF LookupStates
<1>6. u \in LookupStates
  <2>1. pc \in Pcs
    BY DEF Pcs
  <2> QED
    BY <2>1, <1>2, <1>4 DEF LookupStates
<1>7. Ready(u)
  BY <1>1, <1>4, <1>5 DEF Ready, Settled, Working, Answerable
<1>8. Logged(u, audit[u.log_request])
  BY <1>1, <1>4, <1>5 DEF Logged, Settled, Working
<1> QED
  BY <1>1, <1>3, <1>5, <1>6, <1>7, <1>8, QuietFrame DEF Working

\* A field of the page changes and nothing else.
LEMMA AsideReady ==
    ASSUME NEW s \in LookupStates, Ready(s), s.pc # "idle",
           NEW shown \in Shown, NEW table \in Tables \cup {NULL},
           s.pc = "store" => table \in Tables
    PROVE  LET u == [s EXCEPT !.shown = shown, !.descripts = table]
           IN  /\ u \in LookupStates /\ Ready(u)
               /\ u.log_request = s.log_request /\ u.began = s.began /\ u.pc = s.pc
               /\ \A log : Logged(s, log) => Logged(u, log)
<1>1. PICK u : u = [s EXCEPT !.shown = shown, !.descripts = table]
  OBVIOUS
<1>2. /\ u.pc = s.pc /\ u.error = s.error /\ u.todo = s.todo
      /\ u.view = s.view /\ u.handle = s.handle /\ u.lang = s.lang /\ u.found = s.found
      /\ u.began = s.began /\ u.log_request = s.log_request /\ u.reply = s.reply
      /\ u.server_exception = s.server_exception /\ u.descripts = table
  BY <1>1 DEF LookupStates
<1>3. u \in LookupStates
  BY <1>1 DEF LookupStates
<1>4. Page(u) = Page(s)
  BY <1>2, PageFollows
<1>5. Ready(u)
  BY <1>2, <1>4 DEF Ready, Settled, Answerable
<1>6. \A log : Logged(s, log) => Logged(u, log)
  BY <1>2 DEF Logged, Settled
<1> QED
  BY <1>1, <1>2, <1>3, <1>5, <1>6

\* What a handler has to do next.
LEMMA NextTask ==
    ASSUME NEW s \in LookupStates, Ready(s), s.pc \in Working
    PROVE  /\ s.todo \in Seq(Tasks) /\ s.todo # <<>> /\ Tail(s.todo) \in Seq(Tasks)
           /\ Head(s.todo) \in Tasks
           /\ Head(s.todo).do = "table" => Head(s.todo).kind \in TableKinds
           /\ Head(s.todo).do = "describe" => Head(s.todo).kind \in TableKinds
           /\ Head(s.todo).do = "load" =>
                 /\ Head(s.todo).kind \in Kinds \ {"domain"} /\ Head(s.todo).handle \in Handles
                 /\ Head(s.todo) \in Loads
           /\ s.lang \in Languages /\ s.view \in Views /\ s.handle \in Handles
           /\ s.pc # "idle" /\ s.pc # "done"
<1>1. s.todo \in Seq(Tasks) /\ s.todo # <<>>
  BY DEF Ready, Working
<1>2. Head(s.todo) \in Tasks /\ Tail(s.todo) \in Seq(Tasks)
  BY <1>1, TodoTail
<1>3. s.lang \in Languages /\ s.view \in Views /\ s.handle \in Handles
      /\ s.pc # "idle" /\ s.pc # "done"
  BY DEF Ready, Working
<1> QED
  BY <1>1, <1>2, <1>3 DEF Tasks, Loads

LEMMA GetDescriptionsGood ==
    ASSUME Good, NEW l \in Lookups, GetDescriptions(l) PROVE Good'
<1>1. PICK x, todo, table :
         x = lookup[l] /\ todo = Tail(x.todo) /\ table = tables[<<x.lang, Head(x.todo).kind>>]
  OBVIOUS
<1>2. PICK c : c = Continued(x, todo)
  OBVIOUS
<1>3. PICK u : u = [c EXCEPT !.shown = c.shown, !.descripts = table]
  OBVIOUS
<1>4. PICK log : log = audit[x.log_request]
  OBVIOUS
<1>5. /\ x.pc \in Working /\ Head(x.todo).do = "table" /\ table # NULL
      /\ UNCHANGED <<history, tables, audit>>
      /\ lookup' = [lookup EXCEPT ![l] = [c EXCEPT !.descripts = table]]
  BY <1>1, <1>2 DEF GetDescriptions, Doing, Task, Rest, CacheKey, Working, Good
<1>6. x \in LookupStates /\ Ready(x) /\ Logged(x, log)
  BY <1>1, <1>4, StateOf
<1>7. todo \in Seq(Tasks) /\ <<x.lang, Head(x.todo).kind>> \in Languages \X TableKinds
  BY <1>1, <1>5, <1>6, NextTask
<1>8. table \in Tables
  BY <1>1, <1>5, <1>7 DEF Good
<1>9. /\ c \in LookupStates /\ Ready(c) /\ Logged(c, log)
      /\ c.log_request = x.log_request /\ c.began = x.began
  BY <1>2, <1>5, <1>6, <1>7, ContinuedGood
<1>10. c.pc # "idle"
  BY <1>2, <1>6 DEF Continued, LookupStates
<1>11. u = [c EXCEPT !.descripts = table] /\ c.shown \in Shown
  BY <1>3, <1>9 DEF LookupStates
<1>12. /\ u \in LookupStates /\ Ready(u) /\ Logged(u, log)
       /\ u.log_request = x.log_request /\ u.began = x.began
  <2>1. PICK shown : shown = c.shown
    OBVIOUS
  <2>2. shown \in Shown /\ u = [c EXCEPT !.shown = shown, !.descripts = table]
    BY <2>1, <1>3, <1>11
  <2>3. /\ u \in LookupStates /\ Ready(u)
        /\ u.log_request = c.log_request /\ u.began = c.began
        /\ \A w : Logged(c, w) => Logged(u, w)
    BY <2>2, <1>8, <1>9, <1>10, AsideReady
  <2> QED
    BY <2>3, <1>9
<1> QED
  BY <1>1, <1>4, <1>5, <1>7, <1>11, <1>12, QuietFrame DEF Working

LEMMA FetchDescriptionsGood ==
    ASSUME Good, NEW l \in Lookups, FetchDescriptions(l) PROVE Good'
<1>1. PICK x, table :
         /\ x = lookup[l]
         /\ table = [lang |-> x.lang, kind |-> Head(x.todo).kind,
                     statuses |-> Now.described[Head(x.todo).kind]]
  OBVIOUS
<1>2. PICK c : c = [x EXCEPT !.pc = "store", !.descripts = table]
  OBVIOUS
<1>3. /\ x.pc = "fetch" /\ UNCHANGED <<history, tables, audit>>
      /\ lookup' = [lookup EXCEPT ![l] = c]
  BY <1>1, <1>2 DEF FetchDescriptions, Task, Good
<1>4. x \in LookupStates /\ Ready(x) /\ Logged(x, audit[x.log_request])
  BY <1>1, StateOf
<1>5. Head(x.todo).do = "table" /\ Head(x.todo).kind \in TableKinds /\ x.lang \in Languages
  <2>1. Head(x.todo).do = "table"
    BY <1>3, <1>4 DEF Ready
  <2> QED
    BY <2>1, <1>3, <1>4, NextTask DEF Working
<1>6. table \in Tables
  <2>1. Now \in Moments
    BY NowIsAMoment DEF Good
  <2> QED
    BY <2>1, <1>1, <1>5 DEF Moments, Tables
<1>7. c \in LookupStates
  <2>1. "store" \in Pcs
    BY DEF Pcs, Working
  <2> QED
    BY <2>1, <1>2, <1>4, <1>6 DEF LookupStates
<1>8. /\ c.pc = "store" /\ c.error = x.error /\ c.todo = x.todo
      /\ c.view = x.view /\ c.handle = x.handle /\ c.lang = x.lang /\ c.found = x.found
      /\ c.began = x.began /\ c.log_request = x.log_request /\ c.reply = x.reply
      /\ c.server_exception = x.server_exception /\ c.descripts = table
  BY <1>2, <1>4 DEF LookupStates
<1>9. Ready(c)
  BY <1>3, <1>4, <1>5, <1>6, <1>8 DEF Ready, Settled, Working, Answerable
<1>10. Logged(c, audit[c.log_request])
  BY <1>3, <1>4, <1>8 DEF Logged, Settled, Working
<1> QED
  BY <1>1, <1>3, <1>7, <1>8, <1>9, <1>10, QuietFrame

LEMMA StoreDescriptionsGood ==
    ASSUME Good, NEW l \in Lookups, StoreDescriptions(l) PROVE Good'
<1>1. PICK x, todo, log : x = lookup[l] /\ todo = Tail(x.todo) /\ log = audit[x.log_request]
  OBVIOUS
<1>2. PICK u : u = Continued(x, todo)
  OBVIOUS
<1>3. /\ x.pc = "store" /\ UNCHANGED <<history, audit>>
      /\ tables' = [tables EXCEPT ![<<x.lang, Head(x.todo).kind>>] = x.descripts]
      /\ lookup' = [lookup EXCEPT ![l] = u]
  BY <1>1, <1>2 DEF StoreDescriptions, Task, Rest, CacheKey, Good
<1>4. x \in LookupStates /\ Ready(x) /\ Logged(x, log) /\ x.began \in 1..Len(history)
  BY <1>1, <1>3, StateOf
<1>5. x.pc \in Working /\ x.descripts \in Tables
  BY <1>3, <1>4 DEF Ready, Working
<1>6. todo \in Seq(Tasks)
  BY <1>1, <1>4, <1>5, NextTask
<1>7. tables' \in [Languages \X TableKinds -> Tables \cup {NULL}]
  BY <1>3, <1>5 DEF Good
<1>8. /\ u \in LookupStates /\ Ready(u) /\ Logged(u, log)
      /\ u.log_request = x.log_request /\ u.began = x.began
  BY <1>2, <1>4, <1>5, <1>6, ContinuedGood
<1> QED
  BY <1>1, <1>3, <1>4, <1>7, <1>8, HandlerFrame DEF Good

LEMMA DescribeGood ==
    ASSUME Good, NEW l \in Lookups, DescribeStatuses(l) PROVE Good'
<1>1. PICK x, todo, log : x = lookup[l] /\ todo = Tail(x.todo) /\ log = audit[x.log_request]
  OBVIOUS
<1>2. /\ lookup' = [lookup EXCEPT ![l] =
               IF Head(x.todo).statuses \subseteq x.descripts.statuses
               THEN Continued(x, todo) ELSE Failed(x, "KeyError")]
      /\ UNCHANGED <<history, tables, audit>> /\ x.pc \in Working
  BY <1>1 DEF DescribeStatuses, Doing, Task, Rest, Working, Good
<1>3. x \in LookupStates /\ Ready(x) /\ Logged(x, log)
  BY <1>1, StateOf
<1>4. todo \in Seq(Tasks) /\ x.pc # "idle"
  BY <1>1, <1>2, <1>3, NextTask
<1>5. CASE Head(x.todo).statuses \subseteq x.descripts.statuses
  <2>1. PICK u : u = Continued(x, todo)
    OBVIOUS
  <2>2. lookup' = [lookup EXCEPT ![l] = u]
    BY <2>1, <1>2, <1>5
  <2>3. /\ u \in LookupStates /\ Ready(u) /\ Logged(u, log)
        /\ u.log_request = x.log_request /\ u.began = x.began
    BY <2>1, <1>2, <1>3, <1>4, ContinuedGood
  <2> QED
    BY <2>2, <2>3, <1>1, <1>2, <1>4, QuietFrame
<1>6. CASE ~(Head(x.todo).statuses \subseteq x.descripts.statuses)
  <2>1. lookup' = [lookup EXCEPT ![l] = Failed(lookup[l], "KeyError")]
    BY <1>1, <1>2, <1>6
  <2>2. "KeyError" \in Errors
    BY DEF Errors
  <2> QED
    BY <2>1, <2>2, <1>1, <1>2, <1>4, FailedGood
<1> QED
  BY <1>5, <1>6

\* What the registry says of an object that is asked for.
LEMMA Present ==
    ASSUME Good, NEW kind \in Kinds, NEW h \in Handles, Now.objects[<<kind, h>>] # NULL
    PROVE  /\ <<kind, h>> \in Objects /\ FitsKind(kind, Now.objects[<<kind, h>>])
           /\ kind # "domain" => Now.objects[<<kind, h>>] \in Record
<1>1. PICK r : r = Now.objects[<<kind, h>>]
  OBVIOUS
<1>2. <<kind, h>> \in Objects
  BY DEF Objects
<1>3. r \in Records[<<kind, h>>]
  BY <1>1, <1>2, NowIsAMoment DEF HistoryGood, Good, Now
<1>4. FitsKind(kind, r)
  BY <1>2, <1>3, LookupAssumption
<1> QED
  BY <1>1, <1>2, <1>4 DEF FitsKind

\* The tasks after an object was loaded.
MoreTasks(kind, r, rest) ==
    (IF kind \in {"nsset", "keyset"} THEN SetTasks(kind, r) ELSE <<>>) \o rest

LEMMA MoreTasksGood ==
    ASSUME NEW kind \in Kinds \ {"domain"}, NEW r, FitsKind(kind, r), NEW rest \in Seq(Tasks)
    PROVE  /\ MoreTasks(kind, r, rest) \in Seq(Tasks)
           /\ kind \notin {"nsset", "keyset"} => MoreTasks(kind, r, rest) = rest
           /\ kind \in {"nsset", "keyset"} =>
                 MoreTasks(kind, r, rest) = SetTasks(kind, r) \o rest
<1>1. CASE kind \in {"nsset", "keyset"}
  <2>1. PICK first : first = SetTasks(kind, r)
    OBVIOUS
  <2>2. first \in Seq(Tasks)
    BY <1>1, <2>1, SetTasksGood DEF Begun
  <2>3. first \o rest \in Seq(Tasks)
    BY <2>2
  <2> QED
    BY <1>1, <2>1, <2>3 DEF MoreTasks
<1>2. CASE kind \notin {"nsset", "keyset"}
  <2>1. MoreTasks(kind, r, rest) = <<>> \o rest
    BY <1>2 DEF MoreTasks
  <2>2. <<>> \o rest = rest
    OBVIOUS
  <2> QED
    BY <1>2, <2>1, <2>2
<1> QED
  BY <1>1, <1>2

LEMMA LoadRelatedGood ==
    ASSUME Good, NEW l \in Lookups, LoadRelated(l) PROVE Good'
<1>1. PICK x, task, log : x = lookup[l] /\ task = Head(x.todo) /\ log = audit[x.log_request]
  OBVIOUS
<1>2. PICK o, r : o = <<task.kind, task.handle>> /\ r = Now.objects[o]
  OBVIOUS
<1>3. PICK more : more = MoreTasks(task.kind, r, Tail(x.todo))
  OBVIOUS
<1>4. PICK shown : shown = x.shown \cup {<<o, r>>}
  OBVIOUS
<1>5. /\ lookup' = [lookup EXCEPT ![l] =
               IF r = NULL THEN Failed(x, "OBJECT_NOT_FOUND")
               ELSE Continued([x EXCEPT !.shown = shown], more)]
      /\ UNCHANGED <<history, tables, audit>> /\ x.pc \in Working /\ task.do = "load"
      /\ x.pc # "store"
  <2>1. /\ UNCHANGED <<history, tables, audit>> /\ x.pc = "related" /\ task.do = "load"
    BY <1>1 DEF LoadRelated, Doing, Task
  <2>2. more = (IF o[1] \in {"nsset", "keyset"} THEN SetTasks(o[1], r) ELSE <<>>)
                  \o Tail(x.todo)
    BY <1>2, <1>3 DEF MoreTasks
  <2>3. lookup' = [lookup EXCEPT ![l] =
               IF r = NULL THEN Failed(x, "OBJECT_NOT_FOUND")
               ELSE Continued([x EXCEPT !.shown = shown], more)]
    BY <1>1, <1>2, <1>4, <2>2 DEF LoadRelated, Task, Rest
  <2> QED
    BY <2>1, <2>3 DEF Working
<1>6. x \in LookupStates /\ Ready(x) /\ Logged(x, log)
  BY <1>1, StateOf
<1>7. /\ Tail(x.todo) \in Seq(Tasks) /\ x.pc # "idle"
      /\ task.kind \in Kinds \ {"domain"} /\ task.handle \in Handles
  BY <1>1, <1>5, <1>6, NextTask
<1>8. CASE r = NULL
  <2>1. lookup' = [lookup EXCEPT ![l] = Failed(lookup[l], "OBJECT_NOT_FOUND")]
    BY <1>1, <1>5, <1>8
  <2>2. "OBJECT_NOT_FOUND" \in Errors
    BY DEF Errors
  <2> QED
    BY <2>1, <2>2, <1>1, <1>5, <1>7, FailedGood
<1>9. CASE r # NULL
  <2>1. o \in Objects /\ FitsKind(task.kind, r) /\ r \in Record
    BY <1>2, <1>7, <1>9, Present
  <2>2. more \in Seq(Tasks)
    BY <1>3, <1>7, <2>1, MoreTasksGood
  <2>3. shown \in Shown /\ x.descripts \in Tables \cup {NULL}
    BY <1>4, <1>6, <2>1 DEF Shown, LookupStates
  <2>4. PICK table : table = x.descripts
    OBVIOUS
  <2>5. PICK c : c = [x EXCEPT !.shown = shown, !.descripts = table]
    OBVIOUS
  <2>6. c = [x EXCEPT !.shown = shown]
    BY <2>4, <2>5, <1>6 DEF LookupStates
  <2>7. /\ c \in LookupStates /\ Ready(c) /\ c.pc = x.pc
        /\ c.log_request = x.log_request /\ c.began = x.began
        /\ \A w : Logged(x, w) => Logged(c, w)
    <3>1. x.pc # "idle" /\ x.pc # "store" /\ table \in Tables \cup {NULL}
      BY <2>3, <2>4, <1>5, <1>7
    <3> QED
      BY <3>1, <2>3, <2>5, <1>6, AsideReady
  <2>8. PICK u : u = Continued(c, more)
    OBVIOUS
  <2>9. lookup' = [lookup EXCEPT ![l] = u]
    BY <1>5, <1>9, <2>6, <2>8
  <2>10. /\ u \in LookupStates /\ Ready(u) /\ Logged(u, log)
         /\ u.log_request = c.log_request /\ u.began = c.began
    BY <2>2, <2>7, <2>8, <1>5, <1>6, ContinuedGood
  <2> QED
    BY <2>7, <2>9, <2>10, <1>1, <1>5, <1>7, QuietFrame
<1> QED
  BY <1>8, <1>9

LEMMA WorkerDiesGood ==
    ASSUME Good, NEW l \in Lookups, WorkerDies(l) PROVE Good'
<1>1. PICK x : x = lookup[l]
  OBVIOUS
<1>2. PICK u : u = [x EXCEPT !.pc = "dead"]
  OBVIOUS
<1>3. /\ lookup' = [lookup EXCEPT ![l] = u] /\ x.pc \notin {"idle", "done", "dead"}
      /\ UNCHANGED <<history, tables, audit>>
  BY <1>1, <1>2 DEF WorkerDies, Good
<1>4. x \in LookupStates /\ Ready(x) /\ Logged(x, audit[x.log_request])
  BY <1>1, StateOf
<1>5. /\ u.pc = "dead" /\ u.view = x.view /\ u.handle = x.handle /\ u.lang = x.lang
      /\ u.found = x.found /\ u.began = x.began /\ u.log_request = x.log_request
      /\ u.reply = x.reply
  BY <1>2, <1>4 DEF LookupStates
<1>6. u \in LookupStates
  <2>1. "dead" \in Pcs
    BY DEF Pcs
  <2> QED
    BY <2>1, <1>2, <1>4 DEF LookupStates
<1>7. Ready(u)
  BY <1>3, <1>4, <1>5 DEF Ready, Settled, Working
<1>8. Logged(u, audit[u.log_request])
  BY <1>4, <1>5 DEF Logged, Settled, Working
<1> QED
  BY <1>1, <1>3, <1>5, <1>6, <1>7, <1>8, QuietFrame

\* The logger fails to close a log, or closes it and its answer is lost.
LEMMA FinishFailsGood ==
    ASSUME Good, NEW l \in Lookups, FinishFails(l) PROVE Good'
<1>1. PICK x, u : x = lookup[l] /\ u = Failed(x, "LoggerError")
  OBVIOUS
<1>2. /\ lookup' = [lookup EXCEPT ![l] = u] /\ UNCHANGED <<history, tables>>
      /\ x.pc = "finish" /\ (audit' = audit \/ FinishLoggingRequest(l))
  BY <1>1 DEF FinishFails, Good
<1>3. "LoggerError" \in Errors
  BY DEF Errors
<1>4. CASE audit' = audit
  BY <1>1, <1>2, <1>3, <1>4, FailedGood
<1>5. CASE FinishLoggingRequest(l)
  <2>1. /\ x \in LookupStates /\ Ready(x) /\ x.began \in 1..Len(history)
    BY <1>1, <1>2, StateOf
  <2>2. PICK log : log = audit'[x.log_request]
    OBVIOUS
  <2>3. /\ audit' \in Seq(LogRequests) /\ DOMAIN audit' = DOMAIN audit
        /\ \A i \in DOMAIN audit : i # x.log_request => audit'[i] = audit[i]
        /\ x.log_request # NULL =>
              LoggerEnabled /\ log.handle = x.handle /\ log.handleType = x.view
    BY <1>1, <1>2, <1>5, <2>2, LogClosed
  <2>4. u \in LookupStates /\ Ready(u) /\ u.log_request = x.log_request /\ u.began = x.began
        /\ Logged(u, log)
    BY <1>1, <1>2, <1>3, <2>1, <2>3, FailedReady
  <2> QED
    BY <1>1, <1>2, <2>1, <2>2, <2>3, <2>4, HandlerFrame DEF Good
<1> QED
  BY <1>2, <1>4, <1>5

\* The cache fails to store a table, or stores it and its answer is lost.
LEMMA CacheFailsGood ==
    ASSUME Good, NEW l \in Lookups, CacheFails(l) PROVE Good'
<1>1. PICK x, u, log : x = lookup[l] /\ u = Failed(x, "CacheError") /\ log = audit[x.log_request]
  OBVIOUS
<1>2. /\ lookup' = [lookup EXCEPT ![l] = u] /\ UNCHANGED <<history, audit>> /\ x.pc # "idle"
  BY <1>1 DEF CacheFails, Doing, Good
<1>3. "CacheError" \in Errors
  BY DEF Errors
<1>4. CASE tables' = tables
  BY <1>1, <1>2, <1>3, <1>4, FailedGood
<1>5. CASE tables' # tables
  <2>1. /\ x.pc = "store"
        /\ tables' = [tables EXCEPT ![<<x.lang, Head(x.todo).kind>>] = x.descripts]
    BY <1>1, <1>5 DEF CacheFails, Task, CacheKey
  <2>2. /\ x \in LookupStates /\ Ready(x) /\ Logged(x, log) /\ x.began \in 1..Len(history)
    BY <1>1, <1>2, StateOf
  <2>3. x.descripts \in Tables
    BY <2>1, <2>2 DEF Ready
  <2>4. tables' \in [Languages \X TableKinds -> Tables \cup {NULL}]
    BY <2>1, <2>3 DEF Good
  <2>5. x.log_request # NULL =>
           LoggerEnabled /\ log.handle = x.handle /\ log.handleType = x.view
    BY <2>2 DEF Logged
  <2>6. u \in LookupStates /\ Ready(u) /\ u.log_request = x.log_request /\ u.began = x.began
        /\ Logged(u, log)
    BY <1>1, <1>2, <1>3, <2>2, <2>5, FailedReady
  <2> QED
    BY <1>1, <1>2, <2>2, <2>4, <2>6, HandlerFrame DEF Good
<1> QED
  BY <1>4, <1>5

\* The registry fails to answer about a related object or a table.
LEMMA RelatedFailsGood ==
    ASSUME Good, NEW l \in Lookups, RelatedFails(l) PROVE Good'
<1>1. /\ lookup[l].pc # "idle" /\ UNCHANGED <<history, tables, audit>>
      /\ lookup' = [lookup EXCEPT ![l] = Failed(lookup[l], "COMM_FAILURE")]
  BY DEF RelatedFails, Doing
<1>2. "COMM_FAILURE" \in Errors
  BY DEF Errors
<1> QED
  BY <1>1, <1>2, FailedGood

LEMMA GoodHandler ==
    ASSUME Good, NEW l \in Lookups, LookupStep(l) PROVE Good'
<1>1. CASE PrepareLoggingRequest(l)
  BY <1>1, PrepareGood
<1>2. CASE PrepareLoggingRequestFails(l)
  BY <1>2, PrepareFailsGood
<1>3. CASE LoadRegistryObject(l)
  BY <1>3, LoadGood
<1>4. CASE NoExampleDomain(l) \/ LoadRegistryObjectFails(l)
  <2>1. {"AssertionError", "COMM_FAILURE"} \subseteq Errors
    BY DEF Errors
  <2>2. CASE NoExampleDomain(l)
    BY <2>1, <2>2, ToFinally DEF NoExampleDomain
  <2>3. CASE LoadRegistryObjectFails(l)
    BY <2>1, <2>3, ToFinally DEF LoadRegistryObjectFails
  <2> QED
    BY <2>2, <2>3, <1>4
<1>5. CASE Finish(l)
  BY <1>5, FinishGood
<1>6. CASE FinishFails(l) \/ CacheFails(l) \/ RelatedFails(l)
  BY <1>6, FinishFailsGood, CacheFailsGood, RelatedFailsGood
<1>7. CASE GetDescriptions(l)
  BY <1>7, GetDescriptionsGood
<1>8. CASE DescriptionsMissing(l)
  <2>1. lookup[l].pc \in Working /\ Head(lookup[l].todo).do = "table"
    BY <1>8 DEF DescriptionsMissing, Doing, Task, Working
  <2>2. "fetch" \in Working \ {"store"}
    BY DEF Working
  <2> QED
    BY <1>8, <2>1, <2>2, Waiting DEF DescriptionsMissing
<1>9. CASE FetchDescriptions(l)
  BY <1>9, FetchDescriptionsGood
<1>10. CASE StoreDescriptions(l)
  BY <1>10, StoreDescriptionsGood
<1>11. CASE DescribeStatuses(l)
  BY <1>11, DescribeGood
<1>12. CASE LoadRelated(l)
  BY <1>12, LoadRelatedGood
<1> QED
  BY <1>1, <1>2, <1>3, <1>4, <1>5, <1>6, <1>7, <1>8, <1>9, <1>10, <1>11, <1>12
  DEF LookupStep

\* The registry and the cache change behind the handlers' backs.
LEMMA GoodBesides ==
    ASSUME Good, UNCHANGED <<lookup, audit>>, HistoryGood', Grows,
           tables' \in [Languages \X TableKinds -> Tables \cup {NULL}]
    PROVE  Good'
<1>1. \A n : n \in 1..Len(history) => n \in 1..Len(history')
  BY NowIsAMoment DEF Good, Grows, HistoryGood
<1>2. LogsDiffer'
  BY DEF LogsDiffer, Good
<1> QED
  BY <1>1, <1>2 DEF Good

LEMMA GoodStep == ASSUME Good, [Next]_vars PROVE Good'
<1>0. HistoryGood' /\ Grows
  BY HistoryStep DEF Good
<1>1. ASSUME NEW l \in Lookups, NEW view \in Views, NEW h \in Handles, NEW lang \in Languages,
             Begin(l, view, h, lang)
      PROVE  Good'
  BY <1>1, BeginGood
<1>2. ASSUME NEW l \in Lookups, LookupStep(l) PROVE Good'
  BY <1>2, GoodHandler
<1>3. ASSUME NEW l \in Lookups, WorkerDies(l) PROVE Good'
  BY <1>3, WorkerDiesGood
<1>4. ASSUME NEW o \in Objects, NEW r \in Records[o] \cup {NULL}, ChangeObject(o, r) PROVE Good'
  BY <1>0, <1>4, GoodBesides DEF ChangeObject, Good
<1>5. ASSUME NEW kind \in TableKinds, NEW s \in Statuses, AddStatus(kind, s) PROVE Good'
  BY <1>0, <1>5, GoodBesides DEF AddStatus, Good
<1>6. ASSUME NEW key \in Languages \X TableKinds, Expire(key) PROVE Good'
  <2>1. tables' \in [Languages \X TableKinds -> Tables \cup {NULL}]
    BY <1>6 DEF Expire, Good
  <2> QED
    BY <2>1, <1>0, <1>6, GoodBesides DEF Expire
<1>7. CASE UNCHANGED vars
  BY <1>0, <1>7, GoodBesides DEF vars, Good
<1> QED
  BY <1>1, <1>2, <1>3, <1>4, <1>5, <1>6, <1>7 DEF Next

LEMMA GoodAlways == Spec => []Good
<1>1. Good /\ [Next]_vars => Good'
  BY GoodStep
<1> QED
  BY <1>1, GoodInit, PTL DEF Spec

\* Types: the registry's answers, the tables of texts, the state of every
\* handler and the fields of the log requests, for any number of lookups and
\* any registry.
THEOREM Types == Spec => []TypeOK
<1>1. ASSUME Good PROVE TypeOK
  <2>1. /\ Len(history) \in 1..(MaxChanges + 1)
        /\ \A t \in DOMAIN history : history[t] \in Moments
    BY <1>1 DEF Good, HistoryGood
  <2>2. ASSUME NEW l \in Lookups
        PROVE  /\ lookup[l].pc \in {"idle", "log", "load", "finish", "related", "fetch", "store",
                                    "done", "dead"}
               /\ lookup[l].view \in Views \cup {NULL}
               /\ lookup[l].began \in 0..Len(history)
               /\ lookup[l].log_request \in DOMAIN audit \cup {NULL}
               /\ lookup[l].descripts \in Tables \cup {NULL}
               /\ lookup[l].server_exception \in Codes \cup {NULL}
               /\ lookup[l].error \in Errors \cup {NULL}
               /\ lookup[l].reply \in Replies \cup {NULL}
               /\ lookup[l].pc = "done" <=> lookup[l].reply # NULL
    <3>1. /\ lookup[l] \in LookupStates /\ Ready(lookup[l])
          /\ lookup[l].pc # "idle" => lookup[l].began \in 1..Len(history)
          /\ lookup[l].log_request # NULL => lookup[l].log_request \in DOMAIN audit
      BY <1>1, StateOf
    <3>2. lookup[l].began \in 0..Len(history)
      <4>1. CASE lookup[l].pc = "idle"
        <5>1. lookup[l].began = 0
          BY <3>1, <4>1 DEF Ready, Idle
        <5> QED
          BY <5>1, <1>1, NowIsAMoment DEF Good
      <4>2. CASE lookup[l].pc # "idle"
        BY <3>1, <4>2
      <4> QED
        BY <4>1, <4>2
    <3>3. lookup[l].pc = "done" <=> lookup[l].reply # NULL
      BY <3>1 DEF Ready
    <3> QED
      BY <3>1, <3>2, <3>3 DEF LookupStates, Pcs, Working
  <2>3. \A i \in DOMAIN audit : audit[i] \in LogRequests
    BY <1>1 DEF Good
  <2>4. \A i \in DOMAIN audit :
           audit[i].result \in {"Ok", "NotFound", "Error"} /\ audit[i].foundType \subseteq Kinds
    BY <2>3 DEF LogRequests
  <2> QED
    BY <1>1, <2>1, <2>2, <2>4 DEF TypeOK, Good
<1> QED
  BY <1>1, GoodAlways, PTL

\* What the page tells of what was found.
LEMMA PageTells ==
    ASSUME NEW s, Answerable(s)
    PROVE  LET found == FoundKinds(s.found)
           IN  /\ Page(s) = "exception_page" <=> found = {}
               /\ Page(s) = "page" => found = {s.view}
               /\ Page(s) = "redirect" => Cardinality(found) = 1
               /\ Page(s) = "multiple_entries" => Cardinality(found) > 1
<1>1. PICK found, n : found = FoundKinds(s.found) /\ n = Cardinality(found)
  OBVIOUS
<1>2. n \in Nat /\ (n = 0 <=> found = {})
  BY <1>1, Counting
<1>3. CASE s.view = "multiple"
  <2>1. /\ found = {} => Page(s) = "exception_page"
        /\ n = 1 => Page(s) = "redirect"
        /\ n > 1 => Page(s) = "multiple_entries"
    BY <1>1, <1>3, PageOf DEF Answerable
  <2>2. n = 0 \/ n = 1 \/ n > 1
    BY <1>2
  <2> QED
    BY <2>1, <2>2, <1>1, <1>2
<1>4. CASE s.view # "multiple"
  <2>1. Page(s) = IF s.server_exception = NULL THEN "page" ELSE "exception_page"
    BY <1>4, PageOf
  <2>2. found = IF s.server_exception = NULL THEN {s.view} ELSE {}
    BY <1>1, <1>4 DEF Answerable
  <2> QED
    BY <2>1, <2>2, <1>1
<1> QED
  BY <1>3, <1>4

\* A reply other than a server error is the page.
LEMMA ReplyIsPage ==
    ASSUME NEW s, Ready(s), s.reply \in Replies \ {"server_error"}
    PROVE  /\ Settled(s) /\ s.pc = "done" /\ s.error = NULL
           /\ Answerable(s) /\ s.reply = Page(s)
<1>1. s.reply # NULL
  BY NullIsApart
<1>2. s.pc = "done"
  BY <1>1 DEF Ready
<1>3. s.reply = IF s.error = NULL THEN Page(s) ELSE "server_error"
  BY <1>2 DEF Ready
<1>4. s.error = NULL /\ Settled(s)
  BY <1>2, <1>3 DEF Settled
<1> QED
  BY <1>2, <1>3, <1>4 DEF Ready

\* The logs tell what browsers were told, whatever fails and however many
\* lookups run at once.
THEOREM LogsTell == Spec => []RepliesAreLogged
<1>1. ASSUME Good, LoggerEnabled, NEW l \in Lookups
      PROVE  LET s == lookup[l]
                 log == audit[s.log_request]
             IN  /\ s.reply \in Replies \ {"server_error"} => log.closed
                 /\ s.reply \in {"page", "multiple_entries", "redirect"} =>
                       log.result = "Ok" /\ log.foundType = FoundKinds(s.found)
                 /\ s.reply = "exception_page" =>
                       log.result = "NotFound" /\ log.foundType = {}
                 /\ s.log_request # NULL =>
                       /\ log.handle = s.handle /\ log.handleType = s.view
                       /\ log.closed /\ log.result = "Error" => s.reply = "server_error"
  <2>1. PICK s, log : s = lookup[l] /\ log = audit[s.log_request]
    OBVIOUS
  <2>2. Ready(s) /\ Logged(s, log)
    BY <1>1, <2>1, StateOf
  <2>3. {"page", "multiple_entries", "redirect", "exception_page"} \subseteq
           Replies \ {"server_error"}
    BY DEF Replies
  <2>4. ASSUME s.reply \in Replies \ {"server_error"}
        PROVE  /\ log.closed /\ log.foundType = FoundKinds(s.found)
               /\ log.result = IF FoundKinds(s.found) # {} THEN "Ok" ELSE "NotFound"
               /\ s.reply = "exception_page" <=> FoundKinds(s.found) = {}
    <3>1. Settled(s) /\ s.pc = "done" /\ Answerable(s) /\ s.reply = Page(s)
      BY <2>2, <2>4, ReplyIsPage
    <3>2. s.reply = "exception_page" <=> FoundKinds(s.found) = {}
      BY <3>1, PageTells
    <3>3. s.log_request # NULL
      BY <3>1, <1>1, <2>2 DEF Logged
    <3> QED
      BY <3>1, <3>2, <3>3, <2>2 DEF Logged
  <2>5. s.log_request # NULL =>
           /\ log.handle = s.handle /\ log.handleType = s.view
           /\ log.closed /\ log.result = "Error" => s.reply = "server_error"
    BY <2>2 DEF Logged
  <2> QED
    BY <2>1, <2>3, <2>4, <2>5
<1>2. Good => RepliesAreLogged
  BY <1>1 DEF RepliesAreLogged
<1> QED
  BY <1>2, GoodAlways, PTL

-----------------------------------------------------------------------------
(* Memory is an invariant. *)

\* What was, was: the memories of a handler stay true while the registry
\* changes.
LEMMA WasStays ==
    ASSUME HistoryGood, HistoryGood', Grows, NEW began \in Nat \ {0}, NEW o
    PROVE  /\ \A r : WasSince(began, o, r) => WasSince(began, o, r)'
           /\ ThereSince(began, o) => ThereSince(began, o)'
           /\ DeletedSince(began, o) => DeletedSince(began, o)'
<1>1. \A t \in began..Len(history) : t \in began..Len(history') /\ history'[t] = history[t]
  <2>1. Len(history) \in Nat /\ Len(history) <= Len(history') /\ DOMAIN history = 1..Len(history)
    BY NowIsAMoment DEF Grows
  <2>2. Len(history') \in Int
    BY DEF HistoryGood
  <2> QED
    BY <2>1, <2>2 DEF Grows
<1> QED
  BY <1>1 DEF WasSince, ThereSince, DeletedSince

LEMMA AuthenticStays ==
    ASSUME HistoryGood, Grows, NEW table, NEW lang, NEW kind, Authentic(table, lang, kind)
    PROVE  Authentic(table, lang, kind)'
<1>1. PICK t \in DOMAIN history : history[t].described[kind] = table.statuses
  BY DEF Authentic
<1>2. t \in DOMAIN history' /\ history'[t] = history[t]
  BY DEF Grows
<1> QED
  BY <1>1, <1>2 DEF Authentic

LEMMA RemembersStays ==
    ASSUME HistoryGood, HistoryGood', Grows, NEW s \in LookupStates, Ready(s),
           s.pc # "idle" => s.began \in 1..Len(history), Remembers(s)
    PROVE  Remembers(s)'
<1>1. s.pc # "idle" => s.began \in Nat \ {0}
  BY NowIsAMoment
<1>2. /\ s.pc # "idle" => \A o, r : WasSince(s.began, o, r) => WasSince(s.began, o, r)'
      /\ s.pc # "idle" => \A o : ThereSince(s.began, o) => ThereSince(s.began, o)'
      /\ s.pc # "idle" => \A o : DeletedSince(s.began, o) => DeletedSince(s.began, o)'
  BY <1>1, WasStays
<1>3. FoundRemembered(s)'
  <2>1. FoundRemembered(s)
    BY DEF Remembers
  <2>2. CASE s.pc = "idle"
    BY <2>2 DEF FoundRemembered, Settled, Working
  <2>3. CASE s.pc # "idle"
    BY <2>1, <2>3, <1>2 DEF FoundRemembered, Settled
  <2> QED
    BY <2>2, <2>3
<1>4. ShownRemembered(s)'
  <2>1. ShownRemembered(s)
    BY DEF Remembers
  <2>2. CASE s.pc = "idle"
    <3>1. s.shown = {}
      BY <2>2 DEF Ready, Idle
    <3> QED
      BY <3>1 DEF ShownRemembered
  <2>3. CASE s.pc # "idle"
    BY <2>1, <2>3, <1>2 DEF ShownRemembered
  <2> QED
    BY <2>2, <2>3
<1>5. PendingRemembered(s)'
  <2>1. PendingRemembered(s)
    BY DEF Remembers
  <2> QED
    BY <2>1, <1>2 DEF PendingRemembered, Working
<1>6. \A kind \in TableKinds : Now.described[kind] \subseteq Now'.described[kind]
  BY DEF Grows
<1>7. TextsFit(s)'
  <2>1. TextsFit(s)
    BY DEF Remembers
  <2>2. s.pc = "store" => Authentic(s.descripts, s.lang, Head(s.todo).kind)'
    BY <2>1, AuthenticStays DEF TextsFit
  <2>3. ASSUME s.pc \in Working PROVE Ordered(s.todo) /\ TextsOf(s.todo, s.descripts, s.lang)'
    <3>1. Ordered(s.todo) /\ TextsOf(s.todo, s.descripts, s.lang)
      BY <2>1, <2>3 DEF TextsFit
    <3>2. s.todo \in Seq(Tasks)
      BY <2>3, NextTask
    <3>3. ASSUME NEW d \in Range(s.todo), d.do = "describe"
          PROVE  /\ d.statuses \subseteq Now'.described[d.kind]
                 /\ IF Head(s.todo).do = "table" THEN d.kind = Head(s.todo).kind
                    ELSE Authentic(s.descripts, s.lang, d.kind)'
      <4>1. d \in Tasks
        BY <3>2, <3>3 DEF Range
      <4>2. d.kind \in TableKinds
        BY <3>3, <4>1 DEF Tasks, Loads
      <4> QED
        BY <3>1, <3>3, <4>2, <1>6, AuthenticStays DEF TextsOf
    <3> QED
      BY <3>1, <3>3 DEF TextsOf
  <2> QED
    BY <2>2, <2>3 DEF TextsFit
<1>8. Explained(s)'
  <2>1. Explained(s)
    BY DEF Remembers
  <2>2. s.error = "KeyError" => s.descripts.kind \in TableKinds
    BY <2>1 DEF Explained, Tables
  <2>3. s.error = "OBJECT_NOT_FOUND" => s.pc # "idle"
    BY NullIsApart DEF Ready, Idle, Errors
  <2>4. s.error = "OBJECT_NOT_FOUND" =>
           Missing(s) \in Belonging(s) /\ DeletedSince(s.began, Missing(s))'
    BY <2>1, <2>3, <1>2 DEF Explained
  <2> QED
    BY <2>1, <2>2, <2>4, <1>6 DEF Explained
<1>9. Gathered(s)
  BY DEF Remembers
<1> QED
  BY <1>3, <1>4, <1>5, <1>7, <1>8, <1>9 DEF Remembers, Gathered

\* A step of a handler keeps the memories if it is right about its own state
\* and the tables.
LEMMA MemoryFrame ==
    ASSUME Good, Memory, NEW l \in Lookups, NEW s, Remembers(s),
           lookup' = [lookup EXCEPT ![l] = s], UNCHANGED history,
           \A key \in Languages \X TableKinds :
               tables'[key] # NULL => Authentic(tables'[key], key[1], key[2])
    PROVE  Memory'
<1>1. \A w \in Lookups : lookup'[w] = IF w = l THEN s ELSE lookup[w]
  BY DEF Good
<1>2. Now' = Now
  BY DEF Now
<1>3. \A table, lang, kind : Authentic(table, lang, kind) => Authentic(table, lang, kind)'
  BY DEF Authentic
<1>4. \A x : Remembers(x) => Remembers(x)'
  <2>1. SUFFICES ASSUME NEW x, Remembers(x) PROVE Remembers(x)'
    OBVIOUS
  <2>2. FoundRemembered(x)' /\ ShownRemembered(x)' /\ PendingRemembered(x)'
    BY <2>1 DEF Remembers, FoundRemembered, ShownRemembered, PendingRemembered, WasSince, ThereSince
  <2>3. Explained(x)'
    BY <2>1, <1>2 DEF Remembers, Explained, DeletedSince
  <2>4. \A todo, table, lang : TextsOf(todo, table, lang) => TextsOf(todo, table, lang)'
    BY <1>2, <1>3 DEF TextsOf
  <2>5. TextsFit(x)'
    BY <2>1, <2>4, <1>3 DEF Remembers, TextsFit
  <2> QED
    BY <2>1, <2>2, <2>3, <2>5 DEF Remembers, Gathered
<1>5. \A w \in Lookups : Remembers(lookup'[w])
  BY <1>1 DEF Memory
<1>6. \A w \in Lookups : Remembers(lookup[w])'
  <2> SUFFICES ASSUME NEW w \in Lookups PROVE Remembers(lookup[w])'
    OBVIOUS
  <2>1. PICK x : x = lookup'[w]
    OBVIOUS
  <2>2. Remembers(x)'
    BY <2>1, <1>4, <1>5
  <2> QED
    BY <2>1, <2>2
<1>7. \A key \in Languages \X TableKinds :
         tables'[key] # NULL => Authentic(tables[key], key[1], key[2])'
  <2> SUFFICES ASSUME NEW key \in Languages \X TableKinds, tables'[key] # NULL
               PROVE  Authentic(tables[key], key[1], key[2])'
    OBVIOUS
  <2>1. PICK table : table = tables'[key]
    OBVIOUS
  <2>2. Authentic(table, key[1], key[2])'
    BY <2>1, <1>3
  <2> QED
    BY <2>1, <2>2
<1> QED
  BY <1>6, <1>7 DEF Memory

\* The steps that leave the tables alone.
LEMMA QuietMemory ==
    ASSUME Good, Memory, NEW l \in Lookups, NEW s, Remembers(s),
           lookup' = [lookup EXCEPT ![l] = s], UNCHANGED <<history, tables>>
    PROVE  Memory'
  BY MemoryFrame DEF Memory

LEMMA IdleRemembers == Remembers(Idle)
<1>1. /\ Idle.pc = "idle" /\ Idle.shown = {} /\ Idle.error = NULL /\ Idle.reply = NULL
  BY DEF Idle
<1> QED
  BY <1>1, NullIsApart
  DEF Remembers, FoundRemembered, ShownRemembered, PendingRemembered, Gathered, TextsFit,
      Explained, Settled, Working, Replies, Errors

LEMMA MemoryInit == Init => Memory
  BY IdleRemembers DEF Init, Memory

\* A handler that has not loaded its object yet.
LEMMA EarlyRemembers ==
    ASSUME NEW s, s.pc \in {"log", "load", "finish"}, s.shown = {}, FoundRemembered(s),
           s.reply = NULL, Explained(s)
    PROVE  Remembers(s)
  BY NullIsApart
  DEF Remembers, ShownRemembered, PendingRemembered, Gathered, TextsFit, Working, Replies

LEMMA BeginMemory ==
    ASSUME Good, Memory, NEW l \in Lookups, NEW view \in Views, NEW handle \in Handles,
           NEW lang \in Languages, Begin(l, view, handle, lang)
    PROVE  Memory'
<1>1. PICK s : s = [Idle EXCEPT !.pc = IF LoggerEnabled THEN "log" ELSE "load",
                                !.view = view, !.handle = handle, !.lang = lang,
                                !.began = Len(history), !.todo = Asked(view)]
  OBVIOUS
<1>2. lookup' = [lookup EXCEPT ![l] = s] /\ UNCHANGED <<history, tables>>
  BY <1>1 DEF Begin
<1>3. /\ s.pc \in {"log", "load"} /\ s.view = view /\ s.todo = Asked(view)
      /\ s.found = [k \in Kinds |-> NULL] /\ s.shown = {} /\ s.error = NULL /\ s.reply = NULL
  BY <1>1 DEF Idle
<1>4. FoundKinds(s.found) = {}
  BY <1>3 DEF FoundKinds
<1>5. FoundRemembered(s)
  BY <1>3, <1>4 DEF FoundRemembered, AskedKinds
<1>6. Explained(s)
  BY <1>3, NullIsApart DEF Explained, Errors
<1>7. Remembers(s)
  BY <1>3, <1>5, <1>6, EarlyRemembers
<1> QED
  BY <1>2, <1>7, QuietMemory

LEMMA PrepareMemory ==
    ASSUME Good, Memory, NEW l \in Lookups, PrepareLoggingRequest(l) PROVE Memory'
<1>1. PICK x, n : x = lookup[l] /\ n = Len(audit')
  OBVIOUS
<1>2. PICK s : s = [x EXCEPT !.pc = "load", !.log_request = n]
  OBVIOUS
<1>3. /\ lookup' = [lookup EXCEPT ![l] = s] /\ UNCHANGED <<history, tables>> /\ x.pc = "log"
  BY <1>1, <1>2 DEF PrepareLoggingRequest, Good
<1>4. x \in LookupStates /\ Ready(x) /\ Remembers(x)
  BY <1>1, StateOf DEF Memory
<1>5. /\ s.pc = "load" /\ s.view = x.view /\ s.handle = x.handle /\ s.began = x.began
      /\ s.todo = x.todo /\ s.found = x.found /\ s.shown = x.shown
      /\ s.error = x.error /\ s.reply = x.reply
  BY <1>2, <1>4 DEF LookupStates
<1>6. x.reply = NULL /\ x.error = NULL
  BY <1>3, <1>4 DEF Ready
<1>7. s.shown = {}
  BY <1>3, <1>4, <1>5 DEF Remembers, Gathered
<1>8. FoundRemembered(s)
  BY <1>3, <1>4, <1>5 DEF Remembers, FoundRemembered
<1>9. Explained(s)
  BY <1>5, <1>6, NullIsApart DEF Explained, Errors
<1>10. Remembers(s)
  BY <1>5, <1>6, <1>7, <1>8, <1>9, EarlyRemembers
<1> QED
  BY <1>3, <1>10, QuietMemory

\* A handler that failed for a reason.
LEMMA FailedRemembers ==
    ASSUME NEW s \in LookupStates, Remembers(s), NEW error \in Errors,
           error = "OBJECT_NOT_FOUND" =>
               Missing(s) \in Belonging(s) /\ DeletedSince(s.began, Missing(s)),
           error = "KeyError" =>
               /\ s.descripts \in Tables
               /\ s.descripts.statuses \subseteq Now.described[s.descripts.kind]
               /\ s.descripts.statuses # Now.described[s.descripts.kind]
    PROVE  Remembers(Failed(s, error))
<1>1. PICK u : u = Failed(s, error)
  OBVIOUS
<1>2. /\ u.pc = "done" /\ u.reply = "server_error" /\ u.error = error
      /\ u.handle = s.handle /\ u.began = s.began /\ u.shown = s.shown
      /\ u.view = s.view /\ u.found = s.found /\ u.todo = s.todo
      /\ u.descripts = s.descripts
  BY <1>1 DEF Failed, LookupStates
<1>3. error # NULL
  BY NullIsApart
<1>4. FoundRemembered(u) /\ PendingRemembered(u) /\ Gathered(u) /\ TextsFit(u)
  BY <1>2, <1>3
  DEF FoundRemembered, PendingRemembered, Gathered, TextsFit, Settled, Working
<1>5. ShownRemembered(u)
  BY <1>2 DEF Remembers, ShownRemembered
<1>6. Explained(u)
  <2>1. Missing(u) = Missing(s) /\ Belonging(u) = Belonging(s)
    BY <1>2 DEF Missing, Belonging
  <2> QED
    BY <2>1, <1>2 DEF Explained
<1> QED
  BY <1>1, <1>4, <1>5, <1>6 DEF Remembers

LEMMA FailedMemory ==
    ASSUME Good, Memory, NEW l \in Lookups,
           NEW error \in {"LoggerError", "CacheError", "COMM_FAILURE"},
           lookup' = [lookup EXCEPT ![l] = Failed(lookup[l], error)],
           UNCHANGED <<history, tables>>
    PROVE  Memory'
<1>1. PICK x, u : x = lookup[l] /\ u = Failed(x, error)
  OBVIOUS
<1>2. x \in LookupStates /\ Remembers(x)
  BY <1>1, StateOf DEF Memory
<1>3. error \in Errors /\ error \notin {"OBJECT_NOT_FOUND", "KeyError"}
  BY DEF Errors
<1>4. Remembers(u)
  BY <1>1, <1>2, <1>3, FailedRemembers
<1> QED
  BY <1>1, <1>4, QuietMemory

LEMMA LoadMemory ==
    ASSUME Good, Memory, NEW l \in Lookups, LoadRegistryObject(l) PROVE Memory'
<1>1. PICK x, kind, r, found, code :
         /\ x = lookup[l] /\ kind = Head(x.todo)
         /\ r = Now.objects[<<kind, x.handle>>]
         /\ found = [x.found EXCEPT ![kind] = r]
         /\ code = IF r # NULL THEN x.server_exception ELSE ExceptionCode(kind, x.handle)
  OBVIOUS
<1>2. PICK todo, pc, resolved :
         /\ todo = Tail(x.todo)
         /\ pc = IF todo = <<>> THEN "finish" ELSE "load"
         /\ resolved = IF todo = <<>> THEN Resolved(x.view, found, code) ELSE code
  <2>1. PICK rest : rest = Tail(x.todo)
    OBVIOUS
  <2>2. PICK p : p = IF rest = <<>> THEN "finish" ELSE "load"
    OBVIOUS
  <2>3. PICK c : c = IF rest = <<>> THEN Resolved(x.view, found, code) ELSE code
    OBVIOUS
  <2> QED
    BY <2>1, <2>2, <2>3
<1>3. PICK u : u = [x EXCEPT !.pc = pc, !.todo = todo, !.found = found,
                             !.server_exception = resolved]
  OBVIOUS
<1>4. /\ lookup' = [lookup EXCEPT ![l] = u] /\ UNCHANGED <<history, tables>> /\ x.pc = "load"
  BY <1>1, <1>2, <1>3 DEF LoadRegistryObject, Good
<1>5. /\ x \in LookupStates /\ Ready(x) /\ Remembers(x) /\ x.began \in 1..Len(history)
  BY <1>1, <1>4, StateOf DEF Memory
<1>6. x.error = NULL /\ x.todo \in Seq(Kinds) /\ x.todo # <<>> /\ x.reply = NULL
  BY <1>4, <1>5 DEF Ready
<1>7. Range(x.todo) = {kind} \cup Range(todo) /\ kind \in Kinds /\ todo \in Seq(Kinds)
  <2>1. /\ DOMAIN x.todo = 1..Len(x.todo) /\ DOMAIN todo = 1..(Len(x.todo) - 1)
        /\ Len(x.todo) \in Nat \ {0} /\ kind = x.todo[1]
        /\ \A i \in DOMAIN todo : todo[i] = x.todo[i + 1]
    BY <1>1, <1>2, <1>6, EmptySeq
  <2>2. \A i \in DOMAIN x.todo : i = 1 \/ (i - 1 \in DOMAIN todo /\ todo[i - 1] = x.todo[i])
    BY <2>1
  <2>3. \A i \in DOMAIN todo : i + 1 \in DOMAIN x.todo /\ todo[i] = x.todo[i + 1]
    BY <2>1
  <2>4. 1 \in DOMAIN x.todo
    BY <2>1
  <2>5. Range(x.todo) = {kind} \cup Range(todo)
    BY <2>1, <2>2, <2>3, <2>4 DEF Range
  <2> QED
    BY <2>5, <1>1, <1>2, <1>6
<1>8. /\ u.pc = pc /\ u.todo = todo /\ u.found = found /\ u.view = x.view
      /\ u.handle = x.handle /\ u.began = x.began /\ u.shown = x.shown
      /\ u.error = x.error /\ u.reply = x.reply
  BY <1>3, <1>5 DEF LookupStates
<1>9. x.found \in [Kinds -> Record \cup {OBJECT_DELETE_CANDIDATE, NULL}]
  BY <1>5 DEF LookupStates
<1>10. found[kind] = r /\ \A k \in Kinds \ {kind} : found[k] = x.found[k]
  BY <1>1, <1>7, <1>9
<1>11. pc \in {"load", "finish"} /\ (pc = "finish" => todo = <<>>)
  BY <1>2
<1>12. /\ FoundKinds(x.found) \cup Range(x.todo) \subseteq AskedKinds(x.view)
       /\ \A k \in AskedKinds(x.view) \ Range(x.todo) :
             WasSince(x.began, <<k, x.handle>>, x.found[k])
  BY <1>4, <1>5 DEF Remembers, FoundRemembered
<1>13. WasSince(x.began, <<kind, x.handle>>, r)
  <2>1. Len(history) \in x.began..Len(history)
    BY <1>5, NowIsAMoment DEF Good
  <2> QED
    BY <2>1, <1>1 DEF WasSince, Now
<1>14. FoundKinds(found) \cup Range(todo) \subseteq AskedKinds(x.view)
  BY <1>7, <1>10, <1>12 DEF FoundKinds
<1>15. AskedKinds(x.view) \subseteq Kinds
  <2>1. x.view \in Views
    BY <1>4, <1>5 DEF Ready
  <2> QED
    BY <2>1, AskedType DEF AskedKinds, Range
<1>16. \A k \in AskedKinds(x.view) \ Range(todo) : WasSince(x.began, <<k, x.handle>>, found[k])
  BY <1>7, <1>10, <1>12, <1>13, <1>15
<1>17. FoundRemembered(u)
  <2>1. (IF u.pc \in {"log", "load"} THEN Range(u.todo) ELSE {}) = Range(todo)
    BY <1>8, <1>11, RangeOfNone
  <2> QED
    BY <2>1, <1>8, <1>14, <1>16 DEF FoundRemembered
<1>18. u.shown = {}
  BY <1>4, <1>5, <1>8 DEF Remembers, Gathered
<1>19. Explained(u)
  BY <1>6, <1>8, NullIsApart DEF Explained, Errors
<1>20. Remembers(u)
  BY <1>6, <1>8, <1>11, <1>17, <1>18, <1>19, EarlyRemembers
<1> QED
  BY <1>4, <1>20, QuietMemory

\* The search for an object is over without one.
LEMMA ToFinallyMemory ==
    ASSUME Good, Memory, NEW l \in Lookups, lookup[l].pc = "load",
           NEW error \in {"AssertionError", "COMM_FAILURE"},
           lookup' = [lookup EXCEPT ![l].pc = "finish", ![l].error = error],
           UNCHANGED <<history, tables>>
    PROVE  Memory'
<1>1. PICK x : x = lookup[l]
  OBVIOUS
<1>2. PICK u : u = [x EXCEPT !.pc = "finish", !.error = error]
  OBVIOUS
<1>3. lookup' = [lookup EXCEPT ![l] = u] /\ x.pc = "load"
  BY <1>1, <1>2 DEF Good
<1>4. x \in LookupStates /\ Ready(x) /\ Remembers(x)
  BY <1>1, StateOf DEF Memory
<1>5. /\ u.pc = "finish" /\ u.error = error /\ u.handle = x.handle /\ u.shown = x.shown
      /\ u.reply = x.reply
  BY <1>2, <1>4 DEF LookupStates
<1>6. error # NULL
  BY NullIsApart DEF Errors
<1>7. FoundRemembered(u)
  BY <1>5, <1>6 DEF FoundRemembered, Settled
<1>8. u.shown = {} /\ u.reply = NULL
  BY <1>3, <1>4, <1>5 DEF Remembers, Gathered, Ready
<1>9. Explained(u)
  BY <1>5 DEF Explained
<1>10. Remembers(u)
  BY <1>5, <1>7, <1>8, <1>9, EarlyRemembers
<1> QED
  BY <1>3, <1>10, QuietMemory

\* A handler that goes on with tasks that fit what it remembers.
LEMMA ContinuedRemembers ==
    ASSUME NEW s, Settled(s), FoundRemembered(s), s.pc \notin {"log", "load"}, ShownRemembered(s),
           NEW todo, NEW u,
           u.todo = todo,
           u.pc = IF todo = <<>> THEN "done" ELSE "related",
           u.reply = IF todo = <<>> THEN Page(s) ELSE NULL,
           u.view = s.view, u.handle = s.handle, u.lang = s.lang, u.began = s.began,
           u.found = s.found, u.shown = s.shown, u.error = s.error,
           \A o \in Pending(todo) : ThereSince(s.began, o),
           todo # <<>> \/ Page(s) = "page" =>
               ShownObjects(s) \cup Pending(todo) = Belonging(s),
           todo # <<>> => Ordered(todo) /\ TextsOf(todo, u.descripts, s.lang)
    PROVE  Remembers(u)
<1>1. s.error = NULL
  BY DEF Settled
<1>2. u.pc \in {"done", "related"} /\ (u.pc = "related" <=> todo # <<>>)
  OBVIOUS
<1>3. FoundRemembered(u)
  BY <1>2 DEF FoundRemembered, Settled, Working
<1>4. ShownRemembered(u)
  BY DEF ShownRemembered
<1>5. PendingRemembered(u)
  BY DEF PendingRemembered
<1>6. ShownObjects(u) = ShownObjects(s) /\ Belonging(u) = Belonging(s)
  BY DEF ShownObjects, Belonging
<1>7. Gathered(u)
  <2>1. ASSUME u.pc \in Working PROVE ShownObjects(u) \cup Pending(u.todo) = Belonging(u)
    BY <2>1, <1>2, <1>6 DEF Working
  <2>2. ASSUME u.reply = "page" PROVE ShownObjects(u) = Belonging(u)
    <3>1. todo = <<>> /\ Page(s) = "page"
      BY <2>2, NullIsApart DEF Replies
    <3>2. Pending(todo) = {}
      BY <3>1, NoLoads
    <3> QED
      BY <3>1, <3>2, <1>6
  <2> QED
    BY <2>1, <2>2, <1>2 DEF Gathered
<1>8. TextsFit(u)
  BY <1>2 DEF TextsFit, Working
<1>9. Explained(u)
  BY <1>1, NullIsApart DEF Explained, Errors
<1> QED
  BY <1>3, <1>4, <1>5, <1>7, <1>8, <1>9 DEF Remembers

\* An object refers to objects that were there when it was.
LEMMA LinksWereThere ==
    ASSUME HistoryGood, NEW began \in Nat \ {0}, NEW o \in Objects, NEW r,
           WasSince(began, o, r)
    PROVE  /\ \A linked \in LinksOf(r) : ThereSince(began, linked)
           /\ o[1] \in TableKinds => StatusesOf(r) \subseteq Now.described[o[1]]
<1>1. PICK t \in began..Len(history) : history[t].objects[o] = r
  BY DEF WasSince
<1>2. t \in DOMAIN history
  BY <1>1, NowIsAMoment
<1>3. Sound(history[t])
  BY <1>2 DEF HistoryGood
<1>4. \A linked \in LinksOf(r) : history[t].objects[linked] # NULL
  BY <1>1, <1>3 DEF Sound
<1>5. o[1] \in TableKinds => StatusesOf(r) \subseteq history[t].described[o[1]]
  BY <1>1, <1>3 DEF Sound
<1>6. o[1] \in TableKinds => history[t].described[o[1]] \subseteq Now.described[o[1]]
  BY <1>2 DEF HistoryGood
<1> QED
  BY <1>1, <1>4, <1>5, <1>6 DEF ThereSince

\* Tasks that begin with the table need no other.
LEMMA BegunFits ==
    ASSUME NEW kind \in TableKinds, NEW statuses, NEW todo, Begun(todo, kind, statuses),
           statuses \subseteq Now.described[kind]
    PROVE  Ordered(todo) /\ todo # <<>> /\ \A table, lang : TextsOf(todo, table, lang)
<1>1. Head(todo).do = "table" /\ Head(todo).kind = kind
  BY DEF Begun, TableTask
<1>2. ASSUME NEW d \in Range(todo), d.do = "describe"
      PROVE  d.statuses \subseteq Now.described[d.kind] /\ d.kind = kind
  <2>1. d = DescribeTask(kind, statuses)
    BY <1>2 DEF Begun
  <2> QED
    BY <2>1 DEF DescribeTask
<1> QED
  BY <1>1, <1>2 DEF Begun, TextsOf

LEMMA FinishMemory ==
    ASSUME Good, Memory, NEW l \in Lookups, Finish(l) PROVE Memory'
<1>1. PICK x, todo : x = lookup[l] /\ todo = RelatedOf(x)
  OBVIOUS
<1>2. PICK u : u = IF x.error # NULL THEN Failed(x, x.error) ELSE Continued(x, todo)
  OBVIOUS
<1>3. lookup' = [lookup EXCEPT ![l] = u] /\ UNCHANGED <<history, tables>> /\ x.pc = "finish"
  BY <1>1, <1>2 DEF Finish, Good
<1>4. /\ x \in LookupStates /\ Ready(x) /\ Remembers(x) /\ x.began \in Nat \ {0}
      /\ x.error \in Errors \cup {NULL}
  <2>1. x.began \in 1..Len(history)
    BY <1>1, <1>3, StateOf
  <2> QED
    BY <2>1, <1>1, StateOf, NowIsAMoment DEF Memory, LookupStates, Good
<1>5. CASE x.error # NULL
  <2>1. x.error \in Errors /\ u = Failed(x, x.error)
    BY <1>2, <1>4, <1>5
  <2>2. Remembers(u)
    BY <2>1, <1>4, FailedRemembers DEF Remembers, Explained
  <2> QED
    BY <2>2, <1>3, QuietMemory
<1>6. CASE x.error = NULL
  <2>1. Settled(x) /\ Answerable(x)
    BY <1>3, <1>4, <1>6 DEF Settled, Ready
  <2>2. /\ x.view \in Views /\ x.handle \in Handles
        /\ \A k \in Kinds : x.found[k] \in Records[<<k, x.handle>>] \cup {NULL}
    BY <1>3, <1>4 DEF Ready
  <2>3. PICK y : y = Page(x)
    OBVIOUS
  <2>4. /\ u.todo = todo
        /\ u.pc = IF todo = <<>> THEN "done" ELSE "related"
        /\ u.reply = IF todo = <<>> THEN y ELSE NULL
        /\ u.view = x.view /\ u.handle = x.handle /\ u.lang = x.lang /\ u.began = x.began
        /\ u.found = x.found /\ u.shown = x.shown /\ u.error = x.error
        /\ u.descripts = x.descripts
    BY <1>2, <1>4, <1>6, <2>3 DEF Continued, LookupStates
  <2>5. x.shown = {} /\ FoundRemembered(x) /\ ShownRemembered(x)
    BY <1>3, <1>4 DEF Remembers, Gathered
  <2>6. ShownObjects(x) = {}
        /\ (x.view \in Kinds => Belonging(x) = Own(x.view, x.found[x.view]))
    BY <2>5 DEF ShownObjects, Belonging, Own
  <2>7. CASE todo = <<>> /\ (x.view # "multiple" /\ x.found[x.view] # NULL =>
                                x.view = "registrar" /\ LinksOf(x.found[x.view]) = {})
    <3>1. Pending(todo) = {}
      BY <2>7, NoLoads
    <3>2. ASSUME Page(x) = "page" PROVE Belonging(x) = {}
      <4>1. FoundKinds(x.found) = {x.view}
        BY <2>1, <3>2, PageTells
      <4>2. x.view \in Kinds /\ x.found[x.view] # NULL
        BY <4>1 DEF FoundKinds
      <4>3. x.view # "multiple"
        BY <4>2 DEF Kinds
      <4> QED
        BY <4>2, <4>3, <2>6, <2>7 DEF Own
    <3>3. u.reply = IF todo = <<>> THEN Page(x) ELSE NULL
      BY <2>3, <2>4
    <3>4. ShownObjects(x) \cup Pending(todo) = {}
      BY <3>1, <2>6
    <3>5. x.pc \notin {"log", "load"}
      BY <1>3
    <3>6. Remembers(u)
      BY <3>1, <3>2, <3>3, <3>4, <3>5, <2>1, <2>4, <2>5, <2>7, ContinuedRemembers
    <3> QED
      BY <3>6, <1>3, QuietMemory
  <2>8. CASE /\ x.view \in TableKinds /\ x.view \in FoundKinds(x.found)
             /\ FitsKind(x.view, x.found[x.view])
             /\ Begun(RelatedOf(x), x.view, StatusesOf(x.found[x.view]))
             /\ Pending(RelatedOf(x)) = Own(x.view, x.found[x.view])
    <3>1. PICK kind, r, o : kind = x.view /\ r = x.found[x.view] /\ o = <<kind, x.handle>>
      OBVIOUS
    <3>2. kind \in Kinds /\ kind # "multiple" /\ kind \in TableKinds /\ o \in Objects
          /\ o[1] = kind
      BY <2>2, <2>8, <3>1 DEF TableKinds, Kinds, Objects
    <3>3. kind \in AskedKinds(x.view)
      BY <3>1, <3>2, RangeOfOne DEF AskedKinds, Asked
    <3>4. WasSince(x.began, o, r)
      BY <3>1, <3>3, <2>1, <2>5, <1>3 DEF FoundRemembered
    <3>5. /\ \A linked \in LinksOf(r) : ThereSince(x.began, linked)
          /\ StatusesOf(r) \subseteq Now.described[kind]
      BY <3>2, <3>4, <1>4, LinksWereThere DEF Good
    <3>6. Begun(todo, kind, StatusesOf(r)) /\ Pending(todo) = Own(kind, r)
      BY <1>1, <2>8, <3>1
    <3>7. Ordered(todo) /\ todo # <<>> /\ TextsOf(todo, u.descripts, x.lang)
      BY <3>2, <3>5, <3>6, BegunFits
    <3>8. \A linked \in Pending(todo) : ThereSince(x.began, linked)
      BY <3>5, <3>6 DEF Own
    <3>9. ShownObjects(x) \cup Pending(todo) = Belonging(x)
      BY <2>6, <3>1, <3>2, <3>6
    <3>10. Remembers(u)
      BY <3>7, <3>8, <3>9, <2>1, <2>3, <2>4, <2>5, <1>3, ContinuedRemembers
    <3> QED
      BY <3>10, <1>3, QuietMemory
  <2> QED
    BY <2>2, <2>7, <2>8, <1>1, RelatedOfGood
<1> QED
  BY <1>5, <1>6

\* What a handler at work remembers.
LEMMA AtWork ==
    ASSUME NEW s \in LookupStates, Ready(s), Remembers(s), s.pc \in Working
    PROVE  /\ Settled(s) /\ FoundRemembered(s) /\ ShownRemembered(s)
           /\ s.pc \notin {"log", "load", "idle", "done"} /\ s.error = NULL
           /\ s.todo \in Seq(Tasks) /\ s.todo # <<>>
           /\ \A o \in Pending(s.todo) : ThereSince(s.began, o)
           /\ ShownObjects(s) \cup Pending(s.todo) = Belonging(s)
           /\ Ordered(s.todo) /\ TextsOf(s.todo, s.descripts, s.lang)
<1>1. s.error = NULL /\ s.todo \in Seq(Tasks) /\ s.todo # <<>>
  BY DEF Ready
<1>2. /\ FoundRemembered(s) /\ ShownRemembered(s) /\ PendingRemembered(s) /\ Gathered(s)
      /\ TextsFit(s)
  BY DEF Remembers
<1> QED
  BY <1>1, <1>2 DEF Settled, Working, PendingRemembered, Gathered, TextsFit

\* The task that needs no loading is done: the others still fit, with a table
\* of the kind.
LEMMA RestFits ==
    ASSUME NEW todo \in Seq(Tasks), todo # <<>>, Ordered(todo),
           NEW old, NEW table, NEW lang, TextsOf(todo, old, lang),
           IF Head(todo).do = "table" THEN Authentic(table, lang, Head(todo).kind)
           ELSE table = old
    PROVE  /\ Ordered(Tail(todo)) /\ TextsOf(Tail(todo), table, lang)
           /\ Head(todo).do # "load" => Pending(Tail(todo)) = Pending(todo)
           /\ Head(todo).do = "load" =>
                 Pending(todo) = Pending(Tail(todo)) \cup {<<Head(todo).kind, Head(todo).handle>>}
<1>1. PICK first, rest : first = Head(todo) /\ rest = Tail(todo)
  OBVIOUS
<1>2. /\ first \in Tasks /\ rest \in Seq(Tasks) /\ Range(todo) = {first} \cup Range(rest)
      /\ Pending(todo) = Pending(rest) \cup {<<t.kind, t.handle>> : t \in {first} \cap Loads}
  BY <1>1, TodoTail
<1>3. Ordered(rest) /\ \A t \in Range(rest) : t.do # "table"
  BY <1>1, OrderedTail
<1>4. rest # <<>> => Head(rest) \in Range(rest)
  BY <1>2, TodoTail
<1>5. ASSUME NEW d \in Range(rest), d.do = "describe"
      PROVE  /\ d.statuses \subseteq Now.described[d.kind]
             /\ Head(rest).do # "table" /\ Authentic(table, lang, d.kind)
  <2>1. rest # <<>>
    BY <1>5, RangeOfNone
  <2>2. Head(rest).do # "table"
    BY <2>1, <1>3, <1>4
  <2>3. d.statuses \subseteq Now.described[d.kind] /\
        IF first.do = "table" THEN d.kind = first.kind ELSE Authentic(old, lang, d.kind)
    BY <1>1, <1>2, <1>5 DEF TextsOf
  <2> QED
    BY <2>2, <2>3, <1>1
<1>6. TextsOf(rest, table, lang)
  BY <1>5 DEF TextsOf
<1>7. first.do = "load" <=> first \in Loads
  BY <1>2, TaskKinds
<1>8. first.do # "load" => Pending(rest) = Pending(todo)
  BY <1>2, <1>7
<1>9. first.do = "load" => Pending(todo) = Pending(rest) \cup {<<first.kind, first.handle>>}
  BY <1>2, <1>7
<1> QED
  BY <1>1, <1>3, <1>6, <1>8, <1>9

\* The fields of a handler that goes on.
LEMMA ContinuedFields ==
    ASSUME NEW s \in LookupStates, NEW todo, NEW u, u = Continued(s, todo)
    PROVE  /\ u.todo = todo
           /\ u.pc = IF todo = <<>> THEN "done" ELSE "related"
           /\ u.reply = IF todo = <<>> THEN Page(s) ELSE NULL
           /\ u.view = s.view /\ u.handle = s.handle /\ u.lang = s.lang
           /\ u.began = s.began /\ u.found = s.found /\ u.shown = s.shown
           /\ u.error = s.error /\ u.descripts = s.descripts
<1>1. PICK page : page = Page(s)
  OBVIOUS
<1>2. u =
        [s EXCEPT !.todo = todo, !.pc = IF todo = <<>> THEN "done" ELSE "related",
                  !.reply = IF todo = <<>> THEN page ELSE NULL]
  BY <1>1 DEF Continued
<1> QED
  BY <1>1, <1>2 DEF LookupStates

\* The table or the texts are got.
LEMMA ToRest ==
    ASSUME NEW s \in LookupStates, Ready(s), Remembers(s), s.pc \in Working,
           Head(s.todo).do # "load",
           NEW u, NEW table,
           IF Head(s.todo).do = "table" THEN Authentic(table, s.lang, Head(s.todo).kind)
           ELSE table = s.descripts,
           u = [Continued(s, Tail(s.todo)) EXCEPT !.descripts = table]
    PROVE  Remembers(u)
<1>1. PICK c, todo : todo = Tail(s.todo) /\ c = Continued(s, todo)
  OBVIOUS
<1>2. /\ c.todo = todo
      /\ c.pc = IF todo = <<>> THEN "done" ELSE "related"
      /\ c.reply = IF todo = <<>> THEN Page(s) ELSE NULL
      /\ c.view = s.view /\ c.handle = s.handle /\ c.lang = s.lang /\ c.began = s.began
      /\ c.found = s.found /\ c.shown = s.shown /\ c.error = s.error
  <2>1. c = Continued(s, todo)
    BY <1>1
  <2> QED
    BY ONLY <2>1, s \in LookupStates, ContinuedFields
<1>3. u.descripts = table
  <2>1. "descripts" \in DOMAIN c
    BY <1>1 DEF Continued, LookupStates
  <2> QED
    BY <2>1, <1>1
<1>4. /\ u.todo = todo
      /\ u.pc = IF todo = <<>> THEN "done" ELSE "related"
      /\ u.reply = IF todo = <<>> THEN Page(s) ELSE NULL
      /\ u.view = s.view /\ u.handle = s.handle /\ u.lang = s.lang /\ u.began = s.began
      /\ u.found = s.found /\ u.shown = s.shown /\ u.error = s.error
  BY <1>1, <1>2
<1>5. /\ Settled(s) /\ FoundRemembered(s) /\ ShownRemembered(s)
      /\ s.pc \notin {"log", "load"}
      /\ s.todo \in Seq(Tasks) /\ s.todo # <<>>
      /\ \A o \in Pending(s.todo) : ThereSince(s.began, o)
      /\ ShownObjects(s) \cup Pending(s.todo) = Belonging(s)
      /\ Ordered(s.todo) /\ TextsOf(s.todo, s.descripts, s.lang)
  BY AtWork
<1>6. Ordered(todo) /\ TextsOf(todo, table, s.lang) /\ Pending(todo) = Pending(s.todo)
  BY <1>1, <1>5, RestFits
<1>7. ShownObjects(s) \cup Pending(todo) = Belonging(s)
  BY <1>5, <1>6
<1>8. \A o \in Pending(todo) : ThereSince(s.began, o)
  BY <1>5, <1>6
<1>9. TextsOf(todo, u.descripts, s.lang)
  BY <1>3, <1>6
<1>10. Settled(s) /\ FoundRemembered(s) /\ ShownRemembered(s) /\ s.pc \notin {"log", "load"}
  BY <1>5
<1> QED
  BY <1>4, <1>6, <1>7, <1>8, <1>9, <1>10, ContinuedRemembers

LEMMA GetDescriptionsMemory ==
    ASSUME Good, Memory, NEW l \in Lookups, GetDescriptions(l) PROVE Memory'
<1>1. PICK x, key : x = lookup[l] /\ key = <<x.lang, Head(x.todo).kind>>
  OBVIOUS
<1>2. PICK table : table = tables[key]
  OBVIOUS
<1>3. PICK u : u = [Continued(x, Tail(x.todo)) EXCEPT !.descripts = table]
  OBVIOUS
<1>4. /\ x.pc \in Working /\ Head(x.todo).do = "table" /\ table # NULL
      /\ lookup' = [lookup EXCEPT ![l] = u] /\ UNCHANGED <<history, tables>>
  BY <1>1, <1>2, <1>3 DEF GetDescriptions, Doing, Task, Rest, CacheKey, Working
<1>5. x \in LookupStates /\ Ready(x) /\ Remembers(x)
  BY <1>1, StateOf DEF Memory
<1>6. key \in Languages \X TableKinds /\ key[1] = x.lang /\ key[2] = Head(x.todo).kind
  BY <1>1, <1>4, <1>5, NextTask
<1>7. Authentic(table, x.lang, Head(x.todo).kind)
  BY <1>2, <1>4, <1>6 DEF Memory
<1>8. Remembers(u)
  BY <1>3, <1>4, <1>5, <1>7, ToRest
<1> QED
  BY <1>4, <1>8, QuietMemory

\* A handler at work that got no further than another call.
LEMMA SameRemembers ==
    ASSUME NEW s \in LookupStates, Ready(s), Remembers(s), s.pc \in Working,
           Head(s.todo).do = "table",
           NEW u, u.pc \in Working, u.todo = s.todo, u.view = s.view, u.handle = s.handle,
           u.lang = s.lang, u.began = s.began, u.found = s.found, u.shown = s.shown,
           u.error = s.error, u.reply = s.reply,
           u.pc = "store" => Authentic(u.descripts, u.lang, Head(u.todo).kind)
    PROVE  Remembers(u)
<1>1. /\ Settled(s) /\ FoundRemembered(s) /\ ShownRemembered(s) /\ s.error = NULL
      /\ s.pc \notin {"log", "load", "idle", "done"}
      /\ \A o \in Pending(s.todo) : ThereSince(s.began, o)
      /\ ShownObjects(s) \cup Pending(s.todo) = Belonging(s)
      /\ Ordered(s.todo) /\ TextsOf(s.todo, s.descripts, s.lang)
  BY AtWork
<1>2. s.reply = NULL
  BY <1>1 DEF Ready
<1>3. FoundRemembered(u)
  BY <1>1 DEF FoundRemembered, Settled, Working
<1>4. ShownRemembered(u) /\ PendingRemembered(u)
  BY <1>1 DEF ShownRemembered, PendingRemembered
<1>5. Gathered(u)
  <2>1. ShownObjects(u) = ShownObjects(s) /\ Belonging(u) = Belonging(s)
    BY DEF ShownObjects, Belonging
  <2> QED
    BY <2>1, <1>1, <1>2, NullIsApart DEF Gathered, Working, Replies
<1>6. TextsOf(u.todo, u.descripts, u.lang)
  BY <1>1 DEF TextsOf
<1>7. TextsFit(u)
  BY <1>1, <1>6 DEF TextsFit
<1>8. Explained(u)
  BY <1>1, NullIsApart DEF Explained, Errors
<1> QED
  BY <1>3, <1>4, <1>5, <1>7, <1>8 DEF Remembers

LEMMA DescriptionsMissingMemory ==
    ASSUME Good, Memory, NEW l \in Lookups, DescriptionsMissing(l) PROVE Memory'
<1>1. PICK x : x = lookup[l]
  OBVIOUS
<1>2. PICK u : u = [x EXCEPT !.pc = "fetch"]
  OBVIOUS
<1>3. /\ lookup' = [lookup EXCEPT ![l] = u] /\ UNCHANGED <<history, tables>>
      /\ x.pc \in Working /\ Head(x.todo).do = "table"
  BY <1>1, <1>2 DEF DescriptionsMissing, Doing, Task, Working, Good
<1>4. x \in LookupStates /\ Ready(x) /\ Remembers(x)
  BY <1>1, StateOf DEF Memory
<1>5. /\ u.pc = "fetch" /\ u.todo = x.todo /\ u.view = x.view /\ u.handle = x.handle
      /\ u.lang = x.lang /\ u.began = x.began /\ u.found = x.found /\ u.shown = x.shown
      /\ u.error = x.error /\ u.reply = x.reply
  BY <1>2, <1>4 DEF LookupStates
<1>6. u.pc \in Working /\ u.pc # "store"
  BY <1>5 DEF Working
<1>7. Remembers(u)
  BY <1>3, <1>4, <1>5, <1>6, SameRemembers
<1> QED
  BY <1>3, <1>7, QuietMemory

LEMMA FetchDescriptionsMemory ==
    ASSUME Good, Memory, NEW l \in Lookups, FetchDescriptions(l) PROVE Memory'
<1>1. PICK x, kind : x = lookup[l] /\ kind = Head(x.todo).kind
  OBVIOUS
<1>2. PICK table :
         table = [lang |-> x.lang, kind |-> kind, statuses |-> Now.described[kind]]
  OBVIOUS
<1>3. PICK u : u = [x EXCEPT !.pc = "store", !.descripts = table]
  OBVIOUS
<1>4. /\ x.pc = "fetch" /\ UNCHANGED <<history, tables>> /\ lookup' = [lookup EXCEPT ![l] = u]
  BY <1>1, <1>2, <1>3 DEF FetchDescriptions, Task, Good
<1>5. x \in LookupStates /\ Ready(x) /\ Remembers(x) /\ x.pc \in Working
  BY <1>1, <1>4, StateOf DEF Memory, Working
<1>6. Head(x.todo).do = "table" /\ kind \in TableKinds /\ x.lang \in Languages
  <2>1. Head(x.todo).do = "table"
    BY <1>4, <1>5 DEF Ready
  <2> QED
    BY <2>1, <1>1, <1>5, NextTask
<1>7. /\ u.pc = "store" /\ u.todo = x.todo /\ u.view = x.view /\ u.handle = x.handle
      /\ u.lang = x.lang /\ u.began = x.began /\ u.found = x.found /\ u.shown = x.shown
      /\ u.error = x.error /\ u.reply = x.reply /\ u.descripts = table
  BY <1>3, <1>5 DEF LookupStates
<1>8. Authentic(table, x.lang, kind)
  <2>1. Now \in Moments /\ Len(history) \in DOMAIN history
    BY NowIsAMoment DEF Good
  <2>2. table \in Tables
    BY <2>1, <1>2, <1>6 DEF Moments, Tables
  <2>3. history[Len(history)].described[kind] = table.statuses
    BY <1>2 DEF Now
  <2> QED
    BY <2>1, <2>2, <2>3, <1>2 DEF Authentic
<1>9. u.pc \in Working
  BY <1>7 DEF Working
<1>10. Remembers(u)
  BY <1>1, <1>5, <1>6, <1>7, <1>8, <1>9, SameRemembers
<1> QED
  BY <1>4, <1>10, QuietMemory

LEMMA StoreDescriptionsMemory ==
    ASSUME Good, Memory, NEW l \in Lookups, StoreDescriptions(l) PROVE Memory'
<1>1. PICK x, key : x = lookup[l] /\ key = <<x.lang, Head(x.todo).kind>>
  OBVIOUS
<1>2. PICK u, table : table = x.descripts /\ u = Continued(x, Tail(x.todo))
  OBVIOUS
<1>3. /\ x.pc = "store" /\ UNCHANGED history
      /\ tables' = [tables EXCEPT ![key] = table]
      /\ lookup' = [lookup EXCEPT ![l] = u]
  BY <1>1, <1>2 DEF StoreDescriptions, Task, Rest, CacheKey, Good
<1>4. x \in LookupStates /\ Ready(x) /\ Remembers(x) /\ x.pc \in Working
  BY <1>1, <1>3, StateOf DEF Memory, Working
<1>5. Head(x.todo).do = "table"
  BY <1>3, <1>4 DEF Ready
<1>6. Authentic(table, x.lang, Head(x.todo).kind)
  BY <1>2, <1>3, <1>4 DEF Remembers, TextsFit
<1>7. u = [u EXCEPT !.descripts = table]
  BY <1>2, <1>4 DEF Continued, LookupStates
<1>8. Remembers(u)
  BY <1>2, <1>4, <1>5, <1>6, <1>7, ToRest
<1>9. ASSUME NEW k \in Languages \X TableKinds, tables'[k] # NULL
      PROVE  Authentic(tables'[k], k[1], k[2])
  <2>1. CASE k = key
    <3>1. tables'[k] = table /\ k[1] = x.lang /\ k[2] = Head(x.todo).kind
      BY <2>1, <1>1, <1>3, <1>9 DEF Good
    <3> QED
      BY <3>1, <1>6
  <2>2. CASE k # key
    BY <2>2, <1>3, <1>9 DEF Good, Memory
  <2> QED
    BY <2>1, <2>2
<1> QED
  BY <1>3, <1>8, <1>9, MemoryFrame

\* A cache that fails has stored the table of the handler, or nothing.
LEMMA CacheFailsMemory ==
    ASSUME Good, Memory, NEW l \in Lookups, CacheFails(l) PROVE Memory'
<1>1. CASE tables' = tables
  BY <1>1, FailedMemory DEF CacheFails
<1>2. CASE tables' # tables
  <2>1. PICK x, key : x = lookup[l] /\ key = <<x.lang, Head(x.todo).kind>>
    OBVIOUS
  <2>2. PICK u, table : table = x.descripts /\ u = Failed(x, "CacheError")
    OBVIOUS
  <2>3. /\ x.pc = "store" /\ UNCHANGED history
        /\ tables' = [tables EXCEPT ![key] = table]
        /\ lookup' = [lookup EXCEPT ![l] = u]
    BY <1>2, <2>1, <2>2 DEF CacheFails, Task, CacheKey
  <2>4. x \in LookupStates /\ Remembers(x)
    BY <2>1, StateOf DEF Memory
  <2>5. Authentic(table, x.lang, Head(x.todo).kind)
    BY <2>2, <2>3, <2>4 DEF Remembers, TextsFit
  <2>6. "CacheError" \in Errors
    BY DEF Errors
  <2>7. Remembers(u)
    BY <2>2, <2>4, <2>6, FailedRemembers
  <2>8. ASSUME NEW k \in Languages \X TableKinds, tables'[k] # NULL
        PROVE  Authentic(tables'[k], k[1], k[2])
    <3>1. CASE k = key
      <4>1. tables'[k] = table /\ k[1] = x.lang /\ k[2] = Head(x.todo).kind
        BY <3>1, <2>1, <2>3, <2>8 DEF Good
      <4> QED
        BY <4>1, <2>5
    <3>2. CASE k # key
      BY <3>2, <2>3, <2>8 DEF Good, Memory
    <3> QED
      BY <3>1, <3>2
  <2> QED
    BY <2>3, <2>7, <2>8, MemoryFrame
<1> QED
  BY <1>1, <1>2

LEMMA DescribeMemory ==
    ASSUME Good, Memory, NEW l \in Lookups, DescribeStatuses(l) PROVE Memory'
<1>1. PICK x, first : x = lookup[l] /\ first = Head(x.todo)
  OBVIOUS
<1>2. /\ lookup' = [lookup EXCEPT ![l] =
               IF first.statuses \subseteq x.descripts.statuses
               THEN Continued(x, Tail(x.todo)) ELSE Failed(x, "KeyError")]
      /\ UNCHANGED <<history, tables>> /\ x.pc \in Working /\ first.do = "describe"
  BY <1>1 DEF DescribeStatuses, Doing, Task, Rest, Working, Good
<1>3. x \in LookupStates /\ Ready(x) /\ Remembers(x)
  BY <1>1, StateOf DEF Memory
<1>4. CASE first.statuses \subseteq x.descripts.statuses
  <2>1. PICK u, table : u = Continued(x, Tail(x.todo)) /\ table = x.descripts
    OBVIOUS
  <2>2. lookup' = [lookup EXCEPT ![l] = u]
    BY <2>1, <1>2, <1>4
  <2>3. u = [u EXCEPT !.descripts = table]
    BY <2>1, <1>3 DEF Continued, LookupStates
  <2>4. Remembers(u)
    BY <2>1, <2>3, <1>1, <1>2, <1>3, ToRest
  <2> QED
    BY <2>2, <2>4, <1>2, QuietMemory
<1>5. CASE ~(first.statuses \subseteq x.descripts.statuses)
  <2>1. PICK u : u = Failed(x, "KeyError")
    OBVIOUS
  <2>2. lookup' = [lookup EXCEPT ![l] = u]
    BY <2>1, <1>2, <1>5
  <2>3. x.todo \in Seq(Tasks) /\ x.todo # <<>> /\ TextsOf(x.todo, x.descripts, x.lang)
    BY <1>2, <1>3, AtWork
  <2>4. first \in Range(x.todo) /\ first.kind \in TableKinds
    BY <2>3, <1>1, <1>2, <1>3, TodoTail, NextTask
  <2>5. /\ first.statuses \subseteq Now.described[first.kind]
        /\ Authentic(x.descripts, x.lang, first.kind)
    BY <2>3, <2>4, <1>1, <1>2 DEF TextsOf
  <2>6. /\ x.descripts \in Tables /\ x.descripts.kind = first.kind
        /\ x.descripts.statuses \subseteq Now.described[first.kind]
    BY <2>4, <2>5 DEF Authentic, Good, HistoryGood
  <2>7. x.descripts.statuses # Now.described[x.descripts.kind]
    BY <2>5, <2>6, <1>5
  <2>8. "KeyError" \in Errors
    BY DEF Errors
  <2>9. Remembers(u)
    BY <2>1, <2>6, <2>7, <2>8, <1>3, FailedRemembers
  <2> QED
    BY <2>2, <2>9, <1>2, QuietMemory
<1> QED
  BY <1>4, <1>5

\* The object referred to is gone: it was deleted meanwhile.
LEMMA LostMemory ==
    ASSUME Good, Memory, NEW l \in Lookups, LoadRelated(l),
           Now.objects[<<Task(l).kind, Task(l).handle>>] = NULL
    PROVE  Memory'
<1>1. PICK x, o : x = lookup[l] /\ o = <<Head(x.todo).kind, Head(x.todo).handle>>
  OBVIOUS
<1>2. PICK u : u = Failed(x, "OBJECT_NOT_FOUND")
  OBVIOUS
<1>3. /\ lookup' = [lookup EXCEPT ![l] = u] /\ UNCHANGED <<history, tables>>
      /\ x.pc \in Working /\ Head(x.todo).do = "load" /\ Now.objects[o] = NULL
  BY <1>1, <1>2 DEF LoadRelated, Doing, Task, Working
<1>4. x \in LookupStates /\ Ready(x) /\ Remembers(x)
  BY <1>1, StateOf DEF Memory
<1>5. /\ x.todo \in Seq(Tasks) /\ x.todo # <<>>
      /\ \A linked \in Pending(x.todo) : ThereSince(x.began, linked)
      /\ Ordered(x.todo) /\ TextsOf(x.todo, x.descripts, x.lang)
  BY <1>3, <1>4, AtWork
<1>6. o \in Pending(x.todo)
  BY <1>1, <1>3, <1>5, RestFits
<1>7. PICK t \in x.began..Len(history) : history[t].objects[o] # NULL
  BY <1>5, <1>6 DEF ThereSince
<1>8. t # Len(history) /\ history[Len(history)].objects[o] = NULL
  BY <1>3, <1>7 DEF Now
<1>9. Missing(x) \in Belonging(x) /\ DeletedSince(x.began, Missing(x))
  <2>1. x.began \in Nat /\ Len(history) \in Nat
    BY <1>4, NowIsAMoment DEF LookupStates, Good
  <2>2. Len(history) \in x.began..Len(history) /\ t < Len(history)
    BY <2>1, <1>7, <1>8
  <2>3. Missing(x) = o
    BY <1>1 DEF Missing
  <2>4. o \in Belonging(x)
    BY <1>3, <1>4, <1>6, AtWork
  <2> QED
    BY <2>2, <2>3, <2>4, <1>7, <1>8 DEF DeletedSince
<1>10. "OBJECT_NOT_FOUND" \in Errors
  BY DEF Errors
<1>11. Remembers(u)
  BY <1>2, <1>4, <1>9, <1>10, FailedRemembers
<1> QED
  BY <1>3, <1>11, QuietMemory

\* What the objects shown, contacts aside, refer to themselves.
Further(shown) == UNION {LinksOf(x[2]) : x \in {y \in shown : y[1][1] # "contact"}}

LEMMA FurtherGrows ==
    ASSUME NEW shown, NEW o, NEW r
    PROVE  Further(shown \cup {<<o, r>>}) =
              Further(shown) \cup (IF o[1] # "contact" THEN LinksOf(r) ELSE {})
<1>1. PICK e, links : e = <<o, r>> /\ links = LinksOf(r)
  OBVIOUS
<1>2. e[1] = o /\ LinksOf(e[2]) = links
  BY <1>1
<1>3. PICK A : A = {y \in shown : y[1][1] # "contact"}
  OBVIOUS
<1>4. PICK S : S = {LinksOf(x[2]) : x \in A}
  OBVIOUS
<1>5. Further(shown) = UNION S
  BY <1>3, <1>4 DEF Further
<1>6. CASE o[1] # "contact"
  <2>1. {y \in shown \cup {e} : y[1][1] # "contact"} = A \cup {e}
    BY <1>2, <1>3, <1>6
  <2>2. {LinksOf(x[2]) : x \in A \cup {e}} = S \cup {links}
    BY <1>2, <1>4
  <2>3. Further(shown \cup {e}) = UNION (S \cup {links})
    BY <2>1, <2>2 DEF Further
  <2>4. UNION (S \cup {links}) = (UNION S) \cup links
    OBVIOUS
  <2> QED
    BY <2>3, <2>4, <1>1, <1>5, <1>6
<1>7. CASE o[1] = "contact"
  <2>1. {y \in shown \cup {e} : y[1][1] # "contact"} = A
    BY <1>2, <1>3, <1>7
  <2>2. Further(shown \cup {e}) = UNION S
    BY <2>1, <1>4 DEF Further
  <2> QED
    BY <2>2, <1>1, <1>5, <1>7
<1> QED
  BY <1>6, <1>7

\* What belongs to the page, with one more object on it.
LEMMA BelongingGrows ==
    ASSUME NEW s, NEW c, NEW o, NEW r, c.view = s.view, c.found = s.found,
           c.shown = s.shown \cup {<<o, r>>}, Belonging(s) # {}
    PROVE  /\ ShownObjects(c) = ShownObjects(s) \cup {o}
           /\ Belonging(c) = Belonging(s) \cup (IF o[1] # "contact" THEN LinksOf(r) ELSE {})
<1>1. ShownObjects(c) = ShownObjects(s) \cup {o}
  <2>1. \A y : y \in c.shown <=> y \in s.shown \/ y = <<o, r>>
    OBVIOUS
  <2>2. <<o, r>>[1] = o
    OBVIOUS
  <2> QED
    BY <2>1, <2>2 DEF ShownObjects
<1>2. PICK base : base = LinksOf(s.found[s.view])
  OBVIOUS
<1>3. Belonging(s) = base \cup Further(s.shown)
  BY <1>2 DEF Belonging, Further
<1>4. Belonging(c) = base \cup Further(c.shown)
  BY <1>2 DEF Belonging, Further
<1>5. Further(c.shown) = Further(s.shown) \cup (IF o[1] # "contact" THEN LinksOf(r) ELSE {})
  <2>1. PICK old, new : old = s.shown /\ new = old \cup {<<o, r>>}
    OBVIOUS
  <2>2. Further(new) = Further(old) \cup (IF o[1] # "contact" THEN LinksOf(r) ELSE {})
    BY <2>1, FurtherGrows, Zenon
  <2> QED
    BY <2>1, <2>2
<1> QED
  BY <1>1, <1>3, <1>4, <1>5

\* The tasks after an object was loaded, its own first.
LEMMA MoreTasksFit ==
    ASSUME NEW todo \in Seq(Tasks), todo # <<>>, Ordered(todo), Head(todo).do = "load",
           Head(todo).kind \in Kinds \ {"domain"},
           NEW table, NEW lang, TextsOf(todo, table, lang),
           NEW r, FitsKind(Head(todo).kind, r),
           Head(todo).kind \in TableKinds => StatusesOf(r) \subseteq Now.described[Head(todo).kind]
    PROVE  LET kind == Head(todo).kind
               more == MoreTasks(kind, r, Tail(todo))
           IN  /\ more # <<>> => Ordered(more) /\ TextsOf(more, table, lang)
               /\ Pending(more) =
                     Pending(Tail(todo)) \cup (IF kind # "contact" THEN LinksOf(r) ELSE {})
<1>1. PICK kind, rest, more : /\ kind = Head(todo).kind /\ rest = Tail(todo)
                              /\ more = MoreTasks(kind, r, rest)
  <2>1. PICK k, t : k = Head(todo).kind /\ t = Tail(todo)
    OBVIOUS
  <2> QED
    BY <2>1
<1>2. rest \in Seq(Tasks) /\ kind \in Kinds \ {"domain"} /\ FitsKind(kind, r)
  BY <1>1, TodoTail
<1>3. CASE kind \in {"nsset", "keyset"}
  <2>1. kind \in TableKinds
    BY <1>3 DEF TableKinds, Kinds
  <2>2. OnlyLoads(rest)
    BY <1>1, <1>3, OrderedTail
  <2>3. PICK first : first = SetTasks(kind, r)
    OBVIOUS
  <2>4. Begun(first, kind, StatusesOf(r)) /\ Pending(first) = LinksOf(r)
    BY <2>3, <1>2, <1>3, SetTasksGood
  <2>5. more = first \o rest
    BY <2>3, <1>1, <1>3 DEF MoreTasks
  <2>6. Begun(first \o rest, kind, StatusesOf(r))
        /\ Pending(first \o rest) = Pending(first) \cup Pending(rest)
    <3>1. PICK statuses : statuses = StatusesOf(r)
      OBVIOUS
    <3>2. kind \in TableKinds /\ Begun(first, kind, statuses) /\ OnlyLoads(rest)
      BY <2>1, <2>2, <2>4, <3>1
    <3>3. Begun(first \o rest, kind, statuses)
      BY <3>2, BegunConcat
    <3>4. first \in Seq(Tasks)
      BY <3>2 DEF Begun
    <3>5. Pending(first \o rest) = Pending(first) \cup Pending(rest)
      BY <3>4, <1>2, PendingConcat
    <3> QED
      BY <3>1, <3>3, <3>5
  <2>7. Begun(more, kind, StatusesOf(r)) /\ Pending(more) = LinksOf(r) \cup Pending(rest)
    BY <2>4, <2>5, <2>6
  <2>8. Ordered(more) /\ TextsOf(more, table, lang)
    BY <2>1, <2>7, <1>1, BegunFits
  <2> QED
    BY <2>7, <2>8, <1>1, <1>3
<1>4. CASE kind \notin {"nsset", "keyset"}
  <2>1. more = rest
    BY <1>1, <1>2, <1>4, MoreTasksGood
  <2>2. Ordered(rest) /\ TextsOf(rest, table, lang)
    BY <1>1, RestFits
  <2>3. kind \in {"contact", "registrar"}
    BY <1>2, <1>4 DEF Kinds
  <2>4. kind # "contact" => LinksOf(r) = {}
    BY <2>3, <1>2, RegistrarsAlone
  <2> QED
    BY <2>1, <2>2, <2>4, <1>1
<1> QED
  BY <1>3, <1>4

LEMMA ShownMemory ==
    ASSUME Good, Memory, NEW l \in Lookups, LoadRelated(l),
           Now.objects[<<Task(l).kind, Task(l).handle>>] # NULL
    PROVE  Memory'
<1>1. PICK x, first : x = lookup[l] /\ first = Head(x.todo)
  OBVIOUS
<1>2. PICK o, r : o = <<first.kind, first.handle>> /\ r = Now.objects[<<first.kind, first.handle>>]
  OBVIOUS
<1>3. PICK shown, more : /\ shown = x.shown \cup {<<o, r>>}
                         /\ more = MoreTasks(first.kind, r, Tail(x.todo))
  OBVIOUS
<1>4. PICK c : c = [x EXCEPT !.shown = shown]
  OBVIOUS
<1>5. PICK u : u = Continued(c, more)
  OBVIOUS
<1>6. /\ x.pc = "related" /\ first.do = "load" /\ r # NULL
      /\ UNCHANGED <<history, tables>>
  BY <1>1, <1>2 DEF LoadRelated, Doing, Task
<1>7. lookup' = [lookup EXCEPT ![l] = u]
  <2>1. more = (IF o[1] \in {"nsset", "keyset"} THEN SetTasks(o[1], r) ELSE <<>>)
                  \o Tail(x.todo)
    BY <1>2, <1>3 DEF MoreTasks
  <2> QED
    BY <2>1, <1>1, <1>2, <1>3, <1>4, <1>5, <1>6 DEF LoadRelated, Task, Rest
<1>8. x \in LookupStates /\ Ready(x) /\ Remembers(x) /\ x.pc \in Working
      /\ x.began \in 1..Len(history)
  BY <1>1, <1>6, StateOf DEF Memory, Working
<1>9. /\ Settled(x) /\ FoundRemembered(x) /\ ShownRemembered(x)
      /\ x.todo \in Seq(Tasks) /\ x.todo # <<>>
      /\ \A linked \in Pending(x.todo) : ThereSince(x.began, linked)
      /\ ShownObjects(x) \cup Pending(x.todo) = Belonging(x)
      /\ Ordered(x.todo) /\ TextsOf(x.todo, x.descripts, x.lang)
  BY <1>8, AtWork
<1>10. first.kind \in Kinds \ {"domain"} /\ first.handle \in Handles
  BY <1>1, <1>6, <1>8, NextTask
<1>11. o \in Objects /\ FitsKind(first.kind, r) /\ r \in Record /\ o[1] = first.kind
  BY <1>2, <1>6, <1>10, Present
<1>12. shown \in Shown
  BY <1>3, <1>8, <1>11 DEF Shown, LookupStates
<1>13. c \in LookupStates
  BY <1>4, <1>8, <1>12 DEF LookupStates
<1>14. /\ c.shown = shown /\ c.pc = x.pc /\ c.error = x.error /\ c.todo = x.todo
       /\ c.view = x.view /\ c.handle = x.handle /\ c.lang = x.lang /\ c.began = x.began
       /\ c.found = x.found /\ c.descripts = x.descripts
  BY <1>4, <1>8 DEF LookupStates
<1>15. Settled(c) /\ FoundRemembered(c) /\ c.pc \notin {"log", "load"}
  BY <1>6, <1>9, <1>14 DEF Settled, FoundRemembered
<1>16. WasSince(x.began, o, r)
  <2>1. Len(history) \in x.began..Len(history)
    BY <1>8, NowIsAMoment DEF Good
  <2> QED
    BY <2>1, <1>2 DEF WasSince, Now
<1>17. ShownRemembered(c)
  <2>1. \A y \in x.shown : WasSince(x.began, y[1], y[2])
    BY <1>9 DEF ShownRemembered
  <2>2. \A y \in shown : WasSince(x.began, y[1], y[2])
    BY <2>1, <1>3, <1>16
  <2> QED
    BY <2>2, <1>14 DEF ShownRemembered
<1>18. /\ \A linked \in LinksOf(r) : ThereSince(x.began, linked)
       /\ first.kind \in TableKinds => StatusesOf(r) \subseteq Now.described[first.kind]
  <2>1. x.began \in Nat \ {0}
    BY <1>8, NowIsAMoment DEF Good
  <2> QED
    BY <2>1, <1>11, <1>16, LinksWereThere DEF Good
<1>19. /\ more # <<>> => Ordered(more) /\ TextsOf(more, x.descripts, x.lang)
       /\ Pending(more) =
             Pending(Tail(x.todo)) \cup (IF first.kind # "contact" THEN LinksOf(r) ELSE {})
  BY <1>1, <1>3, <1>6, <1>9, <1>10, <1>11, <1>18, MoreTasksFit
<1>20. Pending(x.todo) = Pending(Tail(x.todo)) \cup {o}
  BY <1>1, <1>2, <1>6, <1>9, RestFits
<1>21. \A linked \in Pending(more) : ThereSince(x.began, linked)
  BY <1>9, <1>18, <1>19, <1>20
<1>22. /\ ShownObjects(c) = ShownObjects(x) \cup {o}
       /\ Belonging(c) =
             Belonging(x) \cup (IF first.kind # "contact" THEN LinksOf(r) ELSE {})
  <2>1. Belonging(x) # {}
    BY <1>9, <1>20
  <2>2. c.shown = x.shown \cup {<<o, r>>}
    BY <1>3, <1>14
  <2> QED
    BY <2>1, <2>2, <1>11, <1>14, BelongingGrows
<1>23. ShownObjects(c) \cup Pending(more) = Belonging(c)
  BY <1>9, <1>19, <1>20, <1>22
<1>24. PICK page : page = Page(c)
  OBVIOUS
<1>25. /\ u.todo = more
       /\ u.pc = IF more = <<>> THEN "done" ELSE "related"
       /\ u.reply = IF more = <<>> THEN page ELSE NULL
       /\ u.view = c.view /\ u.handle = c.handle /\ u.lang = c.lang /\ u.began = c.began
       /\ u.found = c.found /\ u.shown = c.shown /\ u.error = c.error
       /\ u.descripts = c.descripts
  BY <1>5, <1>13, <1>24, ContinuedFields
<1>26. Remembers(u)
  BY <1>14, <1>15, <1>17, <1>19, <1>21, <1>23, <1>24, <1>25, ContinuedRemembers
<1> QED
  BY <1>6, <1>7, <1>26, QuietMemory

LEMMA WorkerDiesMemory ==
    ASSUME Good, Memory, NEW l \in Lookups, WorkerDies(l) PROVE Memory'
<1>1. PICK x : x = lookup[l]
  OBVIOUS
<1>2. PICK u : u = [x EXCEPT !.pc = "dead"]
  OBVIOUS
<1>3. /\ lookup' = [lookup EXCEPT ![l] = u] /\ x.pc \notin {"idle", "done", "dead"}
      /\ UNCHANGED <<history, tables>>
  BY <1>1, <1>2 DEF WorkerDies, Good
<1>4. x \in LookupStates /\ Ready(x) /\ Remembers(x)
  BY <1>1, StateOf DEF Memory
<1>5. /\ u.pc = "dead" /\ u.handle = x.handle /\ u.began = x.began /\ u.shown = x.shown
      /\ u.view = x.view /\ u.found = x.found /\ u.todo = x.todo
      /\ u.error = x.error /\ u.reply = x.reply /\ u.descripts = x.descripts
  BY <1>2, <1>4 DEF LookupStates
<1>6. u.reply = NULL
  BY <1>3, <1>4, <1>5 DEF Ready
<1>7. FoundRemembered(u) /\ PendingRemembered(u) /\ Gathered(u) /\ TextsFit(u)
  BY <1>5, <1>6, NullIsApart
  DEF FoundRemembered, PendingRemembered, Gathered, TextsFit, Settled, Working, Replies
<1>8. ShownRemembered(u) /\ Explained(u)
  <2>1. Missing(u) = Missing(x) /\ Belonging(u) = Belonging(x)
    BY <1>5 DEF Missing, Belonging
  <2> QED
    BY <2>1, <1>4, <1>5 DEF Remembers, ShownRemembered, Explained
<1>9. Remembers(u)
  BY <1>7, <1>8 DEF Remembers
<1> QED
  BY <1>3, <1>9, QuietMemory

LEMMA MemoryHandler ==
    ASSUME Good, Memory, NEW l \in Lookups, LookupStep(l) PROVE Memory'
<1>1. CASE PrepareLoggingRequest(l)
  BY <1>1, PrepareMemory
<1>2. CASE PrepareLoggingRequestFails(l)
  BY <1>2, FailedMemory DEF PrepareLoggingRequestFails
<1>3. CASE LoadRegistryObject(l)
  BY <1>3, LoadMemory
<1>4. CASE NoExampleDomain(l)
  BY <1>4, ToFinallyMemory DEF NoExampleDomain
<1>5. CASE LoadRegistryObjectFails(l)
  BY <1>5, ToFinallyMemory DEF LoadRegistryObjectFails
<1>6. CASE Finish(l)
  BY <1>6, FinishMemory
<1>7. CASE FinishFails(l)
  BY <1>7, FailedMemory DEF FinishFails
<1>8. CASE GetDescriptions(l)
  BY <1>8, GetDescriptionsMemory
<1>9. CASE DescriptionsMissing(l)
  BY <1>9, DescriptionsMissingMemory
<1>10. CASE FetchDescriptions(l)
  BY <1>10, FetchDescriptionsMemory
<1>11. CASE StoreDescriptions(l)
  BY <1>11, StoreDescriptionsMemory
<1>12. CASE CacheFails(l)
  BY <1>12, CacheFailsMemory
<1>13. CASE DescribeStatuses(l)
  BY <1>13, DescribeMemory
<1>14. CASE LoadRelated(l)
  BY <1>14, LostMemory, ShownMemory
<1>15. CASE RelatedFails(l)
  BY <1>15, FailedMemory DEF RelatedFails
<1> QED
  BY <1>1, <1>2, <1>3, <1>4, <1>5, <1>6, <1>7, <1>8, <1>9, <1>10, <1>11, <1>12, <1>13,
     <1>14, <1>15 DEF LookupStep

\* The registry and the cache change behind the handlers' backs.
LEMMA MemoryBesides ==
    ASSUME Good, Memory, UNCHANGED lookup, HistoryGood', Grows,
           \A key \in Languages \X TableKinds : tables'[key] \in {tables[key], NULL}
    PROVE  Memory'
<1>1. ASSUME NEW l \in Lookups PROVE Remembers(lookup[l])'
  <2>1. PICK x : x = lookup[l]
    OBVIOUS
  <2>2. x \in LookupStates /\ Ready(x) /\ (x.pc # "idle" => x.began \in 1..Len(history))
        /\ Remembers(x)
    BY <2>1, StateOf DEF Memory
  <2>3. Remembers(x)'
    BY <2>2, RemembersStays DEF Good
  <2>4. lookup'[l] = x
    BY <2>1
  <2> QED
    BY <2>3, <2>4
<1>2. ASSUME NEW key \in Languages \X TableKinds, tables'[key] # NULL
      PROVE  Authentic(tables[key], key[1], key[2])'
  <2>1. PICK table : table = tables'[key]
    OBVIOUS
  <2>2. Authentic(table, key[1], key[2])
    BY <2>1, <1>2 DEF Memory
  <2>3. Authentic(table, key[1], key[2])'
    BY <2>2, AuthenticStays DEF Good
  <2> QED
    BY <2>1, <2>3
<1> QED
  BY <1>1, <1>2 DEF Memory

LEMMA MemoryStep == ASSUME Good, Memory, [Next]_vars PROVE Memory'
<1>0. HistoryGood' /\ Grows
  BY HistoryStep DEF Good
<1>1. ASSUME NEW l \in Lookups, NEW view \in Views, NEW h \in Handles, NEW lang \in Languages,
             Begin(l, view, h, lang)
      PROVE  Memory'
  BY <1>1, BeginMemory
<1>2. ASSUME NEW l \in Lookups, LookupStep(l) PROVE Memory'
  BY <1>2, MemoryHandler
<1>3. ASSUME NEW l \in Lookups, WorkerDies(l) PROVE Memory'
  BY <1>3, WorkerDiesMemory
<1>4. ASSUME NEW o \in Objects, NEW r \in Records[o] \cup {NULL}, ChangeObject(o, r) PROVE Memory'
  BY <1>0, <1>4, MemoryBesides DEF ChangeObject
<1>5. ASSUME NEW kind \in TableKinds, NEW s \in Statuses, AddStatus(kind, s) PROVE Memory'
  BY <1>0, <1>5, MemoryBesides DEF AddStatus
<1>6. ASSUME NEW key \in Languages \X TableKinds, Expire(key) PROVE Memory'
  <2>1. \A k \in Languages \X TableKinds : tables'[k] \in {tables[k], NULL}
    BY <1>6 DEF Expire, Good
  <2> QED
    BY <2>1, <1>0, <1>6, MemoryBesides DEF Expire
<1>7. CASE UNCHANGED vars
  BY <1>0, <1>7, MemoryBesides DEF vars
<1> QED
  BY <1>1, <1>2, <1>3, <1>4, <1>5, <1>6, <1>7 DEF Next

LEMMA MemoryAlways == Spec => [](Good /\ Memory)
<1>1. Init => Good /\ Memory
  BY GoodInit, MemoryInit
<1>2. (Good /\ Memory) /\ [Next]_vars => (Good /\ Memory)'
  BY GoodStep, MemoryStep
<1> QED
  BY <1>1, <1>2, PTL DEF Spec

\* Each kind a lookup asks for is found as it was at some moment since the
\* lookup began, and missed only if it was missing at such a moment; the answer
\* follows from what was found.
THEOREM AnswersAreFromTheTime == Spec => []AnswersFromTheTime
<1>1. ASSUME Good, Memory, NEW l \in Lookups,
             lookup[l].pc \in {"finish", "related", "fetch", "store", "done"},
             lookup[l].error = NULL
      PROVE  LET s == lookup[l]
                 asked == {Asked(s.view)[i] : i \in DOMAIN Asked(s.view)}
                 found == FoundKinds(s.found)
             IN  /\ found \subseteq asked
                 /\ \A k \in asked : \E t \in Since(l) :
                       history[t].objects[<<k, s.handle>>] = s.found[k]
                 /\ s.reply = "exception_page" => found = {}
                 /\ s.reply = "page" => found = {s.view}
                 /\ s.reply = "redirect" => Cardinality(found) = 1
                 /\ s.reply = "multiple_entries" => Cardinality(found) > 1
  <2>1. PICK s : s = lookup[l]
    OBVIOUS
  <2>2. Ready(s) /\ FoundRemembered(s)
    BY <1>1, <2>1, StateOf DEF Memory, Remembers
  <2>3. Settled(s) /\ s.pc \notin {"log", "load"}
    BY <1>1, <2>1 DEF Settled, Working
  <2>4. AskedKinds(s.view) = {Asked(s.view)[i] : i \in DOMAIN Asked(s.view)}
    BY DEF AskedKinds, Range
  <2>5. /\ FoundKinds(s.found) \subseteq AskedKinds(s.view)
        /\ \A k \in AskedKinds(s.view) : WasSince(s.began, <<k, s.handle>>, s.found[k])
    BY <2>2, <2>3 DEF FoundRemembered
  <2>6. \A k \in AskedKinds(s.view) : \E t \in Since(l) :
           history[t].objects[<<k, s.handle>>] = s.found[k]
    BY <2>1, <2>5 DEF WasSince, Since
  <2>7. ASSUME s.reply \in Replies \ {"server_error"}
        PROVE  s.reply = Page(s) /\ Answerable(s)
    BY <2>2, <2>7, ReplyIsPage
  <2>8. {"page", "multiple_entries", "redirect", "exception_page"} \subseteq
           Replies \ {"server_error"}
    BY DEF Replies
  <2>9. /\ s.reply = "exception_page" => FoundKinds(s.found) = {}
        /\ s.reply = "page" => FoundKinds(s.found) = {s.view}
        /\ s.reply = "redirect" => Cardinality(FoundKinds(s.found)) = 1
        /\ s.reply = "multiple_entries" => Cardinality(FoundKinds(s.found)) > 1
    BY <2>7, <2>8, PageTells
  <2> QED
    BY <2>1, <2>4, <2>5, <2>6, <2>9
<1>2. Good /\ Memory => AnswersFromTheTime
  BY <1>1 DEF AnswersFromTheTime
<1> QED
  BY <1>2, MemoryAlways, PTL

\* A page shows with an object all the objects it refers to, of its nsset and
\* keyset too, and no others, each as it was at some moment of the lookup.
THEOREM PagesAreComplete == Spec => []PageShowsItsObjects
<1>1. ASSUME Good, Memory, NEW l \in Lookups, lookup[l].reply = "page"
      PROVE  /\ {x[1] : x \in lookup[l].shown} = Belonging(lookup[l])
             /\ \A x \in lookup[l].shown : \E t \in Since(l) : history[t].objects[x[1]] = x[2]
  <2>1. Gathered(lookup[l]) /\ ShownRemembered(lookup[l])
    BY <1>1 DEF Memory, Remembers
  <2>2. {x[1] : x \in lookup[l].shown} = Belonging(lookup[l])
    BY <1>1, <2>1 DEF Gathered, ShownObjects
  <2>3. \A x \in lookup[l].shown : \E t \in Since(l) : history[t].objects[x[1]] = x[2]
    BY <2>1 DEF ShownRemembered, WasSince, Since
  <2> QED
    BY <2>2, <2>3
<1>2. Good /\ Memory => PageShowsItsObjects
  BY <1>1 DEF PageShowsItsObjects
<1> QED
  BY <1>2, MemoryAlways, PTL

\* Without a failing service a page becomes a server error only when it was
\* overtaken: what could not be loaded belongs on the page, was held since the
\* lookup began and later deleted; a text was missing from a table other than
\* the registry's.
THEOREM ErrorsHaveCauses == Spec => []ServerErrorHasCause
<1>1. ASSUME Memory, NEW l \in Lookups, lookup[l].error = "OBJECT_NOT_FOUND"
      PROVE  LET s == lookup[l]
                 missing == <<Head(s.todo).kind, Head(s.todo).handle>>
             IN  /\ missing \in Belonging(s)
                 /\ \E t, u \in Since(l) :
                       /\ t < u
                       /\ history[t].objects[missing] # NULL
                       /\ history[u].objects[missing] = NULL
  BY <1>1 DEF Memory, Remembers, Explained, Missing, DeletedSince, Since
<1>2. ASSUME Memory, NEW l \in Lookups, lookup[l].error = "KeyError"
      PROVE  lookup[l].descripts.statuses # Now.described[lookup[l].descripts.kind]
  BY <1>2 DEF Memory, Remembers, Explained
<1>3. Memory => ServerErrorHasCause
  BY <1>1, <1>2 DEF ServerErrorHasCause
<1> QED
  BY <1>3, MemoryAlways, PTL

\* A table of status texts, in the cache or in use, is one the registry gave
\* for this very language and kind, however workers fill the cache.
THEOREM TablesAreTrue == Spec => []TablesAreAuthentic
<1>1. ASSUME Good, Memory, NEW key \in DOMAIN tables, tables[key] # NULL
      PROVE  Authentic(tables[key], key[1], key[2])
  <2>1. key \in Languages \X TableKinds
    BY <1>1 DEF Good
  <2> QED
    BY <2>1, <1>1 DEF Memory
<1>2. ASSUME Good, Memory, NEW l \in Lookups, Doing(l, "describe")
      PROVE  Authentic(lookup[l].descripts, lookup[l].lang, Task(l).kind)
  <2>1. PICK x : x = lookup[l]
    OBVIOUS
  <2>2. x \in LookupStates /\ Ready(x) /\ Remembers(x)
    BY <1>2, <2>1, StateOf DEF Memory
  <2>3. x.pc \in Working /\ Head(x.todo).do = "describe" /\ Task(l) = Head(x.todo)
    BY <1>2, <2>1 DEF Doing, Task, Working
  <2>4. x.todo \in Seq(Tasks) /\ x.todo # <<>> /\ TextsOf(x.todo, x.descripts, x.lang)
    BY <2>2, <2>3, AtWork
  <2>5. Head(x.todo) \in Range(x.todo)
    BY <2>4, TodoTail
  <2> QED
    BY <2>1, <2>3, <2>4, <2>5 DEF TextsOf
<1>3. Good /\ Memory => TablesAreAuthentic
  BY <1>1, <1>2 DEF TablesAreAuthentic, Authentic
<1> QED
  BY <1>3, MemoryAlways, PTL

=============================================================================
