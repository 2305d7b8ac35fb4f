# A verification of webwhois

TLA+ models of the `webwhois` Django application, the TLC runs that check them
on small instances, and TLAPS proofs about them for every size of instance.
Paths below are relative to the repository.

webwhois is a front end. A user of a domain registry looks up objects (contacts,
nssets, keysets, domains, registrars), asks for a password transfer, for personal
data or for a lock of an object ("public requests"), and downloads PDFs. The
registry itself is a CORBA service; so is the logger. Responses of public
requests live in Django's shared cache. webwhois keeps no other state: what is hard is
everything that happens *between* those services while several workers handle
several requests and any call may fail.

## 1. Inventory

| Component | Source | State it keeps | Operations |
|---|---|---|---|
| Public request forms | `forms/public_request.py`, `forms/fields.py`, `forms/widgets.py` | none | validation, cleaned data, confirmation method, the inputs shown |
| Public request form views | `views/public_request.py` 46-294, `views/public_request_mixin.py` | `self.public_key`; writes cache, registry, logger | POST of a form |
| Public responses | `utils/public_response.py` | the cached objects | created by the form views, read by the pages |
| Response pages and PDF | `views/public_request.py` 297-684 | `self._public_response` | GET of a page, GET of the letter |
| Request logging | `views/logger_mixin.py`, `views/public_request_mixin.py` 34-62 | the logger's requests | open, close |
| Object lookup | `views/base.py`, `views/detail_*.py`, `views/resolve_handle_type.py`, `views/form_whois.py` | the template context | search by handle, detail pages |
| Status descriptions cache | `views/base.py` 59-77 | a cache entry per object type and language | cache-aside read |
| Registrar list, evaluation files | `views/registrar.py` | groups and certifications, for one request; a download object in the file manager | list with groups and certifications, download of a file |
| Record statement | `views/record_statement.py` | logger's requests | PDF of a registry record |
| CORBA wrapper | `utils/corba_wrapper.py` | a lazy client per service, shared by the threads of a process | first use, conversion of values |
| Form logic in the browser | `static/webwhois/js/webwhois.js` | enabled and disabled inputs of a page | reaction to loading, clicks, changes, sending |
| Template filters | `templatetags/` | none | DNSKEY flags, formatting |
| Settings, URLs, app config | `settings.py`, `urls.py`, `apps.py` | none | declarations |
| Templates, translations | `templates/`, `locale/` | none | layout and wording |

How they interact, and what is hard:

- **A POST** (`PublicRequestFormView.form_valid` and `logged_call_to_registry`)
  is one function with four calls out of the process, in this order: open a log
  request, call the registry, `cache.set`, close the log request in a `finally`.
  Each can raise, and a call can be executed and its answer lost. After it, the
  browser is redirected to a page addressed by a random key. Hard: which of log,
  registry, cache and reply are still true of each other after a failure at
  each point; concurrent POSTs whose keys, log ids and request ids must never
  be exchanged; a worker killed in the middle.
- **A GET of a response page** reads the cache once, keeps the result
  (`_public_response`) and chooses texts by the class of the response. Hard: the
  entry expires between the reads; the page is one of three and the response
  one of three classes, so the redirect of every form must match; the visitor
  may come before the POST is answered, or a day late.
- **A GET of the PDF** reads the same entry, opens a log of its own and calls the
  registry. Hard: the response outlives the request it names.
- **An object lookup** opens a log, loads the object, closes the log, and only then
  loads related objects (registrars, contacts). Search by handle tries five kinds of
  object with one shared context. Hard: objects change between calls, errors of
  earlier lookups, the redirect to a single result that has gone.
- **Status descriptions** are cached beside the lookup; a status added meanwhile is
  missing from the cached table.
- **The browser's script** empties, enables and disables inputs, which decides what a POST
  contains: a disabled input is not sent. The forms were written apart from it and must agree with it, after
  any order of clicks, reloads and forms shown again.
- **A list of registrars** is put together from up to three calls of a changing registry, in an
  order that depends on the group asked for; the answers are kept in the view, which lives for one request.
- **An evaluation file** is found in one call, and downloaded in four more of the file manager. One
  of them makes an object there that has to be finalized whatever happens.
- **A record statement** is printed by a service between opening and closing a log request.
- **The CORBA clients** are lazy: the first thread that uses one sets it up, and keeps what it got
  for all others. The test `if LOGGER` of the record statement is already such a use. Hard: two
  first uses at a time, a first use while the service is down, and a service that comes back as another object.

What makes each component correct:

- *Forms*: what they accept is what the command of the view can be called with.
- *Form views*: a form is handed to the registry at most once; a reply is never
  wrong about it; logs and commands agree; every opened log gets closed.
- *Responses and pages*: a key leads to the request of the POST that drew it and
  to nothing else; a redirect leads to a page that can show it; expiry never turns a
  page that found its response into an error.
- *Lookup*: a handle that exists is found whatever earlier lookups reported; the log
  says what the main lookup returned; no page mixes objects.
- *Descriptions cache*: a table is shown only for its own type and language.
- *Registrar list and files*: an opened download is finalized; a registrar is shown with
  its own certifications only.
- *Record statement*: the log tells whether the statement was printed; none is printed unlogged.
- *CORBA clients*: a service that was down once does not fail a visitor who comes later.
- *Browser*: what the script lets through is a form the server accepts, and nothing has to be typed twice.

The hazards of `PROJECT.json` list the lines where these can go wrong, with the
properties that cover them.

## 2. Plan

| Order | Module | Content | Status |
|---|---|---|---|
| 1 | `PublicRequestForms` | pure operators: forms, commands, responses, pages | done |
| 2 | `PublicRequests` | state machine of POSTs, GETs, cache, registry, logger | done |
| 3 | `PublicRequestDesk` | abstract specification of 2 | done, refinement checked and proved |
| 4 | `PublicRequestsProofs` | theorems about 2 | typing and truthful replies proved |
| 5 | `ObjectLookup` | detail pages and search over a changing registry, with the cached tables of status texts | done, checked and proved |
| 6 | `DomainHandles` | the example domain of a long handle against a reference definition | done, checked and proved |
| 7 | `RequestFormPage` | a page with a form in a browser: the script's inputs, composed with `PublicRequestForms` | done, checked and proved |
| 8 | `RequestFormPageProofs` | theorems about 7 | every property proved |
| 9 | `RegistrarPages` | the list of registrars and the evaluation files | done, checked and proved |
| 10 | `CorbaClients` | lazy clients of services that go down and are replaced | done |
| 11 | `RecordStatement` | the record statement, over the clients of 10 | done, checked and proved |
| 12 | `RegistrarPagesProofs`, `RecordStatementProofs` | theorems about 9 and 11 | every safety property proved |
| 13 | `PublicRequestsPageProofs` | theorems about 2: keys, responses, pages | every property proved |
| 14 | `PublicRequestsLogProofs` | theorems about 2: the logs | every property proved |
| 15 | `PublicRequestsPageProofs` | 2 implements 3 | proved |
| 16 | `ObjectLookupProofs` | theorems about 5 | every safety property proved |
| 17 | `DomainHandlesProofs` | theorems about 6 | proved |

The tables of status texts were first planned as a module of their own. They are part of
`ObjectLookup`, because a lookup fills a table between two loads and fails by it later.

Abstract specifications worth stating: the desk (done). For `ObjectLookup` the natural one,
a lookup that answers from one moment of the registry, is not what the code
implements: a search asks five times, and a page is read call by call.
`AnswersFromTheTime` and `PageShowsItsObjects` say what is true instead.

Theorems worth proving, in this order: type correctness and truthful replies of module 2; what keys and logs lead
to (`ResponsesDescribeRequests`, `AuditTruthful` and their like); the refinement `ImplementsDesk`; the properties of
modules 7, 9 and 11; all of module 5 (typing, logs, tables, answers and pages of their time, causes of errors); the example domain of
module 6. All of these are done: every invariant and action property that a passing run checks is a theorem, liveness aside.

## 3. The modules

### PublicRequestForms

A form is a record of what its fields made of a POST (`FormData`); `Declared`
leaves out fields its class does not have. `IsValid` is
`form.is_valid()`, with `DeliveryField.validate` and `SendPasswordForm.clean`.
The other operators are the methods of the four views that depend only on the form:
`LoggingProperties`, `RegistryCommand` (with `LockRequestType`), `KnownErrors`,
`PublicResponse`, `SuccessUrl`. `ConfirmationIsMissing` is the case in which the
arguments of the command cannot be computed. `Renders` says when
`get_context_data` of a page finds its texts for a response: `TextTitle`,
`TextSubject` and `TextContent` are the keys of the tables of texts.
Strings that no property is about (handles, addresses) are elements of the constants;
wording, `create_date` and the language are left out.

### PublicRequests

| Variable | Code |
|---|---|
| `post[p]` | one call of `PublicRequestFormView.post`: where it is, the cleaned form, `self.public_key`, `log_request`, `public_request_id`, `error_object`, the reply |
| `visit[v]` | one call of `get` of a response page or of `ServeNotarizedLetterView`: where it is, page, key, `_public_response`, `log_request`, `error_object`, the reply |
| `cache` | the responses in Django's cache |
| `registry` | the requests the registry took: command, `log_request_id`, and the POST that made the call (a history variable) |
| `audit` | the logger's requests: name and properties, open or closed, result, exception, reference |
| `diagnostics` | what the PDF view writes to the error log |

A step ends where the handler calls out of the process, because only there can another
handler be seen. The actions of a POST:

| Action | Code |
|---|---|
| `SubmitInvalid`, `SubmitValid` | `form.is_valid()`, the key is drawn |
| `PrepareLoggingRequest`, `...Fails` | `prepare_logging_request`, before the `try` |
| `ConfirmationMissing` | `KeyError` of `CONFIRMATION_METHOD_IDL_MAP` |
| `RegistryCreates`, `RegistryRefuses`, `RegistryReplyLost` | `_call_registry_command` |
| `Publish`, `PublishFails` | `get_public_response`, `cache.set` |
| `FinishPost`, `FinishPostFails` | the `finally`; then `form_valid` chooses the reply |
| `RespondToPost`, `PostWorkerDies` | the response leaves, or the worker is killed |

The actions of a GET are `OpenPage`, `GetResponse`, `ResponseMissing`, `GetResponseFails`,
`RenderPage`, and for the PDF `PreparePdfLogging`, `CreatePdf`, `PdfRequestNotFound`,
`PdfFails`, `FinishPdf` and its failure. `Expire` is the cache dropping an entry: the
24 hours of `cache.set` are over, or the backend evicts it, at any time. A backend that
silently ignores `set` is `Publish` followed at once by `Expire`.

Assumptions about the world:

- `get_random_string(64)` never returns a key twice (`k \notin DrawnKeys`). A visitor may
  try any key at any time, drawn or not.
- The registry numbers its requests and never reuses an id, and the id is not None.
- A call returns, raises, or is executed and raises (`Faults` chooses which of these an instance has). The last is
  `RegistryReplyLost` for the registry, and a disjunct of `PrepareLoggingRequestFails`, `PublishFails`, `FinishPostFails` and of
  the PDF's failures for logger and cache: a response may be found in the cache, and a log closed, although the handler was given an exception.
  A call that never returns is not modelled: the worker's death stands for
  the timeout that ends it.
- The registry forgets a request only in that it may raise `OBJECT_NOT_FOUND` for a PDF.
- `LoggerEnabled` is the `LOGGER` setting and does not change while the program runs.

### PublicRequestDesk

What a user of the pages can rely on, without cache, keys, logs and workers: each
form has an outcome, a request or none, and may have been shown. The mapping of
`PublicRequests` is `Outcome` (from the reply), `Request` (from the registry) and `Shown`.
A request may be shown before its form is answered, and a failed form may have
made one: the desk allows exactly these.

### MCPublicRequests

Symmetry sets, the sets of forms and of errors the instances choose from, and the bound `FormsDiffer` of the run `races`.

### ObjectLookup

| Variable | Code |
|---|---|
| `history` | the contents of the registry so far: the record of each object, and the statuses it describes for each kind. The last entry is the present; the earlier ones are kept so that properties can speak of the time since a lookup began |
| `lookup[l]` | one call of `get` of a detail page or of the search: where it is, the context (`found` for the registry objects, `server_exception`, `shown` for what the page shows besides), `log_request`, `descripts`, the reply |
| `tables` | the tables of status texts in Django's cache, by language and kind |
| `audit` | the logger's requests of lookups |

What a handler has still to do is a list of tasks, `todo`. While the object is loaded it
holds the kinds to ask for: one for a detail page, five for the search (`Asked`). After the
log is closed `RelatedTasks` is the straight-line code of `load_related_objects` of the view as
tasks "load an object", "get the table" and "describe the statuses". Loading
the nsset or keyset of a domain puts the tasks of `append_nsset_related` or
`append_keyset_related` in front (`LoadRelated`).

| Action | Code |
|---|---|
| `Begin` | `_get_registry_objects` starts |
| `PrepareLoggingRequest`, `...Fails` | `prepare_logging_request`, before the `try` |
| `LoadRegistryObject`, `...Fails` | `load_registry_object` of one kind; `ExceptionCode` is the exception page it leaves in the context, `Resolved` the one of a search that found nothing |
| `NoExampleDomain` | the assertion of `DomainDetailMixin.load_registry_object` |
| `Finish`, `FinishFails` | the `finally` with `finish_logging_request`, which may raise after the log was closed; `Page` is the choice of the reply by `get`, `get_template_names` |
| `GetDescriptions`, `DescriptionsMissing`, `FetchDescriptions`, `StoreDescriptions`, `CacheFails` | `_get_status_descriptions`; `cache.set` may raise after the table was stored |
| `DescribeStatuses` | `descriptions[key]` for each status of the object |
| `LoadRelated`, `RelatedFails` | a `get_..._by_handle` of `load_related_objects` |
| `WorkerDies`, `Expire` | a killed worker, a dropped table |
| `ChangeObject`, `AddStatus` | what others do in the registry meanwhile |

A handle is what the five kinds make of it (`HandleForms`): the kinds that accept it, and for a domain
the branch of `DomainDetailMixin.load_registry_object` it takes (`DomainForms`). Assumptions about the registry:

- It refers only to objects it holds, and objects are in described statuses (`Sound`). So a
  missing object or text is always a matter of time, never of bad data.
- The records of a kind refer to what the structures of that kind have fields for (`FitsKind`): a contact to its registrar,
  a set to contacts and a registrar, a domain to a holder at least and to all but domains, a registrar to nothing.
- What it holds to begin with are records of the instance (`BeginningsAssumption`). None and `OBJECT_DELETE_CANDIDATE` are no
  records, and None is nothing else the model uses (`NullIsNoObject`).
- It learns statuses and does not forget them.
- It holds nothing under a handle it refuses (`HandlesAreAccepted`).
- A domain left to be deleted is answered with `OBJECT_DELETE_CANDIDATE`, which the page shows
  as a domain without a record.
- `MaxChanges` bounds its changes.

The list of managed zones, which an exception page may need, is read in the step of the object; its
failure is that of the step. The texts themselves, labels and links are left out.

### DomainHandles

A handle is a sequence of characters of four classes: letters and digits, the hyphen, the full
stop, the other dots that `idna.encode` takes. `Encodes` and `LabelCount` are what `idna`
and the registry make of it. `ZoneLabels` are the numbers of labels the registry's zones have (one in `cz`, five in `0.2.4.e164.arpa`),
and `TooManyLabels` says when it can answer so: the name has more than one label beside those of a zone. `ExampleDomain` is `re.search` of the
expression in `DomainDetailMixin.load_registry_object`. The handle is typed one character after the other,
so the run meets every handle up to `MaxLength`. None is no text (`NullIsNoExample`); every
zone has a label (`ZonesAssumption`). The property is about the text that is cut out, the last two labels. That the registry would take it as a name is
not claimed: in a zone of several labels it does not (section 6).

### MCObjectLookup

The records the instances choose from, the contents of the registry they begin with, and the
forms of their handles. An nsset may be in the status "deleteCandidate" too: only the page of a domain then leaves out
what the object refers to, and `PageShowsItsObjects` tells the two apart.

### RequestFormPage

| Variable | Code |
|---|---|
| `page` | the inputs of a page with a form as the browser shows them: the values, what the script disabled, and whether the browser runs the script |
| `reply` | what came back when the form was last sent: a page of section 1, the form, a server error, or the script's refusal |

The handlers of `webwhois.js` are operators on the inputs: `Ready` (`$(document).ready`), `Clicked` (the radio), `MethodChanged`
(the confirmation method) and `IsComplete` (submit). The server's side is `Initial` (`get_initial` and the fields' initial
values), `Posted` (what the fields make of the inputs sent, with `CleanedHandle` for the handle), `Replies` (the view, with the operators of
`PublicRequestForms`; the registry's answer is open) and `ShownAgain` (the bound form). The actions are the
user's: `ClickSendTo`, `TypeEmail`, `ChooseMethod`, `TypeHandle`, `Reload`, `SendRefused`, `Send`.

A text in the input of the handle is one the form takes, `TooLong` (more than 255 characters) or none, each with or without blanks around it
(`HandleInputs`). The form strips the blanks and looks at the length; the script asks only whether the input is empty, so a handle of blanks or a long one
is sent and refused. It is the same with the address: the script looks for one, the form at what it is. `PostIsAccepted` says that these texts are the
only difference: what the script lets through is valid just when the form accepts them (`TextsAreAccepted`). No text of the constant `Handles` is too long (`HandlesAreShort`).

Assumptions about the browser: a select shows its first option when none is selected; a page that is loaded again gets
its values back before the script starts, and perhaps what was disabled; after an answer the user may go back to the
page as it was. `object_type` and `lock_type` are any value from the start and do not change, as nothing depends on them.

### RegistrarPages

| Variable | Code |
|---|---|
| `history` | the contents of the registry so far: registrars, groups, certificates; the last entry is the present |
| `visit[v]` | one GET of a list or of an evaluation file: the call it makes next, the answers kept in the view, `file_download`, which calls failed, the reply |
| `downloads` | the download objects of the file manager: their file, whether they are open, read or finalized, and (a history variable) whose they are |

| Action | Code |
|---|---|
| `ReadRegistrars`, `ReadGroups`, `ReadCertifications` | the three calls of a list; `NextListCall` is the order in which `get_context_data` comes to need them, `Listed` the filter of `get_registrars` |
| `FindEvaluationFile`, `ReadFileInfo`, `LoadFile`, `ReadDownload`, `FinalizeDownload` | `DownloadEvalFileView.get` and `_serve_file`, call by call |
| `Fail`, `LoadAnswerLost` | a call raises; a download is opened and the answer lost |
| `WorkerDies`, `Change` | a killed worker; others change the registry |

Assumptions: a registrar has one certificate at most, and what is in a group need not be registered.
A certificate may have no file, and `FILE_MANAGER.info` raises for it. `MaxChanges` bounds the changes. The order of the
rows (random within a score) is left out.

### CorbaClients, RecordStatement

`CorbaClients` is the part of a process that every view shares: for each service whether it is `up`, which object it is by now
(`generation`), and the object its `SimpleLazyObject` refers to (`client`, NULL while it is not set up).
Setting up takes two steps of a thread, `Resolve` (the name service and the narrowing) and `StoreClient`, and no lock
is held between them: two threads may both resolve, and the slower one stores last, perhaps a reference to an object
that has been replaced meanwhile. What is stored stays for good. A service that comes back is reached by an old reference
or not; both happen with CORBA. The name service is part of "the service is up". `MaxOutages` bounds the outages.

`RecordStatement` is the handler on top of that. `visit[v]` is one GET with its thread, `audit` the logger's
requests, `logger_set` the `LOGGER` setting (either, from the start), and `troubled[v]` a history variable: the
services that `v` could have found unavailable so far.

| Action | Code |
|---|---|
| `Begin` | `get` up to `if LOGGER` |
| `Resolve`, `StoreClient` | the first use of a client, by `if LOGGER` or by a print-out |
| `PrepareLoggingRequest`, `...Fails` | the log request, before the `try` |
| `PrintStatement`, `PrintFails` | `RECORD_STATEMENT...._printout`: the PDF, one of two "not found", an error; or a call that cannot be made |
| `Finish`, `FinishFails` | the `finally`, then the reply |
| `Environment` | services go down and come back |

The URL admits the four object types only, so the `ValueError` of `get` is out of reach and the four print-outs are one call.
A call to the logger that fails may have been executed; a print-out changes nothing, so its lost answer is its failure.

### MCRegistrarPages

Three contents of a registry: one to begin with, one in which the certified registrar has left, one in which
the group is gone and the certificates are new.

## 4. The runs

In every instance a member of `Posts` or `Visits` is one HTTP request, so an instance ends when all
are answered and no entry is left to expire; this is why deadlock is not an error there.
Handlers meet only in the cache (by key), the registry and the logger (by
position): a property that is violated by interference is violated by two POSTs and a visitor.
Symmetry over handlers and keys is used for safety only.

| Run | Instance | Checks | Shows |
|---|---|---|---|
| `forms` | every form, 1 POST, 1 visitor, all registry errors, lost answers and a failing cache, fairness | `TypeOK`, `LogDescribesRequest`, `RedirectFitsResponse`, `LogRequestsGetClosed` | the six tables that interpret a form (log name, command, lock, class, page, texts) agree for every form; every exception between open and close still closes the log |
| `races` | 2 forms of different views, 2 POSTs that send one each, 1 visitor, 2 keys, all faults | the six invariants about logs, replies and responses, `ClosedLogIsFinal`, `ImplementsDesk` | nothing is exchanged or misreported in any interleaving and at any point of failure |
| `confirmation`, `diagnostic` | one each | one documented statement | the statement is not what the code does (section 6) |
| `search` | 2 lookups, search and domain page, 3 handles (one in a zone, two that some kinds refuse), registry empty or full, 1 change, all faults | `TypeOK`, `AnswersFromTheTime`, `RepliesAreLogged` | no lookup hides what another found; log and reply agree, for every failure |
| `pages` | 1 lookup of any kind, 2 handles, 2 changes, failing registry and cache, fairness | `PageShowsItsObjects`, `ServerErrorHasCause`, `LookupsEnd` | a page is complete, or the object it could not load belongs on it and was deleted since the lookup began; it ends with its log closed |
| `tables` | 2 lookups of contacts and nssets, 2 languages, 2 statuses, 2 changes, failing cache | `TablesAreAuthentic`, `ServerErrorHasCause` | tables are not exchanged; a missing text means a table other than the registry's by then, a missing object one deleted meanwhile |
| `example` | every handle of up to 8 characters, zones of 1 and 2 labels | `ExampleIsLastLabels` | the example is the last two labels of the handle |
| `dots` | the same | one assertion | it fails (section 6) |
| `page` | every view, with and without script, 1 handle, none and one that is too long, each with and without blanks, 2 addresses and one that is none | `TypeOK`, `InputsFollowChoice`, `PostIsAccepted`, `ConfirmationIsGiven`, `ChoicesSurvive` | script and forms agree in every state a user can bring a page to |
| `registrars` | 2 visitors, each for a list of all, of a group or for a file; 2 registrars, 1 group, 2 files, 2 changes between 3 contents of the registry; fairness | `TypeOK`, `ListIsOfItsTime`, `NotFoundIsTrue`, `FileIsTheRegistrars`, `DownloadsAreReleased`, `VisitsEnd` | a page is of the time of its visit; no download is left behind unless the file manager failed to take it back |
| `statements` | 2 threads, 2 subjects, 2 services, 1 outage, logger set or not; fairness | `TypeOK`, `StatementsAreLogged`, `ServerErrorHasCause`, `LogRequestsAreClosed`, `VisitsEnd` | nothing is printed unlogged, and an outage fails only those who meet it or its stale reference |

Bounds: one handle and one address suffice in `forms`, where a single form is under
way; in `races` the two forms differ in view, class, page, address and lock, so an exchange
between them is visible, and the two POSTs send different ones (`FormsDiffer`, a constraint of the run): two POSTs of one form
differ in key and ids only, and the theorems of section 5 cover them. Two registry errors suffice there: one that every view knows and
one that none does. Two keys give every POST one and leave the visitor a wrong one. The
registry and the logger hold at most one request per handler.

Lookups meet in the cached tables and in the logger only. So `search`, about logs, has two
of them and no statuses; `tables` has two and no logger; `pages`, about what one handler loads, has one. One change in `search`
is enough to have an object come or go between any two of the five calls. Two
changes in `pages` are needed to delete a referred object: the reference has to go first, as
`Sound` demands. In `tables` two changes put an object into a status that was not described when a
table was read. Eight characters in `example` hold three
labels with a hyphen within, four labels, and a last dot: handles too long for zones of one label, and for those of two.

`page` has no bound but its constants: one handle, as its text is only passed on; two addresses differ from each other and from none, and its theorems hold for any number.
In `registrars` two visitors meet in the file manager only; two changes let each of the three calls of a list be answered by
another content. The calls that fail there are one of a list and those of the file manager that leave something behind: the failures of the
other calls end the handler in the same way (`Fail`). In `statements` one outage replaces one object once, which is enough
for a thread to store a reference that another has found to be stale; each service may also be down from the start.

**Fairness** (`FairSpec`): weak fairness of the steps of each handler that has started. A
WSGI worker runs its handler to the end unless it is killed, and each call out of it returns or
raises; the run excludes killed workers and a failing logger, for which the property is not claimed:
nothing in the code repeats a failed close. Browsers need not send anything, and
the cache need not drop anything, so `SubmitValid`, `OpenPage` and `Expire` have no fairness.
A fair step may be a failure (`PostStep` is one disjunction), so success is not assumed.
`ObjectLookup` has the same fairness, of `LookupStep`, for the same reason; browsers (`Begin`), the
registry's changes and the cache's expiry have none. `pages` excludes a failing logger
and killed workers, for which `LookupsEnd` is not claimed. `RegistrarPages` has it of `Step`; workers may die, which ends
a visit too. `RecordStatement` has it of `Serve`: a call to a service that is down fails rather than waits, and nothing makes a service come back.

## 5. The proofs

`PublicRequestsProofs` assumes only what the modules state as assumptions:
`NullAssumption`, `NullIsNoObject` and `NullIsNoCommand` (None is none of the values it is used
beside) and `DeskAssumption` (the instance posts forms and names faults of
the model). The numbers of handlers, keys, handles and errors are arbitrary. So do the two modules on top of it.

- `TypeCorrect`: `Spec => []TypeOK`. `TypeOK` is not inductive: to see that
  what `Publish` stores is a response, one needs that a handler at that point holds a
  valid form, a key and an id. `Ready` adds that, for each `pc`, and that the log
  requests handlers hold exist. `ReadyStep` has one lemma per action. `PostFrame` and `VisitFrame`
  reduce each to what the action does to the state of its own handler. Below them
  are lemmas about the operators (`ResponseType`, `AboutType`, `PdfAboutType`: what the
  views compute of a valid form is what cache and logger can hold).
- `RepliesAreTruthful`: `Spec => []OutcomeTruthful`. The invariant speaks of the reply only,
  which is known last; `Handled` says for every `pc` which requests a handler has made
  (none before the call; exactly the one remembered after a call that returned; none when
  the error is a known one; at most one, otherwise). It rests on `Ready` for the types
  and on `CreateRequestOf`: a request that is created is its POST's and nobody else's.

All theorems about `PublicRequests` hold with a logger and without (`LoggerEnabled` is any Boolean); the run `races` has one.

`PublicRequestsPageProofs` is about what leaves a POST under its key. The properties speak of keys that lead to something;
what makes them true is the invariant `Good`, over `Ready` and `Handled`: a key is drawn by one POST (`KeysDiffer`); a request in the registry is the command of
the form its POST still holds (`RequestGood`); whatever is in the cache or in a visitor's hands was published by the POST that
drew the key, of that form and of an id of its own (`Published`). `Published` survives every step because POSTs only gain
what it mentions (`Grows`), so the proof of each action is about its own handler. The rest is about tables, not about
interleaving: `NamesAgree`, `ResponseDescribes` and `PageFits` say for every form that is valid that log name, command, response and page agree.

- `KeysLeadToOwnRequests`: `ResponsesDescribeRequests`.
- `RedirectsLeadToPages`: `RedirectFitsResponse`. The tables alone do not give it: a page that is given a form without its
  confirmation method would be the wrong one, and it is `RequestGood` that excludes such a form.
- `HitsAreServed`: `HitIsServed`, which is a part of `Good`.

`PublicRequestsLogProofs` adds the logger. Its invariant `Audited` says that a log request belongs to one handler (`LogsDiffer`), is open
until the "finally" of that handler and then says what is known (`PostLog`, `VisitLog`), that a request was made under
the log request of its POST (`RequestLogged`), and that what nobody owns stays open: a log request whose
opening was not acknowledged is never closed. `PostLogFrame` and `VisitLogFrame` reduce a step to its own log request.

- `RequestsAreLogged`: `LogDescribesRequest`, with the lemma `LogDescribes` about the tables.
- `LogsAreTruthful`: `AuditTruthful`. The requests made under a log request are those of its owner (`MadeUnder`), of which `Handled` knows.
- `SuccessesAreAudited`: `SuccessIsAudited`.
- `ClosedLogsAreFinal`: the action property `ClosedLogIsFinal`; a handler closes a log request that `Audited` says is open.

The last part of `PublicRequestsPageProofs` is the step simulation of `ImplementsDesk`. `PostMove` and `VisitMove` say what a step may do to the
reply, the key and the registry; each such step is `Register`, `Refuse`, `Accept`, `Fail` or `Show` of the desk, or none
(`PostsRefine`, `VisitsRefine`). `Handled` decides between `Refuse` and `Accept`. `Good` is needed twice: a POST that draws a key could otherwise become "shown" by
an answer someone had before, and an answer could show two requests at once. `RequestsImplementDesk` is the theorem.

`RequestFormPageProofs` assumes in addition that the empty input is none of the options (`NullIsNoOption`) and that no handle is too long (`HandlesAreShort`); the numbers of
handles and addresses are arbitrary. Its invariant `GoodPage` has three parts: `PageStates`, the page is typed; `PageFits`, the inputs are
those of its view; `Follows`, the inputs follow the choice. None of the properties alone is inductive: a form shown again keeps its
method only because the script had put the method back to the default when it disabled it, and that is part of `Follows`.
`ReadyFollows`, `ClickedFollows` and `ShownAgainIsUnready` say what the script's handlers do with such a page.

- `PageTypeCorrect`, `ScriptKeepsInputs`: `TypeOK` and `InputsFollowChoice`, from `GoodPage`.
- `ScriptAgreesWithForm`: `PostIsAccepted`, in both directions: nothing but the texts of handle and address makes the form refuse what the script lets
  through. `MethodChanged` could break it by choosing the custom e-mail
  while the method stays disabled; the proof shows that this branch never changes anything where the script runs.
- `PagesGiveConfirmation`: `ConfirmationIsGiven`, also without the script, where `PageFits` shows that nothing is ever disabled.
- `NothingIsRetyped`: the action property `ChoicesSurvive`, from the same invariant before the step.

`RegistrarPagesProofs` assumes of the constants that the contents of the registry are typed (`MomentsAssumption`,
`RegistrarsAssumption`) and that None is neither an answer of the registry nor one of the file manager (`NullIsNoAnswer`). The numbers of visitors,
registrars, groups, files and changes are arbitrary. There are two invariants.

- `Good` says for every `pc` what a handler holds (`VisitGood`), and of every download who is responsible for it
  (`DownloadGood`): its owner is about to read or finalize it, or was killed, or was failed by the file manager. `DownloadsAreReleased` alone
  speaks of handlers that have replied, and is not inductive. From `Good` follow `RegistrarTypeCorrect` and `NoDownloadIsForgotten`.
- `Memory` adds what is true of the answers a handler remembers: each is of a moment since it began, and these moments are
  in the order of the calls (`FileRemembered`, `AbsenceRemembered`, `ListRemembered`). Moments stay where they are when the
  registry changes, and a handler's moments only grow; that is all a proof needs to know of the other actors. From `Memory` follow
  `FilesAreNotExchanged`, `AbsenceIsTrue` and `ListsAreOfTheirTime`.

`RecordStatementProofs` assumes that the services are the logger and the statement service (`ServicesAssumption`), that
None is not a number (`OutagesAssumption`) and not an outcome (`NullIsNoOutcome`). The numbers of threads, subjects and outages are arbitrary, so it
covers any race to set up the clients. Its invariant `Good` has the parts

- `ClientsGood`: no reference is younger than the object it leads to. This includes a reference that a thread has resolved
  and not stored yet (in `ThreadGood`), as a slow thread stores it over the reference of a faster one;
- `LogGood`: a log request belongs to one thread, is open as long as the thread is not done, and is then closed with
  the outcome, or the logger was unavailable;
- `CauseGood`: `troubled` has recorded everything that is unavailable now, so a call that fails has its cause there.

`NothingIsPrintedUnlogged` and `LogsGetClosed` follow from `LogGood`, `FailuresHaveCauses` from `CauseGood`.

`ObjectLookupProofs` assumes what the module states (section 3). The numbers of lookups, handles, languages, statuses and changes are arbitrary, and
so are the records, within `FitsKind`. There are two inductive invariants.

- `Good` has the types, with what each `pc` implies (`Ready`): the tasks that are left are of the right form, a handler before its
  log request has none, one at work has no reply. It says of every log request that it has one owner (`LogsDiffer`), that it is open while its owner
  loads the object, and what it says once it is closed (`Logged`). `RepliesAreLogged` alone speaks of answered handlers and is not inductive: that the
  result written at "finish" fits the page rendered later needs `Answerable`, which relates `found` and `server_exception`.
- `Memory` adds what is true of the answers a handler remembers. `FoundRemembered` and `ShownRemembered`: what it holds is what the registry held at a moment
  since it began; the registry's past only grows (`Grows`), so nothing others do can undo that. `PendingRemembered`: the objects still to be loaded were
  there at such a moment, because `Sound` held when they were referred to. `Gathered`: what is shown, with what is still to be loaded, is all that belongs
  to the page. This is the heart of `PageShowsItsObjects`, as an nsset or keyset adds tasks while the page is being built. `TextsFit`:
  tasks come in an order (`Ordered`, `Begun`) in which the statuses of an object are looked up in the table of its own kind. `Explained`: an error has its
  cause. The cached tables are authentic. `RestFits`, `ContinuedRemembers` and `BelongingGrows`
  say what the next task makes of these.

From `Good` follow

- `Types`: `TypeOK`.
- `LogsTell`: `RepliesAreLogged`. Here the code's order matters: the log is closed before the related objects are loaded, so an "Ok" may precede a server error, and
  no other disagreement is possible.

and from `Memory`

- `AnswersAreFromTheTime`: `AnswersFromTheTime`. A search may combine five moments, but each part of its answer was true at one of them.
- `PagesAreComplete`: `PageShowsItsObjects`.
- `ErrorsHaveCauses`: `ServerErrorHasCause`. Where nothing fails, a `KeyError` needs a table other than the registry's. A missing object is one that
  belongs on the page (`Gathered`) and was there at a moment since the handler began (`PendingRemembered`); so it was deleted at a later one.
- `TablesAreTrue`: `TablesAreAuthentic`. Two workers that miss at once both store; what they store is a table of the key they store it under.

Two assertions of the model were made precise on the way. `PageShowsItsObjects` left out the references of an
nsset in "deleteCandidate", which the code skips for domains only (`views/detail_domain.py` 108); and `TypeOK`
did not bound the codes of exception pages and of errors.

`DomainHandlesProofs` assumes only that None is no text and that a zone has a label; handles are of any length, and zones of any numbers of labels. The property needs no invariant but the handle's type. Its proof is about
`ExampleDomain`: the handle is plain, so nothing begins after its last label (`NothingFollows`); it has more than two labels, so a full stop comes
before the last and another before that one (`PlainHasLastLabels`, which needs the last of some positions, `LastPosition`, from the well-foundedness of
the subset order); a match cannot begin before that full stop nor end elsewhere, so the leftmost match, which the
code's `re.search` takes, is the last two labels (`ExampleIsGroup`); and they are a name of two labels (`GroupIsName`). `ExamplesAreLastLabels` is the theorem.

Checked by TLC only: liveness (`LogRequestsGetClosed`, `LookupsEnd` and the `VisitsEnd` of two modules), because the prover has no rule for fairness; and
the three statements that do not hold (section 6).

## 6. Where code and documentation differ

- `confirmation` (`views/public_request.py` 73, 150, 215): the confirmation method is
  optional in the forms, and required by the command for a custom address or a
  lock. A POST without it passes validation and ends in a `KeyError`, a server error,
  with no call made; the command is documented to raise when the call failed. Only a client other than the site's pages
  sends such a form: `ConfirmationIsGiven` shows that no page does, with or without the script.
- `views/public_request_mixin.py` 43, 55 (no run): a response id of None is documented to give
  "Fail"; with an unexpected exception the result remains "Error". The code is what
  `AuditTruthful` needs: a lost answer must not be a "Fail".
- `dots` (`views/detail_domain.py` 90, 91): the example domain is cut out of the handle as it was typed,
  by an expression that knows the full stop only, while the labels the registry counts are
  those of `idna.encode`, which also splits at the ideographic and full-width dots. A
  handle typed with them (shortest: three labels of one letter) is a name with too many labels without
  an example, the assertion fails, and the page is a server error. With full stops only and a last label
  as zones have it, there is an example, the last two labels (`example`).
- `views/detail_domain.py` 87-92 (no run): the comment reminds that a name may have more full stops, "for example: '0.2.4.e164.arpa'", and removes
  subdomains "'www.sub.domain.cz' -> 'domain.cz'". In a zone of several labels the two do not go together: for a handle under
  `0.2.4.e164.arpa` the example shown is `e164.arpa`, which is no name of the zone. The page does not know the zone the handle is too long for.
- `forms/public_request.py` 76-78 and `webwhois.js` 36-48 (no run): "This field is required." is what script and form say of an empty handle, but of one that consists
  of blanks only the form says it.
- `diagnostic` (`views/public_request.py` 671): the message about a missing public request prints the
  id of the log request.

## 7. What is not modelled

- Template filters (`templatetags/`): pure functions of one value, tables of texts for the flags and algorithms of a key and
  formatting. A model would repeat their tables.
- Settings, URLs and application config: declarations. `LoggerEnabled`, `logger_set`, `Pages` and `Asked` stand for what the
  models use of them.
- Templates and translations: layout and wording.
- Of the CORBA wrapper, `WebwhoisCorbaRecoder`, which converts dates and texts; the clients of WHOIS, of the public requests and of the file
  manager, which are made like the two that are modelled. In the other modules a client that cannot be set up is a call that fails.
- The search form (`views/form_whois.py`) only redirects to the search; `response_not_found` is a static page.
- The order of the rows of a registrar list, and deprecation warnings.
- The registry, the logger and the file manager themselves, which appear as what the code relies on.
