# templatemap: a verification project

templatemap renders Go text templates that build SQL statements, HTTP requests
and command lines, executes them, and keeps the answers in a volume that later
templates read. These TLA+ modules model the library beside its code. TLC
checks small instances, TLAPS proves the most important properties for every
value of the constants.

Contents: the system, the modules and the code, the runs, fairness, the
disagreements found, the proofs, what is not modelled, and the plan.

## The system

| component | source | state it keeps | operations |
|---|---|---|---|
| repository | `repository.go`, `util/func.go` | the parsed templates, `metaMap` | AddTemplateByDir/FS/Str, RegisterMeta, GetMeta, TemplateExists, ExecuteTemplate |
| volume | `repository.go` | a map of roots to values, some of them JSON text | SetValue, GetValue |
| conversions | `repository.go`, `template_core_func.go`, `template_func.go` | none | convertType, getSetValueInt, getSetNumber, toBool, strval |
| template functions | `template_core_func.go`, `template_func.go` | the volume only | executeTemplate, execSQLTpl, execCURLTpl, execBinTpl, toSQL, in, currentTime, setValue, getSetValue, toJson, ... |
| tables | `util/func.go`, `template_core_func.go` | the volume only | column2Row, row2Column, getSetColumn2Row, getSetRow2Column |
| DB provider | `provider/provider_example_db.go` | a `sql.DB`, opened at the first use | GetDb, GetSource, Exec |
| CURL provider | `provider/provider_example_curl.go` | an `http.Client`, built at the first use | GetClient, GetSource, Exec |
| BIN provider | `provider/provider_example_bin.go` | none; a subprocess during a call | Exec |
| schemas, transfer | `jsonschema.go`, `template_core_func.go` | a tree of schemas | Init, GetTransferPaths, Valid, FormatJson, TransferDataFromVolume |
| validation | `util/func.go`, `format_checker.go` | gojsonschema's table of formats | Validate, ValidDBChecker |

(Paths are below `src/`.)

How they interact. A caller makes a volume with NewVolume, which stores the
repository in it, and calls `repository.ExecuteTemplate`. text/template calls
the functions of the template with the volume. `executeTemplate` takes the
repository out of the volume and renders another template with the same
volume, from within the rendering. `execSQLTpl`, `execCURLTpl` and
`execBinTpl` render a template in this way, bind its placeholders (SQL only),
look its provider up in the metas, call `Exec`, and store the answer under
`<template>Out`. One goroutine renders one request; any number of them share the
repository and the providers. Errors are panics inside the functions, which
text/template turns into an error of the rendering, which the function around
turns into a panic again.

What is hard here:

- goroutines that meet in the first GetDb or GetClient, outside and inside of
  sync.Once, and a failed initialiser inside it;
- three goroutines, a subprocess and the processes it leaves behind, around
  pipes of limited size;
- placeholders numbered from a shared index while templates nest;
- failures on their way through nested renderings, after statements took effect;
- a call over the network whose connection breaks, whose answer comes late, in
  part or never, and which somebody may repeat;
- lookups that go through JSON text inside of JSON text;
- values carried over one by one, in any order, into one document;
- Go maps walked in random order; files edited between two readings;
- a database that breaks off in the middle of an answer, or has no connection left.

What makes each component correct is stated under *Runs*; every hazard is in
`PROJECT.json` at its line, with the properties that watch it.

## Modules and code

**LazyHandle** (GetDb, GetClient, GetSource, InitHTTPClient). Every access to
the handle field and every step of sync.Once is an action: the unsynchronised
test of the handle (`CheckHandle`), the fast path, mutex, second test, deferred
store and unlock of Once (`Once...`), the initialiser that succeeds in two
steps or panics, and the second read of the field (`LoadHandle`).
`RequiresDSN` selects GetDb, which refuses an empty DSN before the Once, or
GetClient. The owner of the provider may change its Config between calls. A
read of the handle is atomic: a one-word pointer is not torn on any platform Go
supports. **SharedHandle** is what callers may rely on: a cell that is settled
once, open or failed; LazyHandle implements it (`SharedSpec`).

**DbQuery** (dbProvider, SQLType, the end of a statement's way). A caller
formats a statement (`Formatted`: one line, so that a comment takes all that
follows), sends it as a query or not (`IsSelect`), reads rows and result sets
one by one, and answers with the empty string, one value, rows, or sets. The
database may refuse at any time, send any reply, fail to scan a row, or break
off. Connections are counted because `rows.Close` is deferred on ways out that
leave rows unread. A row is a function from the columns to values, so two
columns of one name are one, as they are in the map MapScan fills.

**BinProvider** (binProvider). The state is that of the caller, of the three
goroutines that serve the pipes, of the child and of an *heir*, a background
process that keeps the child's output pipes; pipes hold `PipeCap` chunks.
Descriptors (`fds`) are opened pipe by pipe, each of which may fail.

**TemplateExec** (ExecuteTemplate in `repository.go` and the functions that
execute). A template is a list of operations, a frame one activation of
text/template; frames form a stack whose top runs. `Call` pushes a frame,
`ReturnText`, `ProviderAnswers` and `Unwind` pop one. The volume's keys are
variables of their own: named values, `__inIndex`, `in_<k>`, `<template>SQL`,
`<template>Out`. A statement is a list of tokens with the values bound to
them. **Script** is the promise, without frames: a script of effects, executed
in order, each once, up to the first failure; TemplateExec implements it with
the script that its templates spell out (`ScriptSpec`).

**CurlRequest** (ReadRequest, Request2RequestData, CURlProvider). A raw request
is what the program tells apart: blank or not, with a URL or a path only, GET or
POST, the length of its body and the one it declares, whether its header has an
Idempotency-Key, the seconds its `x-http-timeout` asks for. `Seconds` chooses among header, configuration and
default, `Duration` multiplies with 64 bits (`Overflow` is the number of seconds
at which it wraps). Getting the client is a step of **SharedHandle**, so
the module composes with LazyHandle through the abstract cell that LazyHandle
implements. net/http and the server are external: a request goes out on a
connection that waits or on a new one, is executed as long as a copy of it is
under way (`flying`, `strays`), is answered, redirected or cut off, and repeated
by net/http on a fresh connection if it is a GET, has an Idempotency-Key
(`Replayable`; the program copies headers as they are) or was never written. Seconds
pass by `Tick`, which waits for timers that are due.

**JsonTree** is what Volume and Transfer share, without state: documents as
trees, gjson.Get and sjson.Set on them (`At`, `SetIn`), `GetValueFromJson`, the
loop over ever shorter prefixes with its recursion, `ValueOf`, which is
getValue, and `Add2json`. In a path `#` stands for all rows of an array; when
it is written every `#` becomes the same index. What the code does by
recursion is written as functions over the length of the path: a lookup from
the end of the path up (`Lookups`, on the values that are that far below the
document, `Levels`), a write likewise (`Rebuilt`), so that it can be reasoned
about. A document that is itself a JSON string is entered, by gjson, at the first
bracket in its characters: `Entered` is the array that strings in each other hold
(an object cannot be made out behind its escaped quotation marks), with the
elements up to the first that has a quotation mark (`Legible`); that one runs on
to the end of the text, and what it yields is `Garbled`.

**Volume** (SetValue, GetValue, getSetValue, toJson). A value is a tree; a
string may hold the JSON text of a tree; a key is a root and a path. Whether a
value is well formed is looked at as deep as `Depth`, and what the templates
set ends within it (`InputsAssumption`, `Ends`), as do the defaults, volumes and
documents of Transfer. Calls whose outcome lies in the characters of a text inside
a text are left out, each where it would happen: a SetValue whose path goes on
to an element of an array inside a string, which sjson writes among the characters
of the string (`IntoText`), and a getSetValue or toJson that reads what is
`Garbled` (`MadeOut`). `PathsAssumption` keeps numbers and a second `#` from
following a `#`, where gjson would look into strings that are rows.

**Transfer** (schemas of `jsonschema.go`, TransferDataFromVolume,
AddParent2Json, FormatJson). A schema is a function from the data paths of its
nodes (updateDataPaths) to types, source, default, `required` and `allowEmpty`;
the links to parents are the paths without their last segment. `todo` are the
transfer paths that are left; they come in any order, because GetTransferPaths
and Valid walk Go maps. `PlacesAssumption` leaves out of the schemas what is left
out of Volume, and rows below a place that a source fills. `Carry` is a turn of the loop, `AddParent` a
turn of the loop over the parents of what was left out, `Complete` a turn of
FormatJson.

**Conversion** (convertType, strval, getSetValueInt, getSetNumber, toBool).
Values carry their Go type; a dotted key holds JSON, where each number is read
back as a float64. Numbers are counted in halves; `Exact` stands for 2^53, and
numbers go up to twice that. `Rounded` is the nearest float64, of halves, integers
or even integers by the size of the number, and of two equally near ones that
with an even significand. A text of digits or of a truth value is `plain` if it
is as Go writes it, and not if it says the same otherwise (`00`, `-0`, `TRUE`):
toBool and strconv.ParseBool compare characters.

**ColumnRow** (Column2Row, Row2Column, getSetColumn2Row, getSetRow2Column). A
place of the volume holds a table as columns or rows, as text or as a
structure. The order in which Go walks the map of columns is an arbitrary
choice: which column comes first decides how many rows there are.

**Registry** (AddTemplateByDir, AddTemplateByFS, AddTemplateByStr,
RegisterMeta, ParseFiles, GlobDirectory, GlobFS, getPattern,
GetTemplateNames). Files are found by pattern, parsed one by one into the set,
and parsed a second time to learn the names to return; a file may be edited
once during each addition. An empty body does not replace one with text.
AddTemplateByStr under the empty name, that of the repository's own template (`Root`), parses
into that one, under any other name into one it makes or finds.

## Runs

| run | bounds | distinct states | what it shows |
|---|---|---|---|
| lazy | 3 goroutines, DSN empty, bad or good | 5,024 | `SingleOpen`, refinement of SharedHandle; every call returns (`GetsReturn`) |
| bin | 2 words, 1 line, 2 chunks, pipes of 1 | 110,182 | a success has all output (`OutputComplete`); nothing stays open or running after it (`NothingLeft`); every call returns (`CallReturns`) |
| exec | 4 sets of templates, 3 registrations, 2 requests | 7,145 | `InValuesKept`, `OutIsLatest`, `OutAnswersSQL`, refinement of Script |
| volume | 1 root, 9 paths, 3 calls | 107,955 | `ReadYourWrites`, `LookupIsWalk`, `OthersKept` |
| conversion | 23 values of all types, 1 plain and 1 dotted key | 25,588 | what is converted keeps its meaning (`MeaningKept`) |
| column_row | 2 names, 2 rows, a value and null | 2,485 | `ThereAndBack`, `CellsKept` |
| db_query | 2 callers, 1 connection, 5 replies, 4 statements | 25,137 | `ConnectionsReturned`, `AnswerFaithful`; a call that the database answers returns (`CallReturns`) |
| registry | 3 files, 6 contents, 4 directories, 2 additions | 4,105,714 | `LaterWins`, `NamesResolve`, `NeverBlanked` |
| curl | 2 callers, 5 requests, 1 idle connection, 2 hops, 1 chunk, times of 1, 2 and 5 s | 612,576 | `SuccessIsAnswered`, `PostOnce`, `TimeKept`; every call returns (`CallsReturn`) |
| transfer | 24 schemas, 51 volumes, 8 documents | 7,860 | `DeliveredInAnyOrder`, `RowsKept`, `ParentsPresent`, `FormatOnlyFills` |

`CallersAgree` and `FailureIsPermanent` (LazyHandle), `FailureStops`
(TemplateExec) and `RectangularTurns` (ColumnRow) are stated and proved for all
values of the constants, and no run repeats them.

Why the bounds are enough.

- *lazy*: a race needs one goroutine in the initialiser, one that waits and
  one that overtakes. The run sets `RequiresDSN`: GetClient then is what GetDb
  does while the DSN is not empty, and the theorems hold for both values.
- *bin*: a pipe of one chunk and two to write make every writer wait for its
  reader; two writers to one pipe need the heir.
- *exec*: the four programs nest calls to a depth of three, execute a template
  whose text executes another, number placeholders before and after such a
  call, run a template twice, and fail in each of the ways a rendering can
  fail; the second request starts from the volume that the first one left.
  They do not call each other in a circle: the code does not prevent an
  endless rendering.
- *volume*: a path of two segments has a strict prefix, the root, and a
  segment that is a number, so that arrays and objects replace each other; `#`
  and `#.a` are a list and a column of rows. The third call reads or overwrites
  what the first two built, JSON text in JSON text included; one of the values is
  an array in a text in a text, with an element that can be made out and one that
  cannot.
- *conversion*: the instance's largest exact integer is 64, so that 67, 32.5 and
  65.5 are rounded; zero is given as `0`, `00` and `0.0`; 12 and 53 are the
  character codes of a blank and of a digit.
- *column_row*: two names and up to two rows give ragged, empty and absent
  columns, and two orders of the map.
- *db_query*: two callers compete for one connection; the replies have no
  row, one value, NULL, two rows, and three sets with an empty one between.
- *registry*: three files in nested directories, two of the same base name, that
  define each other's templates, may be empty or not parse; each directory finds
  other names, and the second addition meets what is there.
- *curl*: two callers compete for one idle connection, and each can be left
  with a copy of its request under way while the other calls; two hops allow one
  redirection; the times are shorter than, equal to and longer than the default,
  and one overflows. Ten hops, ten and thirty seconds are the constants of
  the code; the theorems hold for all values.
- *transfer*: the schemas are those in which a step can meet another: two values
  in one object, a value in an object of its own, two columns of one list, a list
  as a whole, of objects or of texts, a list as the root, and a value within the
  place of another, with and without defaults, a default that is no list, requirements, types and
  sources; the volumes lack, or hold null, a value, a list, rows with gaps, or rows
  in JSON text. Within the place of another the order of the paths does matter,
  as it does for a number and a name in one place; the properties are about
  places that part at two names (`Apart`). That parents are there in the end is
  said of `Regular` schemas: a parent that has a default which is no object, or
  that is an array with names in it, gets a body its values do not fit in.

Deadlock is checked everywhere but in *volume*, *registry* and *transfer*, which
stop: the first two at the bound on calls, the last when its work is done
(`CHECK_DEADLOCK FALSE`); TemplateExec has an explicit `Terminated` step for its
bound on requests instead. `MaxRequests`, `MaxCalls`, `Paths`, `Depth`,
`Looked` (the places of a document that FormatOnlyFills asks for), `MaxRows`,
`MaxLines`, `MaxChunks` and `PipeCap` are the bounds; the theorems hold for
every value of those in the modules proved.

Every property has a mutant in `PROJECT.json`: a definition, altered as a
plausible bug would alter it (a deferred Close that is missing, an index not
written back, a list not started anew), under which TLC finds the property
violated. The altered definitions stand before the ones they replace, marked
*Mutant*; no specification uses them.

## Fairness

- `LazyFairSpec` (LazyHandle): weak fairness of each goroutine inside a call. Go
  schedules preemptively, and the only wait is for a mutex whose holder needs
  nobody else. A caller is never forced to call.
- `FairSpec` (BinProvider): weak fairness of the caller, of each goroutine and
  of the processes: they write what they have to write and end. It is an
  assumption about the command, for binProvider has no timeout: a command that
  never ends keeps the call waiting for ever.
- `FairSpec` (DbQuery): weak fairness of what a goroutine does by itself (`Own`).
  The database owes nothing: db.Exec and db.Query get no context, `Config.Timeout`
  is never read, and the driver has no read timeout unless the DSN sets one. So
  not every call returns, and `CallReturns` does not say so: it is about a call
  whose every wait the database ends (`Served`, weakly fair for this call in the
  premise of the property), whether by an answer, a refusal or a broken
  connection, while others may wait for ever and keep their connections.
- `CurlFairSpec` (CurlRequest): weak fairness of each caller (getting the client,
  sending, timers that are due) and of the initialiser of the client; strong
  fairness of `Tick`, for time passes although callers come and go in between, and
  a tick is only disabled while one of them has something to do. The network and
  the server have no fairness: they may never answer.

Safety properties do not depend on fairness: the theorems are about the
specifications without it.

## Disagreements found

| run | the code | what is said of it |
|---|---|---|
| bin_status | a command that fails is a success: an error is wrapped around a nil one | "we need the exit status of the subcommand" (`provider_example_bin.go:107`) |
| transfer_root | a missing value of the root without a default ends the transfer with a panic, if any other value was there | "没有默认值，则直接跳过", it is just skipped (`template_core_func.go:444`) |

Each of these runs checks the quoted statement alone; TLC finds it violated by
what the code does. The models contain, without a run of their own:

- BinProvider: the text is put on one line before it is split at its first
  line, so that the body becomes arguments and stdin stays empty, where
  `provider_example_bin.go:79` says "Write request body to subprocess stdin"; a
  StdinPipe that fails ends the call with no error (`:55`);
- DbQuery: rows.Err is not asked, so that a connection that breaks before the
  first row is an empty result (`provider_example_db.go:110`); `Formatted` joins
  the lines of a statement, so that a comment swallows what follows (that it also
  collapses the blanks of quoted values is not modelled);
- ColumnRow: row2Column of a structure panics (`template_core_func.go:205`);
- Conversion: an int read as text becomes the character of that code
  (`repository.go:171`); reading the int 10 into a bool panics, which
  TestConvertType does (`repository_test.go:36`);
- Registry: AddTemplateByStr does not return the name it added
  (`repository.go:312`);
- DbQuery: a database that does not answer keeps the call for ever, although
  the configuration has a `timeout` (`provider_example_db.go:29`);
- CurlRequest: a raw request with only a path is completed in a field that is
  not read, and goes nowhere (`provider_example_curl.go:232`); the dial timeout is
  ten seconds whatever the configuration says (`:103`); a header of more seconds
  than a duration holds ends the call at once (`:152`);
- Transfer: FormatJson, which says "填充默认值", it fills in defaults
  (`template_core_func.go:385`), writes the zero of the type over each default it
  has set (`:416`), so that no default survives; `FormatOnlyFills` states what the
  code does, the zero, and a value of the document is lost where the schema
  has a place below it; a required value that
  is missing is never an error, because the root counts as one that may be missing
  (`jsonschema.go:147`); a value that is found keeps its own type, whatever type
  the schema has (`template_core_func.go:587`);
- JsonTree: all `#` of a path become one index, so that a list of lists is
  written along its diagonal, where the comment at `template_core_func.go:534`
  says that this solves the conversion of such lists.

## Proofs

Four facts are behind every theorem `Spec => []P`: the initial state satisfies
an inductive invariant, `IInv`, each action keeps it, a step that changes
nothing keeps it, and it implies `P`. Two models that are proved about in one
module have prefixes in their names (`LazySpec`, `CurlSpec`, `TableSpec`,
`ConvSpec`, `TransferSpec`).

**ConnectionProofs**, about LazyHandle (any set of goroutines). The invariant
says who is inside the Once: whoever is between the lock and the unlock holds
the mutex, the handle is opened at most once and only before `done` is set, and
a goroutine past the Once finds it done. Results: `LazyTypes`,
`SingleOpenHolds`, `CallersAgreeHolds`, `FailureIsPermanentHolds`, and
`Refinement`, each step of LazyHandle is a step of SharedHandle or leaves it as
it is. Assumed: `NoProc` is no goroutine.

**ConnectionProofs**, about CurlRequest (any callers, requests, times, hops,
connections and chunks). The invariant says of each call what holds at its step
(`AtStep`: who waits for an answer whose request is not under way was executed),
that a POST without a key which is about to be sent has left no copy behind (`Once`), and that
the limit of the context is the number of seconds the request was due
(`Timed`); without the latter nothing ties the limit to the configuration at
the deadline. `DurationFits` is the arithmetic of the duration. Results:
`CurlTypes`, `SuccessIsAnsweredHolds`, `PostOnceHolds`, `TimeKeptHolds`.

**BinProviderProofs** (any words, chunks and capacities). IInv accounts for
each chunk: to be written, in the pipe, or read; it ties goroutines and
descriptors to the step of the caller. Results: `TypeCorrect`,
`OutputCompleteHolds`, `NothingLeftHolds`.

**TemplateExecProofs** (any templates, nesting, metas and number of requests).
IInv says that `ins` is what was issued up to `__inIndex`, that no
frame's text has a placeholder beyond it, that a statement under way is the one
in `<template>SQL`, and that the log has at most one failure of this request, at
its end. Results: `TypeCorrect`, `InValuesKeptHolds`, `OutIsLatestHolds`,
`OutAnswersSQLHolds`, `FailureStopsHolds`.

The second half of the module proves `ScriptRefinement`, that TemplateExec
implements Script: each step maps to the next effect of the script, to the end of
a request, or to a stutter. The plan that spells the script out is a recursive
function of the nesting depth; `PlansUnfold` shows that it has a value,
`PlansSettle` and `PlanIsScript` that the plan of a template is made of the plans of those it calls, which holds
because the templates are finite in number and do not call each other in a
circle (`TemplatesAssumption`, `AcyclicAssumption`: text/template would not end
else). The refinement needs three more invariants: each frame was called by the
one below it, with the operation that frame is at (`ChainInv`); there are places
in the script, one per frame, so that what is in the log since the request began
reaches up to the place of the topmost frame (`PlaceInv`); and what is in the
log is the beginning of the script (`DoneInv`).

**DbQueryProofs** (any callers, connections, replies, columns). IInv adds to
the types: while a call reads, the sets and rows it has are the sets and rows
sent so far (`Reading`); what is to be returned is all of them or all until
the break (`Answered`); what is executed was no query (`Executing`).
`OneMoreRow` and `OneMoreSet` carry the first from a row to the next. Without
`Executing` the answer of an insert could not be told from one of a query.
Results: `TypeCorrect`, `ConnectionsReturnedHolds`, `AnswerFaithfulHolds`.

**RegistryProofs** (any files, names, directories, contents, additions). IInv
says which files the two readings have behind them (`AllFound`), that the names
gathered so far are those of the files read again (`NamesSoFar`), and that what
was handed out is there (`HandedOut`), which is what `NamesResolve` says of the
end of a call. `OneMoreFile` carries "the last that has text wins" over one more
file. A plain directory finds all its files (`PlainFindsAll`). Results:
`TypeCorrect`, `NeverBlankedHolds`, `LaterWinsHolds`, `NamesResolveHolds`.

**DataProofs**, about ColumnRow (any names, values and number of rows). The
lemmas say what Column2Row and Row2Column do to a rectangular table in any order
of the map, and to any table cell by cell. Results: `TableTypes`,
`RectangularTurnsHolds`, `CellsKeptHolds`, `ThereAndBackHolds`.

**DataProofs**, about Conversion (any keys and inputs up to twice the largest
exact integer, which may be any). Types are inductive by themselves. The lemmas
say, type by type, what parsing the text of a value yields, that rounding moves a
number by at most one, and only where floats no longer have its halves (`RoundedNear`), that
rounding twice is rounding once (`RoundedOnce`), and that truncation stays within
one of the number. Results: `ConvTypes`, `MeaningKeptHolds`.

**JsonTreeProofs** are the laws of gjson, sjson and GetValueFromJson as the
models define them, for all documents and paths. A value is a member of a set
that has, with each of its members, the values this one is made of, all of them
well formed (`Value`); nothing bounds its depth. One lemma per recursive
function gives its equation (`...Unfold`), and statements about all paths are
proved by induction over their length, with the set of the lengths for which
they hold (`SetInduction`, which is the induction theorem of the library without
the operator it takes as a parameter). Results, on which the modules below rest:

- `SetFacts`: what is set at a path is found there, and the result is a value;
- `SetApart`: setting a place leaves the lookups alone whose path diverges;
- `ReadsIsWalk`: GetValueFromJson, which tries ever shorter prefixes and starts
  again in the strings it finds, finds what a walk from the top finds that looks
  into JSON text as if it were the object or array, and into strings of strings as
  gjson enters them; it panics where the walk meets a text that is no JSON, and
  nothing is said of a walk that meets what cannot be made out;
- `Column`: what was written row by row is read as a column.

**DocumentProofs**, about Volume (any roots, paths, inputs and number of
calls). IInv says that each root holds a value or nothing (`VolInv`) and that
the latest call had a key and a value (`LastInv`); a call is one Add2json and
one lookup then, and the laws above are carried from documents to keys.
Results: `Types`, `WritesAreRead` (ReadYourWrites), `LookupsAreWalks`
(LookupIsWalk), `CallsKeepOthers` (OthersKept, an action property).

**DocumentProofs**, about Transfer (any schemas, volumes, documents, any order
of the paths, any number of rows). `TransferTypes` says that what is formatted,
sent and written are values. `CarryCases`, `AddParentCases` and `CompleteCases`
say once what each action can do, and the invariants are proved from them:

- `Filling`, for FormatJson: what no fillable place is below is what it was, and
  what is no longer in `todo` is there, with the zero of its type if it was missing
  and nothing is below it. `SetNew` says that setting what is missing takes nothing away that
  does not lie above it, `SetLeaves` that it puts nothing at another empty place.
  Result: `FormattingFills`.
- `Carrying`, for the transfer. That every value is there in the end is not
  inductive: a list of values that goes to its rows one by one is the list only
  if nothing was there before, and a body is added only if there is room. So the
  invariant says, while some paths are left (`Carried`): the others have what is
  due, at the rows and as a list (`Arrived`); where a list is to come there is
  nothing yet (`Untouched`); no array stands where a path goes on with a name
  (`Room`); for what was left out the parent is remembered or has its body
  (`LeftOut`); and an error has its reason (`Misfit`). `SetShape` and
  `RoomIsEnough` tell that room stays and is all a write needs, `AddKeeps`,
  `AddThere` and `AddList` what a write keeps and brings, `ArrivedByBody` that
  a body changes only what is above it, where no value is (`NotAbove`).

Results: `TransferTypesHold`, `ValuesDelivered` (DeliveredInAnyOrder),
`RowsStayTogether` (RowsKept; `ColumnOfRows` is what gjson makes of a `#` on the
way), `ParentsAreThere` (ParentsPresent), `FormattingFills`.

The assumptions are those on the constants, named in the modules that declare
them and evaluated by TLC in each run.

Only model-checked: the liveness properties, because TLAPS has no ENABLED here.
Every safety property that a passing run checks is stated by a theorem.

## Not modelled

- Parsing of schemas, which is decoding of JSON, and GetByFullname and
  SetByFullName, which nothing calls; the latter decodes into a nil pointer and
  always returns the error.
- Validation: Validate is one call of gojsonschema. Of the format checkers only
  the one for numbers is registered, for phones as well (`format_checker.go:20`);
  the expressions of the others have slashes around them and match nothing.
  ValidDBChecker renders a template and reads its answer from the volume, which
  TemplateExec and Volume model; nothing calls its Msg.
- Text helpers (casing, hashes, amounts, joining): functions of characters
  without state. Example templates are data.
- Third-party code is modelled as it is used: text/template as a stack of
  frames, sjson and gjson on trees without wildcards other than `#`, sync.Once
  step by step, database/sql as a count of connections and a list of replies,
  net/http as connections that are used again and requests that are repeated,
  os/exec as pipes and processes.
- Concurrent writes to one volume or to the metas: Go ends a process that
  writes a map from two goroutines, and callers use a volume in one goroutine.
- Calls whose outcome lies in the characters of a text inside a text (Volume,
  above).
- Fractions finer than halves, exponents, the negative zero, NaN and numbers
  beyond twice 2^53 in Conversion; the structs and maps
  that ToSQL accepts beside a volume (getNamedData): the templates pass volumes.

## Plan

Done: the core (LazyHandle, BinProvider, TemplateExec, Volume), the tables, the
database, the registry, the requests of the CURL provider, the transfer of data
along schemas; the proofs of all safety properties. Left:

1. **ValidDB**: ValidDBChecker on top of TemplateExec, two validations in turn.
2. The struct and map arguments of ToSQL (getNamedData) in TemplateExec.
