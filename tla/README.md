# configx in TLA+

configx is a Go library that builds a configuration from defaults, dotenv
files, config files, custom sources, the process environment and the command
line, that can watch the files and reload, and that derives command-line flags
from a configuration struct.  This directory models its options, its load pipeline
and its arguments, its concurrent watchers and the hooks that run them in an fx
application, and its schemas down to the texts of their flags.  TLC checks the
models on small instances; TLAPS proves almost all of their safety properties
for every instance.

## The system: inventory

| component | state | operations | modelled by |
|---|---|---|---|
| `Watcher` (watch.go, watch_runtime.go) | `cfg`, `subs`, `providers`, `stopCh`; per Start: `reloadCh`, debounce timer | NewWatcher, Start, OnChange, Config, Close; provider callbacks; timer callback `reload` | `Watcher` |
| `WatcherT` (watch.go) | `current` | OnChange wrapper, Config, RawConfig | `TypedWatcher` |
| load pipeline (loader_core.go, loader_sources.go, env.go, file.go, custom_source.go) | a koanf instance per load, the process environment, counters | `loadConfigFromOptions` and its stages | `Loader` |
| arguments (args.go) | none | raw arguments and changed flags into one map | `Args`; one stage of `Loader` |
| options (options.go, options_apply.go) | `Options`, partly in memory of the caller's | New, the `With...` functions | `Options` |
| schema and flags (schema*.go) | bindings; a value per bound flag | SchemaOf, BindFlags, Set/Append/Replace, String/GetSlice | `SchemaValues`, `Schema`, `SchemaFlags` |
| `Load[T]` and `Config` (loader.go, config_impl.go, get.go) | an immutable koanf | Load, Unmarshal, GetAs, GetAsOr, validation | `TypedLoad` |
| fx module (fx/module.go) | none | OnStart: `go Start`; OnStop: cancel, Close; collects options | `FxWatcher`; `Options` |
| formats, errors, logging, examples | none | | not modelled |

How they interact.  A provider (koanf's `file.File` on fsnotify) calls back in
its own goroutine and puts a token into `reloadCh`, a channel of one place that
drops what does not fit.  The loop in `run` takes the token and resets a
debounce timer; `time.AfterFunc` runs `reload` in one more goroutine, which
loads everything again through the load pipeline, stores the new `*Config` and
calls the handlers registered at that moment.  A typed handler is a plain one
that decodes, validates and stores `current`.  `Close` can be called by any
goroutine, and is called by `run` when its context is done.  All loads of a
process share its environment, which the dotenv stage writes.  A schema's flags
carry the koanf path of their field as an annotation, by which the args stage
puts the changed ones into the config.  Loaders keep slices and maps of whoever
called `New`, and a watcher reads its Options again at every reload.

What is hard: reloads that overlap, events that arrive at any point of a
reload, a timer that fires while the loop is closing, a Start that fails half
way, Close against Start, dotenv values that outlive the load that set them,
and the two snapshots of a typed watcher; and, without any concurrency, what a
flag without "=" takes for its value, names that mean one path, structs inside
structs, a binding that must happen as a whole, slices that two loaders share,
and items that go through CSV.  PROJECT.json lists these as hazards, each at
its line.

What makes each component correct:

- `Watcher`: no reported change is lost before a load has read it; snapshots
  only move forward; handlers and `Config()` agree; a failed or cancelled Start
  leaves nothing watched; no reload begins after Start returned; Start and
  Close return; what was missed, whatever went wrong, is made good by the next
  load that succeeds.
- fx module: OnStop and the goroutine of OnStart end in every order; a watcher
  that has watched its providers is stopped cleanly; the order of the options does
  not matter.
- options: the last option for a field decides, and additions are kept; a
  loader's settings stay what they were when New returned.
- `Load[T]`: a T without an error is decoded and valid; an error comes with the
  zero T and the class of the stage that failed; the ways to read a T agree.
- `WatcherT`: the typed snapshot is always a valid one, agrees with what typed
  handlers are given, and catches up with the raw snapshot.
- load pipeline: every key has the value of the last source that defines it;
  a load alone only ever fills in the environment, and loads beside one another
  replace at most what dotenv files gave, with what they read before an edit; each
  load and each stage is counted once, with the right result.
- arguments: every flag before `--` counts and nothing else does; flags win over
  raw arguments, and the last argument over earlier ones; only an ambiguous
  command line is an error.
- schema and flags: a binding for every leaf of the struct, with its paths;
  structs are rejected for the faults they can have and for nothing else;
  BindFlags registers all flags or none; a flag's value follows from what was
  done to it, and can be read back from what the flag tells, unless it is redacted.

## Modules

`ConfigView` is the abstract promise of a watcher to the readers of `Config()`:
sources have contents (version numbers), a snapshot is replaced by one that is
nowhere older and shows only contents the sources have had.

`Watcher` is the code.  Contents are version numbers too; `disk[f]` is what
file `f` holds, `cfg[f]` what `Config()` shows of it.

| in the model | in the code |
|---|---|
| `startPc`, `started` | where the goroutine in Start is: startProviders (`starting`), run (`running`), Close within run (`closing`), waitForStop (`waiting`) |
| `token` | `reloadCh` |
| `timer` | a pending `time.AfterFunc`; firing starts a reload goroutine |
| `pc[r]`, `next`, `got`, `good`, `todo` | a reload goroutine: the file it reads next, what it has read, whether the load succeeded, handlers still to call |
| `closeAt[c]` | how far a caller of Close is in the loop over the providers |
| `watching`, `event` | what each provider does (external) |
| `missed`, `sourceFailed`, `applied` | ghosts: changes nobody will report; the last load failed outside the watched files; what handlers were given |

Every action is one handler, or one step between two points where another
goroutine can come in: the loop over the providers and the loop over the files
are taken one file at a time, and loading, storing, taking the handlers and
calling each of them are steps of their own.  The file providers and the
context are external; the koanf provider reports a change only while it is
watching and may stop after an error.

`TypedWatcher` EXTENDS `Watcher` and replaces one action, the call of a
handler, by the wrapped call; everything else is the base watcher's, with both
snapshots in one state.  `rejected` is the set of contents no T can be made of.

`FxWatcher` EXTENDS `Watcher` with the hooks of an fx application.  `app` is how
far the application is; the goroutine OnStart launches may come to call Start
at any time later.  With `app = "none"` the watcher is a client's, who may make
every call at any time, so both are in one run.

`Options` is `New`: the options of a loader are records of what they do to which
field, and are applied one step each.  A slice is the first places of a cell of
`memory`, an array of the caller's or one the Options has to itself, because
some options keep what they were passed (`WithFiles`, `WithDotenv`,
`WithPriority`, `WithDefaults`), one appends to it (`WithFileGlobs`) and others
copy.  The caller makes loaders one after another and may write to its own
arrays in between.

`TypedLoad` EXTENDS `Options` with `LoadContext`: load, decode, validate, each a
step, and the readers of the Config it came to.  What koanf has at a path is
whether it is there, decodes into the type asked for, and is valid then.

`Loader` is `loadConfigFromOptions` run by several goroutines.  An item is
something that defines keys (a file, a custom source, the arguments, a map of
defaults); a value is the item it came from with its version, so precedence
can be told.  `env` is shared by the loads and outlives them.  The dotenv stage is
taken apart as `godotenv.Load` is: a file is read (`ReadDotenv`), the environment
is looked at once (`LookAtEnviron`), and then what was unset is set one variable
at a time (`SetVariable`), whatever other loads have set meanwhile.  `clean` is a
ghost: nothing was edited since the load, or one that was running when it began,
began.

`Args` is `loadArgs` with one step per token, per changed flag and per entry.
A token is its kind (`--`, `--name=value`, `--no-name`, `--name`, or a word) and
the name in it; a value is the token it came from.  `PathOf` is the name
function with its normalization.

`Schema` is `SchemaOf`: the recursive calls of `walk` are frames of `stack`,
with the place in the struct, both paths so far (`path` by the schema tag,
`load` by the koanf tag) and whether flags are wanted.  A field is what its tags
come to: its kind, what it adds to the paths, and its metadata.  The reference
it is checked against are routes, sequences of fields from the root to a leaf.

`SchemaFlags` EXTENDS `Schema` and goes on once there is a schema: the two loops
of BindFlags, preflight and registration, one binding at a time, and then the
operations on the flags.  `call` is whether BindFlags is given a flag set and a
separator; without one, or without a schema, it refuses at once (`RefuseCall`).  A
name is a sequence of pieces, `Written` is how a segment looks with the separator
put in, `Normalized` the flag set's normalize function.  `String` is what a flag
shows, in brackets if it is a slice and redacted if its field is, and `GetSlice`
its items; `GetStringSlice` is pflag's getter, which goes by `String`.  The flag set
is pflag's and external: it panics when a name is defined twice.

`SchemaValues` has what `Schema` and `SchemaFlags` say of types, values and texts:
which types have a kind, how a value is written, and how a text is parsed.  A
text is a sequence of tokens: characters, brackets, numerals and quoted texts.  A value is
a list of lists of texts: a slice of slices is several, a slice one, a scalar
one with one item.  A parser is a set, empty when it fails.  Strings stand for
what always parses, and 8-bit integers for the bases whose parser can fail.
Slices of slices are in the model because `sliceSchemaKind` lets them through
with an empty kind and no error.

`MCWatcher`, `MCTypedWatcher`, `MCFxWatcher`, `MCLoader`, `MCOptions`, `MCArgs`
and `MCSchema` give the definitions the configurations need.  The theorems are in
`WatcherProofs`, `DerivedWatcherProofs` (of `TypedWatcher` and `FxWatcher`),
`LoaderProofs`, `ArgsProofs`, `OptionsProofs` (of `Options` and `TypedLoad`),
`SchemaProofs` (of `Schema` and `SchemaFlags`) and `FlagValueProofs` (of the values
flags hold, with `SchemaValues`); `DataLemmas` has what several of them need of
numbers, of sequences and of `FlattenSeq`.

## Runs

| run | question | bounds |
|---|---|---|
| `watcher_files` | are events, saves, failing loads, failing providers, Start and Close together safe? | 2 files, 2 saves each, 1 handler, 1 client of Close, 1 Start |
| `watcher_live` | do Start, Close and OnStop return, does OnStop leave nothing watched, does `Config()` settle, does a reload make good what was missed, whatever failed before? | 2 files, no handlers; hooks and 1 save, or a client and 2 saves in all |
| `watcher_stale`, `watcher_concurrent_handlers` | what if reloads overlap? (two findings) | 2 reload goroutines |
| `watcher_close_leak` | Close while Start is still starting (finding) | 1 file |
| `typed` | do handlers, the raw and the typed snapshot agree, is the typed one valid, and does nothing start after Start returned? | 1 file, 2 saves, 2 handlers, 2 Starts, a client of Close, any set of rejected contents |
| `typed_unpublished` | is the typed snapshot published without a handler? (finding) | 1 file |
| `loader_merge` | precedence, environment and counters | 2 loads, 2 dotenv files, 2 config files, 1 custom source, 1 edit, 3 orders of priority |
| `loader_last_listed` | do sources listed later always win? (finding) | default order |
| `args` | what does loadArgs make of a command line? | every sequence of up to 3 of 18 tokens, 6 sets of flags |
| `options` | what is a loader made of, does it stay so, and what does Load return? | 2 loaders; lists of up to 2 of 21 options and up to 3 of the 5 about slices, each in both orders, or any two of up to 2 that share arrays; 1 write of the caller; 3 configs |
| `schema` | which structs have a schema, what is in it, which flags come of it, what do they hold and how is it written? | 2 types, each with up to 2 of 20 fields (5 inside); no override or one of 8; flag set empty or with one name, calls with and without a flag set and a separator; flags of strings and 8-bit integers, slices and slices of slices of them and of pointers, redacted or not, with and without a parser, up to 3 operations with texts of up to 3 tokens |

Why the bounds are enough: two files are the least with a load that is half
done, with a failure in the middle of startProviders and with a snapshot of
mixed moments; two saves of a file the least where a newer change meets an older
one in flight, and where a broken file can be mended (`MaxSaves` bounds those of
all files together: in `watcher_live` two, of one file or of both; beside the
hooks, where a reload in flight is all that a save is needed for, `SavedOnce`
leaves one); two handlers the least where one can be left behind. One key is
enough for the loader because each variable is looked at and set by itself, and
every property is about one key at a time; two items per key are the least that
can be ordered, and all choices of them are enumerated, but for items that the
priority leaves out (`MCInit`). Two loads are the least of which one sets what
the other has found unset. Three tokens are the least with a flag, what it takes
or must not take, and what comes after; two fields the least that can be in each
other's way, and two types the least for a recursion that is not immediate and
for a struct used twice; three operations the least with a failed or an unmarked
one before the first Set and another after it. Two options are the least of
which one can undo the other, three about slices the least for room behind a
slice that is passed twice; two loaders the least that can share it. `nprov`
ranges over 0..MaxFiles, so a watcher without files is in every run.
`CHECK_DEADLOCK FALSE`: a watcher that has been closed, loads that have been
made, and a command line, a schema or a list of options that has been dealt
with, may stop.

The five runs that expect a violation each state what a comment or a document
says; PROJECT.json quotes the lines under "findings".  One more disagreement is
in a property that holds: options.go:180-181 says of dotenv files that later
ones override earlier ones, and `DotenvFillsGaps` that the first one wins, since
`godotenv.Load` leaves alone what is set.

Fairness (`watcher_live`): the goroutines of Start, of each Close and of each
reload keep running, select does not starve a ready case, a watched file's
change is reported, an armed timer fires, loads and handlers return. The Go
scheduler, the runtime's timers and select's random choice justify it. The
goroutine of OnStart gets to Start, and an OnStop that has begun goes on. Nobody
is obliged to save a file, to mend one, to call Start, Close or OnChange, to
cancel, or to stop the application. `NextReloadHeals` excuses a stale config
only when the load that was due fails in its turn, or the loop ends; what failed
before does not count, as a reload stays due until the load in flight has ended.

## Proofs

Every theorem holds for any values of the constants that fulfil the named
assumptions of the modules: any number of files, handlers, goroutines, loads,
sources, options, tokens, types and fields.

`WatcherProofs`:

- `TypeCorrect`, `FailedStart`, `CancelledLoop`, `NoLateReload`: from the
  inductive invariant `TypeOK /\ StopInv`.  StopInv says what is watched in
  each phase of Start, that the timer is armed only while the loop runs or is
  closing, and that the Close called by run has unwatched the providers it has
  passed; without these the four properties are not inductive.
- `NoChangeStuck`, `HandlerSees`, `ImplementsConfigView`: under the assumption
  `SerialReloads` (at most one reload goroutine at a time), from `FreshInv`.
  It adds that a load has read of each file something between `cfg` and `disk`,
  that a finished good load is what `cfg` holds, and that each stale file has a
  pending reload.  Nothing in the code enforces SerialReloads: it holds when
  the debounce window is longer than a reload with its handlers takes, and
  `watcher_stale` shows what happens when it is not.
- `NoHandlerLeftBehind`: also under SerialReloads, from `HandlersInv`.  A handler
  that has been given a config has been given `cfg`, or the reload under way has
  taken it and has yet to call it.

`DerivedWatcherProofs` first proves that a typed watcher and one under the hooks
are watchers (`TypedImplementsWatcher`, `FxImplementsWatcher`), so that the
theorems of `WatcherProofs` carry over.

- `TypedSnapshotStaysValid` needs no assumption: it holds of overlapping reloads
  as well.  `TypedHandlerSeesBoth` and `TypedSnapshotCatchesUp` need
  SerialReloads; `TypedInv` says that the typed snapshot is never ahead of the
  raw one, and is the raw one as soon as any handler has been given it.
- `FxStopLeavesNothingWatched`, of an OnStop that begins when Start has watched
  its providers: from `CloseNotCalled` (the application does not call Close before
  its OnStop) and `Stopping`, which holds from that cancel on: Start watches no
  more files, and the Close of OnStop has unwatched those it has passed.  Of an
  OnStop that comes before or into Start it says nothing; `watcher_close_leak`
  shows what may happen then.

`LoaderProofs`:

- `LoaderTypeCorrect`: types, with `VersionInv` (no content is newer than the last
  edit).
- `LoaderKeepsEnv`: from `DotenvInv` (what a load has read of a dotenv file; what it
  has yet to set is not of the original environment, and unset if one goroutine
  loads) and `UnsetInv`: as long as a load is clean, a variable it has yet to set is
  unset or has the value it will be set to.  Only a load that is not clean can then
  replace anything.
- `LoaderFillsGaps`: from `StageInv` (how far a load is), `MetInv` (for each key
  of a good dotenv file a load has met there is a variable) and `FirstInv` (while
  nothing is edited, a variable the loads have set is of the first such file);
  the last two are about all loads, since each sets what the others read, and need
  UnsetInv: a load has met no earlier good file that defines what it has yet to set.
- `LoaderPrecedence`: from `MergedInv`, which says of a load half way that each
  key has the value of the last item met that defines it, the environment
  counting as one item with whatever other loads have put there.
- `LoaderMetricsAgree`: the counters are numbers of loads by status and by the
  source that failed, at every moment; every action is shown to move at most
  one load from one of these sets to another.

`ArgsProofs`:

- `ScanFindsEveryFlag`: from `ScanInv`, which says that the entries are those of
  the flags before the index and that no `--` has been passed.
- `ErrorsAreAmbiguities`: from `VisitInv` (the flag entries are those of the
  flags visited), `NamesInv` (namesByPath knows the entries applied, and nothing
  else, so that a group got through without a conflict has none) and
  `ErrorInv`; these make up `ArgsInv`.
- `FlagsOverLastArgument`: from `ArgsInv` and `ValueInv`, which gives the value
  of each path after any number of entries of either group.

They assume that a name is not the empty path and that the flags of a flag set
have different names, as pflag sees to.

`OptionsProofs`, for any lists of options, any arrays they share and any number
of writes of the caller's:

- `LoadTypeCorrect`: from `StateInv`; a slice stays inside its array, and a
  loader's slices are in arrays of its own or of the caller's.
- `OptionsAreKept` (an action property): from `KeptInv`, which traces a slice
  that is in the caller's memory to the last option that decided the field.
  Whatever else changes what a loader has is then a write into just that array.
- `LoadIsValidOrError` and `ReadersDoAgree`: from `ValuesInv` (each field without
  a slice is what the options so far make of it) and `ResultInv` (what Load has
  got to, at each of its steps).
- `OptionsBuildAsGiven`: adds `SlicesInv`, what a loader's slices hold after the
  options so far.  That is inductive only while nobody else writes to them, which
  `Steady` says: the loader is the latest and shares nothing within itself, or
  nothing has been written and no globs have gone behind files of the caller's.
- `FxOrderIsImmaterial`: two rearrangements of a list without two options for
  one field come to the same, by counting occurrences.

`SchemaProofs`, for any finite set of struct types, any fields, tags and
overrides, any names and normalize function, and any operations on the flags:

- `RejectsOnlyFaults`, `SchemaHasEveryLeaf`: the reference is the set of routes
  through the struct, the code a stack. `StackInv` and `FramesInv` say that the
  calls of walk are at the fields of one route (`Place`), no type twice, and
  have been passed the paths and the nocli it spells. A route is `Gone` when it
  comes before that place in the order of the fields; each action is shown to
  make at most one more route gone (`GonePass`, `GoneEnter`, `GoneLeave`,
  `GoneLast`). `LeavesInv` and `StructsInv` say that the bindings, and the paths
  seen, are those of the leaves gone, all sound and different, and that no
  struct gone is inside itself; when the stack is empty all routes are gone.
  `PathsInv` is the part about paths alone.
- `BindsAllOrNothing`, `FlagsReach`: from `FlagsInv`, which says after any number
  of bindings which names preflight has passed, that they are free and
  different, and which flags are registered, and that a call that is to be refused at
  once gets no further.
- `FlagsLeaveTheSchema`: SchemaFlags implements Schema.

`FlagValueProofs`, for any types, defaults and names, any operations and any
texts (what is given has quotes, and quotes inside them, but none deeper; what
is written of it may be deeper by as many as slices add):

- `WrittenIsRead`: what is written of a list of texts as CSV is read as that list,
  unless it is a single blank.  By induction on the list: `FieldIs` says that a
  field that is written has no comma outside quotes and is read as itself, and
  `FormatThenCut` that one field more is one cut more.
- `FlagsRoundTrip` and `FlagsTypeCorrect`: from `ValuesInv` (a binding has a default
  of its type, and shows that default written or the redaction) and the first part
  of `UsesInv`: flags hold values of their types.  That a value of a type is
  written so that it is read back is `WrittenValue`, one case per depth of slices;
  a slice of slices has a line of CSV inside each field (`ListBack`).  `ItemsBack` is
  the same for the items of GetSlice given to Replace, and `BracketsStripped` says that
  what pflag cuts off the String of a slice is its brackets, whatever is between.
- `FlagValuesFollowOps`: from the rest of `UsesInv`, which is `ValueIs` (a flag holds
  its default, or the last overwriting operation and what has come after it),
  `SetIs` (it counts as set once a Set of it was taken) and the fact that only
  slices gain anything.  `ParsedIs` says that the texts of Append and Replace,
  written to one line and read from it, come to what each comes to by itself, or
  fail if one does; `Taken` and `NotTaken` say what one more operation does to the
  last that overwrote and to those since.

They assume that a default is a value of its field's type (`InputAssumption`), as
reflection sees to.

How induction is done: `NatSetInduction` in `DataLemmas` is the induction
principle for a set of numbers, proved from the library's well-foundedness of
`<`; what would be a predicate elsewhere is the set of the numbers that fulfil
it.  With it `DataLemmas` proves that `FlattenSeq` of a sequence with one more at
the end is that of the sequence and the one (`FlattenAppend`), that of two
sequences is the two (`FlattenConcat`), its type, and what it is when all but one
are empty.  `SeqSetInduction` is the same for a set of sequences: it has all if it
has the empty one and any of its own with one more at the end.

TLC checked the properties, and the inductive invariants of the watcher and the
options, before they were proved.  Each invariant and action property that a
passing run checks is a theorem.  Left to TLC alone are the liveness properties of
`watcher_live`, under fairness, which the prover cannot do.

## What is left out, and the assumptions on what is external

- koanf's provider: it reports each change of a watched file at least once,
  and a report covers the content at that moment; reports of changes within
  its few milliseconds of duplicate filtering are one report.
- Start is called again only after it failed; a second Start of a running or
  closed watcher is not modelled.
- Debounce durations: the timer may fire at any moment after it was armed, so
  starvation by continuous saves cannot be seen.
- A write is one step: a half-written file is a broken content followed by a
  good one.
- Nested keys, key conversion, decoding, validation rules, error texts, spans
  and durations.  The typed accessors of Config (`GetInt` and the like), `All`
  and `Snapshot`, which hand on what koanf gives.
- Loaders made at the same time from one slice: two goroutines that append to it
  would race, and New promises nothing about that.
- What a file pattern matches: a glob comes as its matches.
- Texts with spaces or carriage returns, which encoding/csv treats in ways of
  its own, and wider integers than 8 bits.  A parser of the caller's that gives
  a wider number than the field is cut to its bits without an error (`Converted`);
  no property objects to it.
- Usage texts, hidden and deprecated flags, the redaction in error messages, the
  String of a flag value that was never registered (nil), and the copying of
  defaults (`cloneSchemaValue`), so flags sharing memory with a default are not
  looked for.  Of pflag's getters only GetStringSlice is modelled.
- Formats (each registers an external parser), errors, logging and examples.

## Plan

1. The arguments and a schema's flags as one: the flags of a schema never make a
   command line ambiguous (`FlagsReachTheirFields` feeding `Args`).
2. `ConfigView` for the readers of a watcher under the hooks, and liveness of the
   typed watcher.
