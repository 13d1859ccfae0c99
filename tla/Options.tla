------------------------------- MODULE Options -------------------------------
(* configx.New: functional options, each of which changes one field of an    *)
(* Options, applied in the order given.  Some options keep the slice or the  *)
(* map their caller passed and others copy it, when they are applied; the    *)
(* caller makes loaders one after another and may write to what it passed    *)
(* in between.                                                               *)
EXTENDS Naturals, Sequences, FiniteSets, FiniteSetsExt, SequencesExt

CONSTANTS
  Loaders,          \* loaders the caller makes
  Arrays,           \* its arrays, each with slices of it, and its maps
  Elems,            \* what they hold: names of files, arguments, entries, ...
  Fields,           \* fields of Options that are no slice and no map
  Values, Blank,    \* what they are set to; "", nil, or no positive duration
  Extensions,       \* of files, normalized; Blank is no extension
  DotenvFiles, Sources,     \* the default dotenv files and priority
  MaxWrites,        \* bound: writes of the caller
  Inputs            \* [given : [Loaders -> Seq(Option)],
                    \*  memory : [Arrays -> Seq(Elems)]]

\* A slice is the first len places of a cell, an array of the caller's or one
\* that an Options has to itself; its capacity is all of the cell.
SliceFields == {"files", "dotenvFiles", "priority", "args", "customSources", "defaults"}
Own   == Loaders \X SliceFields
Cells == Arrays \cup Own
Slice == [cell : Cells, len : Nat]

\* An option by what it does to which of the fields it is for (a parser, for
\* which extension).  WithFileGlobs has the sorted matches of its patterns in
\* items, WithSources its sources, nil ones included.
Ops == {"nil", "value", "givenValue", "slice", "dotenv", "args", "globs",
        "sources", "defaults", "defaultsTyped", "typedDefaults", "parser"}
FieldsOf(op) ==
  CASE op \in {"value", "givenValue"}        -> Fields
    [] op = "slice"                          -> {"files", "priority"}
    [] op = "dotenv"                         -> {"dotenvFiles"}
    [] op = "args"                           -> {"args"}
    [] op = "globs"                          -> {"files"}
    [] op = "sources"                        -> {"customSources"}
    [] op \in {"defaults", "defaultsTyped"}  -> {"defaults"}
    [] op = "typedDefaults"                  -> {"typedDefaults"}
    [] op = "parser"                         -> Extensions \cup {Blank}
    [] OTHER                                 -> {Blank}
Option ==
  {o \in [op : Ops,
          field : Fields \cup SliceFields \cup {"typedDefaults"} \cup Extensions \cup {Blank},
          value : Values \cup {Blank},
          slice : [cell : Arrays, len : Nat], items : Seq(Elems \cup {Blank})] :
     /\ o.field \in FieldsOf(o.op)
     /\ o.op = "globs" => o.items \in Seq(Elems)}

ASSUME BlankAssumption == Blank \notin Values \cup Elems \cup Extensions \cup Loaders
ASSUME FieldAssumption ==
  /\ Fields \cap Extensions = {}
  /\ (Fields \cup Extensions) \cap (SliceFields \cup {"typedDefaults", Blank}) = {}
  /\ Blank \notin SliceFields \cup {"typedDefaults"}
ASSUME ArrayAssumption == Arrays \cap Own = {}
ASSUME DefaultAssumption == DotenvFiles \in Seq(Elems) /\ Sources \in Seq(Elems)
ASSUME InputAssumption == \A in \in Inputs :
  /\ in.memory \in [Arrays -> Seq(Elems)]
  /\ \A b \in Loaders : /\ in.given[b] \in Seq(Option)
                        /\ \A i \in 1..Len(in.given[b]) :
                             LET s == in.given[b][i].slice IN s.len <= Len(in.memory[s.cell])
ASSUME BoundAssumption == MaxWrites \in Nat

VARIABLES
  given,        \* the options of each loader
  at,           \* the next of them to apply; 0 before New
  latest,       \* the loader New makes, or has just made; Blank after a write
  opts,         \* the Options of each loader
  memory,       \* what the cells hold
  writes

optionVars == <<given, at, latest, opts, memory, writes>>

\* A value no option has set is "default".  typedDefaults is a value, or Blank
\* for a nil map; the map of hasDefaults is in slices.
OptionsRecord ==
  [values : [Fields -> Values \cup {Blank, "default"}],
   slices : [SliceFields -> Slice],
   hasDefaults : BOOLEAN,
   typedDefaults : Values \cup {Blank}, typedDefaultsErr : BOOLEAN,
   fileParsers : [Extensions -> Values \cup {Blank}]]

OptionsTypeOK ==
  /\ at \in [Loaders -> Nat]
  /\ latest \in Loaders \cup {Blank}
  /\ opts \in [Loaders -> OptionsRecord]
  /\ memory \in [Cells -> Seq(Elems)]
  /\ \A b \in Loaders, f \in SliceFields :
       LET s == opts[b].slices[f] IN s.len <= Len(memory[s.cell])
  /\ writes \in 0..MaxWrites

OwnDefault(f) == CASE f = "dotenvFiles" -> DotenvFiles
                   [] f = "priority" -> Sources
                   [] OTHER -> <<>>

NewOptions(b) ==
  [values |-> [f \in Fields |-> "default"],
   slices |-> [f \in SliceFields |-> [cell |-> <<b, f>>, len |-> Len(OwnDefault(f))]],
   hasDefaults |-> FALSE,
   typedDefaults |-> Blank, typedDefaultsErr |-> FALSE,
   fileParsers |-> [e \in Extensions |-> Blank]]

OptionsInit ==
  /\ \E in \in Inputs :
       /\ given = in.given
       /\ memory = [c \in Cells |-> IF c \in Arrays THEN in.memory[c]
                                                   ELSE OwnDefault(c[2])]
  /\ at = [b \in Loaders |-> 0]
  /\ latest = Blank
  /\ opts = [b \in Loaders |-> NewOptions(b)]
  /\ writes = 0
-----------------------------------------------------------------------------
(* New and the options.                                                      *)

Built(b) == at[b] > Len(given[b])
Busy     == latest # Blank /\ ~Built(latest)

New(b) ==
  /\ ~Busy /\ at[b] = 0
  /\ at' = [at EXCEPT ![b] = 1]
  /\ latest' = b
  /\ UNCHANGED <<given, opts, memory, writes>>

\* The option that buildOptions comes to.
Opt == given[latest][at[latest]]
Applying(op) == Busy /\ Opt.op = op

\* It leaves the Options as o and the memory as m.
Leaves(o, m) ==
  /\ opts' = [opts EXCEPT ![latest] = o]
  /\ memory' = m
  /\ at' = [at EXCEPT ![latest] = @ + 1]
  /\ UNCHANGED <<given, latest, writes>>

O == opts[latest]
Content(s) == SubSeq(memory[s.cell], 1, s.len)

SkipNil == Applying("nil") /\ Leaves(O, memory)

\* WithEnvPrefix, WithFlagSet, WithIgnoreDotenvError, WithValidator,
\* WithValidateLevel, WithWatchErrHandler, WithObservability, WithDebug.
WithValue ==
  /\ Applying("value")
  /\ Leaves([O EXCEPT !.values[Opt.field] = Opt.value], memory)

\* WithEnvSeparator, WithArgsNameFunc, WithWatchDebounce, WithLogger.
GivenAlways(v) == v         \* a slip
Given(v) == IF v = Blank THEN O.values[Opt.field] ELSE v
WithGivenValue ==
  /\ Applying("givenValue")
  /\ Leaves([O EXCEPT !.values[Opt.field] = Given(Opt.value)], memory)

\* WithFiles, WithPriority.
WithSlice ==
  /\ Applying("slice")
  /\ Leaves([O EXCEPT !.slices[Opt.field] = Opt.slice], memory)

WithDotenv ==
  /\ Applying("dotenv")
  /\ Leaves(IF Opt.slice.len = 0 THEN O
            ELSE [O EXCEPT !.slices["dotenvFiles"] = Opt.slice], memory)

\* A cell of its own for field f, holding items.
OwnSlice(f, items) == [cell |-> <<latest, f>>, len |-> Len(items)]
OwnMemory(f, items) == [memory EXCEPT ![<<latest, f>>] = items]

ClonedLate(s) == s          \* a slip
Cloned(s) == OwnSlice("args", Content(s))
WithArgs ==
  /\ Applying("args")
  /\ Leaves([O EXCEPT !.slices["args"] = Cloned(Opt.slice)],
            OwnMemory("args", Content(Opt.slice)))

\* Go's append writes into the array when there is room behind the slice, and
\* copies the slice to an array of its own otherwise.
HasRoomByOne(s, items) == s.len + Len(items) <= Len(memory[s.cell]) + 1    \* a slip
HasRoom(s, items) == s.len + Len(items) <= Len(memory[s.cell])
AppendTo(f, items) ==
  LET s == O.slices[f] IN
  IF HasRoom(s, items)
  THEN Leaves([O EXCEPT !.slices[f].len = @ + Len(items)],
              [memory EXCEPT ![s.cell] = [i \in DOMAIN @ |->
                 IF i \in (s.len + 1)..(s.len + Len(items)) THEN items[i - s.len] ELSE @[i]]])
  ELSE Leaves([O EXCEPT !.slices[f] = OwnSlice(f, Content(s) \o items)],
              OwnMemory(f, Content(s) \o items))

WithFileGlobs == Applying("globs") /\ AppendTo("files", Opt.items)

NonNil(items) ==
  FlattenSeq([i \in DOMAIN items |-> IF items[i] = Blank THEN <<>> ELSE <<items[i]>>])
WithSources == Applying("sources") /\ AppendTo("customSources", NonNil(Opt.items))

DefaultsAlone(s) == [O EXCEPT !.slices["defaults"] = s, !.hasDefaults = TRUE,
                              !.typedDefaults = Blank]      \* a slip
DefaultsSet(s)   == [O EXCEPT !.slices["defaults"] = s, !.hasDefaults = TRUE]
WithDefaults     == Applying("defaults") /\ Leaves(DefaultsSet(Opt.slice), memory)

WithDefaultsTyped ==
  /\ Applying("defaultsTyped")
  /\ Leaves(DefaultsSet(OwnSlice("defaults", Content(Opt.slice))),
            OwnMemory("defaults", Content(Opt.slice)))

\* Blank is a value that is no object.
TypedDefaultsErr(v) == v = Blank
WithTypedDefaults ==
  /\ Applying("typedDefaults")
  /\ Leaves([O EXCEPT !.typedDefaults = Opt.value,
                      !.typedDefaultsErr = TypedDefaultsErr(Opt.value)], memory)

WithFileParser ==
  /\ Applying("parser")
  /\ Leaves(IF Opt.value = Blank \/ Opt.field = Blank THEN O
            ELSE [O EXCEPT !.fileParsers[Opt.field] = Opt.value], memory)

ApplyOption ==
  \/ SkipNil \/ WithValue \/ WithGivenValue \/ WithSlice \/ WithDotenv
  \/ WithArgs \/ WithFileGlobs \/ WithSources \/ WithDefaults
  \/ WithDefaultsTyped \/ WithTypedDefaults \/ WithFileParser

\* The caller writes to an array or a map of its own.
CallerWrites(a, i, e) ==
  /\ ~Busy /\ writes < MaxWrites
  /\ i \in DOMAIN memory[a] /\ e # memory[a][i]
  /\ memory' = [memory EXCEPT ![a][i] = e]
  /\ latest' = Blank
  /\ writes' = writes + 1
  /\ UNCHANGED <<given, at, opts>>

CallerStep == \E a \in Arrays, e \in Elems : \E i \in DOMAIN memory[a] : CallerWrites(a, i, e)

OptionsNext == (\E b \in Loaders : New(b)) \/ ApplyOption \/ CallerStep

OptionsSpec == OptionsInit /\ [][OptionsNext]_optionVars
-----------------------------------------------------------------------------
(* Properties.                                                               *)

\* What b is to load: its Options, with what the slices hold now.
Settings(b) ==
  [opts[b] EXCEPT !.slices = [f \in SliceFields |-> Content(@[f])]]

\* The options of b that decide about field f, and those that add to it.
OptionsOf(b, f) == {i \in DOMAIN given[b] : given[b][i].field = f}
Deciding(b, f) == {i \in OptionsOf(b, f) :
  LET o == given[b][i] IN
  \/ o.op \in {"value", "slice", "args", "defaults", "defaultsTyped", "typedDefaults"}
  \/ o.op = "dotenv" /\ o.slice.len > 0
  \/ o.op \in {"givenValue", "parser"} /\ o.value # Blank}
Decided(b, f) == Max(Deciding(b, f) \cup {0})
Added(b, f) == FlattenSeq([i \in DOMAIN given[b] |->
  IF i > Decided(b, f) /\ given[b][i].op \in {"globs", "sources"} /\ given[b][i].field = f
  THEN NonNil(given[b][i].items) ELSE <<>>])

SetTo(b, f, default) ==
  IF Decided(b, f) = 0 THEN default ELSE given[b][Decided(b, f)].value
Listed(b, f) ==
  IF Decided(b, f) = 0 THEN OwnDefault(f) ELSE Content(given[b][Decided(b, f)].slice)

Expected(b) ==
  [values |-> [f \in Fields |-> SetTo(b, f, "default")],
   slices |-> [f \in SliceFields |-> Listed(b, f) \o Added(b, f)],
   hasDefaults |-> Decided(b, "defaults") # 0,
   typedDefaults |-> SetTo(b, "typedDefaults", Blank),
   typedDefaultsErr |-> Decided(b, "typedDefaults") # 0 /\ SetTo(b, "typedDefaults", Blank) = Blank,
   fileParsers |-> [e \in Extensions |-> SetTo(b, e, Blank)]]

\* Two options of b have one array, and behind the files of one there is room.
SlicesOf(b) == {i \in DOMAIN given[b] :
  given[b][i].op \in {"slice", "dotenv", "args", "defaults", "defaultsTyped"}}
Aliased(b) == \E i, j \in SlicesOf(b) :
  LET s == given[b][i].slice IN
  /\ i # j /\ given[b][j].slice.cell = s.cell
  /\ given[b][i].field = "files" /\ s.len < Len(memory[s.cell])

\* When New returns, each field is what the last option for it made it, the
\* ones that pass nothing not counted; the files are those of the last
\* WithFiles and the matches of every WithFileGlobs after it, and no glob
\* before it; all sources are there, in order (options_apply.go:5).  That is
\* unless matches have been written over what another option was passed.
BuiltAsGiven ==
  latest # Blank /\ Built(latest) /\ ~Aliased(latest)
    => Settings(latest) = Expected(latest)

\* No two options are about one field.
Independent(b) ==
  \A i, j \in DOMAIN given[b] :
    i # j /\ given[b][i].op # "nil" => given[b][i].field # given[b][j].field
Counts(s, x) == Cardinality({i \in DOMAIN s : s[i] = x})
Rearranged(s, t) == /\ Len(s) = Len(t)
                    /\ \A i \in DOMAIN s : Counts(s, s[i]) = Counts(t, s[i])

\* The options of an application's modules, which fx collects in an order of
\* its own (fx/module.go:25), come to the same loader in every order when no
\* two of them are about one field.
FxOrderDoesNotMatter ==
  \A b, c \in Loaders :
    /\ Built(b) /\ Built(c) /\ writes = 0
    /\ Rearranged(given[b], given[c]) /\ \A d \in Loaders : Independent(d)
    => Settings(b) = Settings(c)

\* The caller's cells that b was told to keep for field f.
Kept(b, f) ==
  {given[b][i].slice.cell :
     i \in {j \in OptionsOf(b, f) : given[b][j].op \in {"slice", "dotenv", "defaults"}}}

\* What a loader that New has returned is to load changes only in the files,
\* dotenv files, priority or defaults its caller passed, never in arguments,
\* typed defaults or sources; and only when the caller writes to them, or makes
\* a loader whose globs go into the room behind the same files.
LoadersKeepTheirOptions ==
  [][\A b \in Loaders : Built(b) =>
       /\ opts'[b] = opts[b]
       /\ \A f \in SliceFields : LET s == opts[b].slices[f] IN
            SubSeq(memory'[s.cell], 1, s.len) # Content(s) =>
              /\ s.cell \in Kept(b, f)
              /\ \/ writes' # writes
                 \/ Busy /\ latest # b /\ s.cell \in Kept(latest, "files")]_optionVars
=============================================================================
