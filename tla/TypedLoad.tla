------------------------------ MODULE TypedLoad ------------------------------
(* Load[T] on a loader made from options: the config is loaded, decoded into *)
(* a T and validated.  The Config stays, for its own readers.                *)
EXTENDS Options

CONSTANTS
  LoadsFrom,    \* the loaders that a T is loaded from
  Paths, Root,  \* of a config; Root is the empty path
  ExtOf,        \* [Elems -> Extensions \cup {Blank}], of a file
  FileSource,   \* SourceFile, as an element of a priority
  Struct,       \* ValidateLevelStruct; the other levels validate nothing
  Trees         \* what sources can come to: [Paths -> Held]

\* What is at a path for the type it is read into, and whether the value it
\* decodes to, the zero value when there is nothing, satisfies a validator.
Held == [is : {"absent", "undecodable", "decodable"}, valid : BOOLEAN]

ASSUME PathAssumption == Root \in Paths
ASSUME LoadAssumption == LoadsFrom \subseteq Loaders /\ "validateLevel" \in Fields
ASSUME TreeAssumption == \A t \in Trees :
  t \in [Paths -> Held] /\ t[Root].is # "absent"

VARIABLES
  phase,        \* of the load from each loader
  cfg,          \* the Config it made, or Blank for a nil one
  result        \* what it returned

loadVars == <<optionVars, phase, cfg, result>>

Config == [level : Values \cup {Blank, "default"}, tree : Trees]
Errors == {"nilConfig", "ErrLoad", "ErrUnmarshal", "ErrValidate"}
Result == [value : {"zero", "decoded", "fallback"}, errs : SUBSET Errors]

ASSUME NilAssumption == Blank \notin Config \cup Result

LoadTypeOK ==
  /\ OptionsTypeOK
  /\ phase \in [LoadsFrom -> {"idle", "decode", "validate"}]
  /\ cfg \in [LoadsFrom -> Config \cup {Blank}]
  /\ result \in [LoadsFrom -> Result \cup {Blank}]

LoadInit ==
  /\ OptionsInit
  /\ phase = [b \in LoadsFrom |-> "idle"]
  /\ cfg = [b \in LoadsFrom |-> Blank]
  /\ result = [b \in LoadsFrom |-> Blank]
-----------------------------------------------------------------------------
(* Reading a Config.  A reader gives a value and no error, or errors.        *)

Value(v)     == [value |-> v, errs |-> {}]
Failing(es)  == [value |-> "zero", errs |-> es]
Failed(r)    == r.errs # {}

\* koanf leaves the target alone when there is nothing at the path (external).
Unmarshaled(c, p) == IF c.tree[p].is = "absent" THEN Value("zero") ELSE Value("decoded")

Unmarshal(c, p) ==
  CASE c = Blank                       -> Failing({"nilConfig"})
    [] c # Blank /\ c.tree[p].is = "undecodable" -> Failing({"ErrUnmarshal"})
    [] OTHER                           -> Unmarshaled(c, p)

\* validateStruct, on what p decodes to.  A level it does not know is no level.
InvalidUnlessDefault(c, p) == c.level # "default" /\ ~c.tree[p].valid   \* a slip
Invalid(c, p) == c.level = Struct /\ ~c.tree[p].valid

UnmarshalWithValidate(c, p) ==
  IF ~Failed(Unmarshal(c, p)) /\ Invalid(c, p) THEN Failing({"ErrValidate"})
                                               ELSE Unmarshal(c, p)

GetAs(c, p) == Unmarshal(c, p)

FallsBackOnError(c, p) == Failed(GetAs(c, p))       \* a slip
FallsBack(c, p) == \/ c = Blank
                   \/ p # Root /\ c.tree[p].is = "absent"
                   \/ Failed(GetAs(c, p))
GetAsOr(c, p) == IF FallsBack(c, p) THEN Value("fallback") ELSE GetAs(c, p)
-----------------------------------------------------------------------------
(* LoadContext.                                                              *)

\* loadFiles comes to a file without a parser (parserFor).
Unsupported(b, file) ==
  ExtOf[file] = Blank \/ opts[b].fileParsers[ExtOf[file]] = Blank

In(x, s) == \E i \in DOMAIN s : s[i] = x
CannotLoad(b) ==
  \/ opts[b].typedDefaultsErr
  \/ /\ In(FileSource, Content(opts[b].slices["priority"]))
     /\ \E file \in Elems : /\ In(file, Content(opts[b].slices["files"]))
                            /\ Unsupported(b, file)

Loading(b) == b \in LoadsFrom /\ Built(b) /\ ~Busy /\ phase[b] = "idle"

\* newConfig: the level goes into the Config with what was loaded.
NewConfig(b, tree) == [level |-> opts[b].values["validateLevel"], tree |-> tree]

LoadInternal(b, tree) ==
  /\ Loading(b) /\ ~CannotLoad(b)
  /\ cfg' = [cfg EXCEPT ![b] = NewConfig(b, tree)]
  /\ phase' = [phase EXCEPT ![b] = "decode"]
  /\ UNCHANGED <<optionVars, result>>

Return(b, r) ==
  /\ phase' = [phase EXCEPT ![b] = "idle"]
  /\ result' = [result EXCEPT ![b] = r]

\* It may fail in any source, and when CannotLoad it has to.
LoadFails(b) ==
  /\ Loading(b)
  /\ cfg' = [cfg EXCEPT ![b] = Blank]
  /\ Return(b, Failing({"ErrLoad"}))
  /\ UNCHANGED optionVars

UnmarshalOutput(b) ==
  /\ b \in LoadsFrom /\ phase[b] = "decode" /\ ~Failed(Unmarshal(cfg[b], Root))
  /\ phase' = [phase EXCEPT ![b] = "validate"]
  /\ UNCHANGED <<optionVars, cfg, result>>

UnmarshalFails(b) ==
  /\ b \in LoadsFrom /\ phase[b] = "decode" /\ Failed(Unmarshal(cfg[b], Root))
  /\ Return(b, Unmarshal(cfg[b], Root))
  /\ UNCHANGED <<optionVars, cfg>>

ValidateOutput(b) ==
  /\ b \in LoadsFrom /\ phase[b] = "validate"
  /\ Return(b, IF Invalid(cfg[b], Root) THEN Failing({"ErrValidate"}) ELSE Value("decoded"))
  /\ UNCHANGED <<optionVars, cfg>>

OptionsStep == OptionsNext /\ UNCHANGED <<phase, cfg, result>>

LoadNext ==
  \/ OptionsStep
  \/ \E b \in LoadsFrom :
       \/ \E tree \in Trees : LoadInternal(b, tree)
       \/ LoadFails(b) \/ UnmarshalOutput(b) \/ UnmarshalFails(b) \/ ValidateOutput(b)

LoadSpec == LoadInit /\ [][LoadNext]_loadVars
-----------------------------------------------------------------------------
(* Properties.                                                               *)

\* A T that Load returns without an error was decoded from what was loaded and
\* satisfies the validator, if ValidateLevelStruct is the last level given;
\* with an error of one class only, the one of the stage that failed, there is
\* the zero T.  No T comes from a loader whose last typed defaults were no
\* object (loader.go:64-65, options.go:374).
LoadReturnsValidOrError ==
  \A b \in LoadsFrom : result[b] # Blank /\ phase[b] = "idle" =>
    LET level == SetTo(b, "validateLevel", "default") IN
    IF Failed(result[b])
    THEN /\ result[b].value = "zero" /\ Cardinality(result[b].errs) = 1
         /\ "ErrValidate" \in result[b].errs => level = Struct
    ELSE /\ result[b].value = "decoded"
         /\ cfg[b].tree[Root].is = "decodable"
         /\ level = Struct => cfg[b].tree[Root].valid
         /\ ~Expected(b).typedDefaultsErr

\* The ways to read a T agree: Load is LoadConfig and UnmarshalWithValidate of
\* the whole; GetAsOr gives what GetAs gives, save where that fails or where
\* there is nothing, and there never a zero value; neither validates
\* (get.go:12, 30).
ReadersAgree ==
  \A b \in LoadsFrom, p \in Paths :
    /\ phase[b] = "idle" /\ result[b] # Blank /\ cfg[b] # Blank
         => result[b] = UnmarshalWithValidate(cfg[b], Root)
    /\ ~Failed(GetAsOr(cfg[b], p)) /\ GetAsOr(cfg[b], p).value # "zero"
    /\ GetAsOr(cfg[b], p).value = "decoded"
         <=> GetAs(cfg[b], p) = Value("decoded")
    /\ ~Failed(UnmarshalWithValidate(cfg[b], p)) => ~Failed(GetAs(cfg[b], p))
=============================================================================
