------------------------------- MODULE Loader -------------------------------
(* loadConfigFromOptions: one load of a config, possibly beside others.  A   *)
(* load starts from the defaults and merges the sources in the order of      *)
(* opts.priority, each overriding what came before.  The dotenv stage does   *)
(* not merge anything: it sets variables in the environment of the process,  *)
(* which all loads share and which keeps them when the load is over.         *)
(*                                                                           *)
(* Something that defines keys is an item <<stage, i>>: the i-th dotenv      *)
(* file, config file or custom source, the arguments, or one of the two maps *)
(* of defaults.  A value is known by the item it came from and the version   *)
(* of that item's content.                                                   *)
EXTENDS Naturals, Sequences, FiniteSets, FiniteSetsExt

CONSTANTS
  Keys,         \* configuration keys
  Loads,        \* goroutines that load from the same options
  NDotenv, NFiles, NCustom,     \* how many items these stages have
  Priorities,   \* orders passed to WithPriority, sequences of sources
  MaxDefining,  \* bound: items that define the same key
  MaxLoads,     \* bound: loads begun
  MaxEdits      \* bound: contents replaced

ASSUME CountAssumption == NDotenv \in Nat /\ NFiles \in Nat /\ NCustom \in Nat
ASSUME LoadBounds == MaxLoads \in Nat /\ MaxEdits \in Nat

\* SourceDotenv ... SourceCustom; any other int is "unknown".
Sources == {"dotenv", "file", "custom", "env", "args", "unknown"}
ASSUME PriorityAssumption == Priorities \subseteq Seq(Sources)

\* The items each stage goes through.
Count(src) == CASE src = "dotenv" -> NDotenv
                [] src = "file"   -> NFiles
                [] src = "custom" -> NCustom
                [] src \in {"env", "args"} -> 1
                [] OTHER -> 0

Items == {<<"defaults", 1>>, <<"defaults", 2>>, <<"args", 1>>}
           \cup {<<"dotenv", i>> : i \in 1..NDotenv}
           \cup {<<"file", i>> : i \in 1..NFiles}
           \cup {<<"custom", i>> : i \in 1..NCustom}

\* What a key can be bound to: a version of an item, the value it had in the
\* environment the process was started with, or nothing.
Absent   == [from |-> <<"absent", 0>>, version |-> 0]
Original == [from |-> <<"env", 1>>, version |-> 0]

VARIABLES
  priority,     \* opts.priority
  ignoreErr,    \* opts.ignoreDotenvErr
  defines,      \* the keys each item defines
  version,      \* how often each item's content was replaced
  bad,          \* items that are missing, malformed, or return an error
  env,          \* the environment of the process
  cancelled,    \* the context of the loads is done
  status, stage, item,  \* per goroutine: where its load is
  k,            \* per goroutine: the koanf instance it merges into
  dotenv,       \* per goroutine: where godotenv.Load is
  parsed,       \* ... what the file it has read gives to a variable
  unset,        \* ... the variables it found unset and has yet to set
  clean,        \* ghost: nothing was edited since the load, or one that was
                \* running when it began, began
  begun, edits, \* counters for the bounds
  loadTotal,    \* configx_load_total, by result
  sourceTotal   \* configx_source_load_total, by stage and result

optVars     == <<priority, ignoreErr>>
contentVars == <<defines, version, bad, edits>>
dotenvVars  == <<dotenv, parsed, unset>>
metricVars  == <<loadTotal, sourceTotal>>
vars == <<optVars, contentVars, env, cancelled, status, stage, item, k,
          dotenvVars, clean, begun, metricVars>>

Values  == [from : Items, version : 0..MaxEdits] \cup {Absent, Original}
Results == {"success", "error"}

\* An item's value for a key it defines; b without the keys it does not.
Value(it)    == [from |-> it, version |-> version[it]]
MergeKeeping(b, it) ==      \* a slip: the first to define a key wins
  [x \in Keys |-> IF x \in defines[it] /\ b[x] = Absent THEN Value(it) ELSE b[x]]
Merge(b, it) == [x \in Keys |-> IF x \in defines[it] THEN Value(it) ELSE b[x]]

TypeOK ==
  /\ priority \in Priorities /\ ignoreErr \in BOOLEAN
  /\ defines \in [Items -> SUBSET Keys] /\ version \in [Items -> 0..MaxEdits]
  /\ bad \subseteq Items
  /\ env \in [Keys -> Values] /\ cancelled \in BOOLEAN
  /\ status \in [Loads -> {"idle", "defaults", "sources", "ok", "failed"}]
  /\ stage \in [Loads -> 1..(Len(priority) + 1)]
  /\ item \in [Loads -> Nat \ {0}]
  /\ k \in [Loads -> [Keys -> Values]]
  /\ dotenv \in [Loads -> {"start", "read", "set"}]
  /\ parsed \in [Loads -> Values] /\ unset \in [Loads -> SUBSET Keys]
  /\ clean \in [Loads -> BOOLEAN]
  /\ begun \in 0..MaxLoads /\ edits \in 0..MaxEdits
  /\ loadTotal \in [Results -> Nat]
  /\ sourceTotal \in [Sources \X Results -> Nat]

Init ==
  /\ priority \in Priorities /\ ignoreErr \in BOOLEAN
  /\ defines \in [Items -> SUBSET Keys]
  /\ \A x \in Keys : Cardinality({it \in Items : x \in defines[it]}) <= MaxDefining
  /\ version = [it \in Items |-> 0]
  /\ bad \in {{}, {<<"defaults", 1>>}, {<<"args", 1>>}}
  /\ env \in [Keys -> {Absent, Original}] /\ cancelled = FALSE
  /\ status = [l \in Loads |-> "idle"]
  /\ stage = [l \in Loads |-> 1] /\ item = [l \in Loads |-> 1]
  /\ k = [l \in Loads |-> [x \in Keys |-> Absent]]
  /\ dotenv = [l \in Loads |-> "start"]
  /\ parsed = [l \in Loads |-> Absent] /\ unset = [l \in Loads |-> {}]
  /\ clean = [l \in Loads |-> FALSE]
  /\ begun = 0 /\ edits = 0
  /\ loadTotal = [res \in Results |-> 0]
  /\ sourceTotal = [sr \in Sources \X Results |-> 0]
-----------------------------------------------------------------------------
(* The world around the loads (external).                                    *)

\* An item gets a new content: it breaks, or it has new values (and defines
\* the keys it always did).  Options are fixed, so the defaults and the
\* arguments are too.
Edit(it) ==
  /\ it[1] \in {"dotenv", "file", "custom"} /\ edits < MaxEdits
  /\ edits' = edits + 1
  /\ version' = [version EXCEPT ![it] = @ + 1]
  /\ bad' \in {bad \ {it}, bad \cup {it}}
  /\ clean' = [l \in Loads |-> FALSE]
  /\ UNCHANGED <<optVars, defines, env, cancelled, status, stage, item, k,
                 dotenvVars, begun, metricVars>>

Cancel ==
  /\ ~cancelled /\ NCustom > 0
  /\ cancelled' = TRUE
  /\ UNCHANGED <<optVars, contentVars, env, status, stage, item, k, dotenvVars,
                 clean, begun, metricVars>>
-----------------------------------------------------------------------------
(* One load.                                                                 *)

\* The stage load l is in, and the item it is about to load.
Source(l) == priority[stage[l]]
Current(l) == <<Source(l), item[l]>>
In(l, src) == /\ status[l] = "sources" /\ stage[l] <= Len(priority)
              /\ Source(l) = src /\ item[l] <= Count(src)

CountSource(src, res) ==
  sourceTotal' = [sourceTotal EXCEPT ![<<src, res>>] = @ + 1]
CountLoad(res) == loadTotal' = [loadTotal EXCEPT ![res] = @ + 1]

Active(l) == status[l] \in {"defaults", "sources"}

\* loadConfigFromOptions is called, with a fresh koanf instance.
Begin(l) ==
  /\ status[l] \in {"idle", "ok", "failed"} /\ begun < MaxLoads
  /\ begun' = begun + 1
  /\ status' = [status EXCEPT ![l] = "defaults"]
  /\ stage' = [stage EXCEPT ![l] = 1] /\ item' = [item EXCEPT ![l] = 1]
  /\ k' = [k EXCEPT ![l] = [x \in Keys |-> Absent]]
  /\ clean' = [clean EXCEPT ![l] = \A m \in Loads : Active(m) => clean[m]]
  /\ UNCHANGED <<optVars, contentVars, env, cancelled, dotenvVars, metricVars>>

\* WithTypedDefaults could not turn its value into a map: every load fails,
\* before any source.
DefaultsFail(l) ==
  /\ status[l] = "defaults" /\ <<"defaults", 1>> \in bad
  /\ status' = [status EXCEPT ![l] = "failed"]
  /\ CountLoad("error")
  /\ UNCHANGED <<optVars, contentVars, env, cancelled, stage, item, k,
                 dotenvVars, clean, begun, sourceTotal>>

\* loadConfiguredDefaults: the typed defaults, then the map of defaults.
LoadDefaults(l) ==
  /\ status[l] = "defaults" /\ <<"defaults", 1>> \notin bad
  /\ status' = [status EXCEPT ![l] = "sources"]
  /\ k' = [k EXCEPT ![l] = Merge(Merge(@, <<"defaults", 1>>), <<"defaults", 2>>)]
  /\ UNCHANGED <<optVars, contentVars, env, cancelled, stage, item, dotenvVars,
                 clean, begun, metricVars>>

\* A slip: the load returns without the deferred finish of beginConfigLoad.
SourceFailsUncounted(l, src) ==
  /\ status' = [status EXCEPT ![l] = "failed"]
  /\ CountSource(src, "error")
  /\ UNCHANGED <<optVars, contentVars, env, cancelled, stage, item, k,
                 dotenvVars, clean, begun, loadTotal>>

\* The source being loaded returns an error, and the load with it.
SourceFails(l, src) ==
  /\ status' = [status EXCEPT ![l] = "failed"]
  /\ CountSource(src, "error") /\ CountLoad("error")
  /\ UNCHANGED <<optVars, contentVars, env, cancelled, stage, item, k,
                 dotenvVars, clean, begun>>

\* A slip: the stages are stepped through by the number of items.
ItemDoneByCount(l) ==
  LET src  == Source(l)
      last == item[l] = Count(src)
  IN  /\ item'  = [item EXCEPT ![l] = IF last THEN 1 ELSE @ + 1]
      /\ stage' = [stage EXCEPT ![l] = IF last THEN @ + Count(src) ELSE @]
      /\ IF last \/ src = "custom" THEN CountSource(src, "success")
                                   ELSE UNCHANGED sourceTotal
      /\ UNCHANGED <<optVars, contentVars, cancelled, status, clean, begun, loadTotal>>

\* The current item is done; after the last one, the stage is.  A stage is
\* counted when it is done, the custom sources one by one.
ItemDone(l) ==
  LET src  == Source(l)
      last == item[l] = Count(src)
  IN  /\ item'  = [item EXCEPT ![l] = IF last THEN 1 ELSE @ + 1]
      /\ stage' = [stage EXCEPT ![l] = IF last THEN @ + 1 ELSE @]
      /\ IF last \/ src = "custom" THEN CountSource(src, "success")
                                   ELSE UNCHANGED sourceTotal
      /\ UNCHANGED <<optVars, contentVars, cancelled, status, clean, begun, loadTotal>>

\* loadDotenvFile: os.Stat and godotenv.Load, which begins by reading the file.
\* One that is missing or malformed is an error, or skipped.
ReadDotenv(l) ==
  /\ In(l, "dotenv") /\ dotenv[l] = "start"
  /\ LET f == Current(l) IN
     \/ /\ f \in bad /\ ~ignoreErr
        /\ SourceFails(l, "dotenv")
     \/ /\ f \in bad /\ ignoreErr
        /\ ItemDone(l) /\ UNCHANGED <<k, env, dotenvVars>>
     \/ /\ f \notin bad
        /\ dotenv' = [dotenv EXCEPT ![l] = "read"]
        /\ parsed' = [parsed EXCEPT ![l] = Value(f)]
        /\ UNCHANGED <<optVars, contentVars, env, cancelled, status, stage,
                       item, k, unset, clean, begun, metricVars>>

\* The variables of the file that godotenv.Load finds unset.
UnsetOrOverloaded(l) == defines[Current(l)]                             \* a slip
UnsetByOthers(l) == {x \in defines[Current(l)] : env[x] # Original}     \* a slip
Unset(l) == {x \in defines[Current(l)] : env[x] = Absent}

\* godotenv.Load then takes os.Environ() ...
LookAtEnviron(l) ==
  /\ In(l, "dotenv") /\ dotenv[l] = "read"
  /\ dotenv' = [dotenv EXCEPT ![l] = "set"]
  /\ unset' = [unset EXCEPT ![l] = Unset(l)]
  /\ UNCHANGED <<optVars, contentVars, env, cancelled, status, stage, item, k,
                 parsed, clean, begun, metricVars>>

\* ... and sets what is unset there, in any order, one os.Setenv at a time.  It
\* does not look again: another load may have set the variable meanwhile.
SetVariable(l, x) ==
  /\ In(l, "dotenv") /\ x \in unset[l]
  /\ env' = [env EXCEPT ![x] = parsed[l]]
  /\ unset' = [unset EXCEPT ![l] = @ \ {x}]
  /\ UNCHANGED <<optVars, contentVars, cancelled, status, stage, item, k,
                 dotenv, parsed, clean, begun, metricVars>>

DotenvReturns(l) ==
  /\ In(l, "dotenv") /\ dotenv[l] = "set" /\ unset[l] = {}
  /\ dotenv' = [dotenv EXCEPT ![l] = "start"]
  /\ parsed' = [parsed EXCEPT ![l] = Absent]
  /\ ItemDone(l) /\ UNCHANGED <<k, env, unset>>

\* loadFiles: the next file is read, parsed and merged.
ConfigFile(l) ==
  /\ In(l, "file")
  /\ LET f == Current(l) IN
     \/ f \in bad /\ SourceFails(l, "file")
     \/ /\ f \notin bad
        /\ k' = [k EXCEPT ![l] = Merge(@, f)]
        /\ ItemDone(l) /\ UNCHANGED <<env, dotenvVars>>

\* loadCustomSource: not asked once ctx is done; each source is counted.
CustomSource(l) ==
  /\ In(l, "custom")
  /\ LET c == Current(l) IN
     \/ (cancelled \/ c \in bad) /\ SourceFails(l, "custom")
     \/ /\ ~cancelled /\ c \notin bad
        /\ k' = [k EXCEPT ![l] = Merge(@, c)]
        /\ ItemDone(l) /\ UNCHANGED <<env, dotenvVars>>

\* loadEnv: every variable of the process's environment (with the prefix).
Environment(l) ==
  /\ In(l, "env")
  /\ k' = [k EXCEPT ![l] = [x \in Keys |-> IF env[x] = Absent THEN @[x] ELSE env[x]]]
  /\ ItemDone(l) /\ UNCHANGED <<env, dotenvVars>>

\* loadArgs: the raw arguments and then the changed flags, or an error.
Arguments(l) ==
  /\ In(l, "args")
  /\ \/ Current(l) \in bad /\ SourceFails(l, "args")
     \/ /\ Current(l) \notin bad
        /\ k' = [k EXCEPT ![l] = Merge(@, Current(l))]
        /\ ItemDone(l) /\ UNCHANGED <<env, dotenvVars>>

\* A stage without items succeeds at once, and a source that
\* loadConfiguredSource does not know is passed over.
EmptyStage(l) ==
  /\ status[l] = "sources" /\ stage[l] <= Len(priority)
  /\ Count(Source(l)) = 0
  /\ stage' = [stage EXCEPT ![l] = @ + 1]
  /\ IF Source(l) \in {"custom", "unknown"} THEN UNCHANGED sourceTotal
                                            ELSE CountSource(Source(l), "success")
  /\ UNCHANGED <<optVars, contentVars, env, cancelled, status, item, k,
                 dotenvVars, clean, begun, loadTotal>>

\* The load returns a config.
Finish(l) ==
  /\ status[l] = "sources" /\ stage[l] > Len(priority)
  /\ status' = [status EXCEPT ![l] = "ok"]
  /\ CountLoad("success")
  /\ UNCHANGED <<optVars, contentVars, env, cancelled, stage, item, k,
                 dotenvVars, clean, begun, sourceTotal>>

LoadStep(l) == \/ Begin(l) \/ DefaultsFail(l) \/ LoadDefaults(l)
               \/ ReadDotenv(l) \/ LookAtEnviron(l)
               \/ (\E x \in Keys : SetVariable(l, x)) \/ DotenvReturns(l)
               \/ ConfigFile(l) \/ CustomSource(l) \/ Environment(l)
               \/ Arguments(l) \/ EmptyStage(l) \/ Finish(l)

Next == Cancel \/ (\E it \in Items : Edit(it)) \/ (\E l \in Loads : LoadStep(l))

Spec == Init /\ [][Next]_vars
-----------------------------------------------------------------------------
(* Properties.                                                               *)

\* Where a source stands in the priority: its last place, 0 if it has none.
Place(src) == Max({0} \cup {i \in 1..Len(priority) : priority[i] = src})

\* Item a is merged before item b.
Before(a, b) == \/ Place(a[1]) < Place(b[1])
                \/ Place(a[1]) = Place(b[1]) /\ a[2] < b[2]

\* Among some items, the value key x gets from the one that is merged last.
LastOf(items, x) ==
  IF items = {} THEN Absent
  ELSE LET w == CHOOSE w \in items : \A it \in items \ {w} : Before(it, w)
       IN  IF w[1] = "env" THEN env[x] ELSE Value(w)

Enabled(src) == src = "defaults" \/ Place(src) > 0
Defining(x)  == {it \in Items : x \in defines[it] /\ Enabled(it[1]) /\ it \notin bad}

\* What key x comes to: the last of the enabled sources that defines it, the
\* dotenv files counting only through the environment.
Expected(x) ==
  LastOf({it \in Defining(x) : it[1] # "dotenv"} \cup
         (IF Enabled("env") /\ env[x] # Absent THEN {<<"env", 1>>} ELSE {}), x)

Loaded(l) == status[l] = "ok" /\ clean[l]

\* A load that returns a config, with nothing edited since it, or any load that
\* was running by then, began, has given every key the value of the last source
\* that defines it, however other loads read files and set variables meanwhile,
\* before or after (docs/sources-and-priority.md:10).  (A load that began before
\* an edit may still set what it read then, under a later load.)  With dotenv
\* after env in the priority the values of the dotenv files show up only from
\* the second load on.
Precedence ==
  (Enabled("dotenv") /\ Enabled("env") => Place("dotenv") < Place("env"))
    => \A l \in Loads : Loaded(l) => \A x \in Keys : k[l][x] = Expected(x)

\* After such a load, the environment has a value for every key some good
\* dotenv file defines, and unless contents were ever edited it is that of the
\* first file, though loads may set the variables of different files at a time.
DotenvFillsGaps ==
  \A l \in Loads, x \in Keys :
    Loaded(l) /\ Enabled("dotenv") =>
      LET D == {it \in Defining(x) : it[1] = "dotenv"} IN
      /\ D # {} => env[x] # Absent
      /\ edits = 0 /\ env[x] # Original =>
           env[x] = IF D = {} THEN Absent
                    ELSE Value(CHOOSE d \in D : \A o \in D : d[2] <= o[2])

\* A variable that is set is replaced in one case only, and never removed: it
\* came from a dotenv file, and a load that had found it unset before sets it to
\* what it read, the contents having been edited since that load, or one beside
\* it, began.  No variable of the original environment is ever replaced, and no
\* variable at all where one goroutine loads (env.go:44: godotenv.Load looks at
\* the environment once, and sets what was unset then).
EnvNotClobbered ==
  [][\A x \in Keys : env[x] # Absent =>
       \/ env'[x] = env[x]
       \/ /\ env[x] # Original
          /\ \E l \in Loads : /\ x \in unset[l] /\ ~clean[l] /\ Loads # {l}
                             /\ parsed[l] # Absent /\ env'[x] = parsed[l]]_env

Failures(src) == sourceTotal[<<src, "error">>]

\* Between loads the counters agree: every load was counted once, every failed
\* load has one failed source (unless the defaults failed), and every config
\* returned has a success of each source it went through.
MetricsAgree ==
  (\A l \in Loads : status[l] \in {"idle", "ok", "failed"}) =>
    /\ loadTotal["success"] + loadTotal["error"] = begun
    /\ \/ <<"defaults", 1>> \in bad
       \/ loadTotal["error"] = Failures("dotenv") + Failures("file") + Failures("custom")
                                + Failures("env") + Failures("args") + Failures("unknown")
    /\ \A src \in Sources \ {"custom", "unknown"} :
         Place(src) > 0 => sourceTotal[<<src, "success">>] >= loadTotal["success"]

\* Sources listed later override sources listed earlier, dotenv files
\* included (options.go:253-256).
LastListedWins ==
  \A l \in Loads, x \in Keys : Loaded(l) =>
    k[l][x] = LastOf(Defining(x) \cup
                (IF Enabled("env") /\ env[x] = Original THEN {<<"env", 1>>} ELSE {}), x)
=============================================================================
