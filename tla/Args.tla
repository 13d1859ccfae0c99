-------------------------------- MODULE Args --------------------------------
(* loadArgs: the args stage of a load.  Raw arguments are scanned one token  *)
(* at a time, a flag without "=" taking the next token for its value; then   *)
(* come the flags of the pflag set that were changed.  Both groups go into   *)
(* one map, the flags over the raw arguments, unless two names of a group    *)
(* mean the same config path.                                                *)
EXTENDS Naturals, Sequences

CONSTANTS
  Names,        \* names of arguments and flags
  Paths,        \* config paths
  NoPath,       \* the empty path
  PathOf,       \* [Names -> Paths \cup {NoPath}]: argsNameFunc, normalized
  Inputs        \* command lines: [tokens : Seq(Token), flags : Seq(Flag)]

\* What a token is: "--", "--name=value", "--no-name", "--name", or a word
\* that does not begin with two dashes.
FlagKinds == {"value", "no", "bare"}
Token == [kind : FlagKinds \cup {"dashes", "word"}, name : Names]

\* A changed flag, with the path BindFlags annotated it with, or NoPath.
Flag == [name : Names, annotation : Paths \cup {NoPath}]

ASSUME NoPathAssumption == NoPath \notin Paths /\ NoPath \notin Names
ASSUME PathAssumption == PathOf \in [Names -> Paths \cup {NoPath}]
ASSUME InputAssumption == Inputs \subseteq [tokens : Seq(Token), flags : Seq(Flag)]
\* The flags of a pflag set have different names.
ASSUME FlagNameAssumption ==
  \A in \in Inputs : \A i, j \in 1..Len(in.flags) :
    in.flags[i].name = in.flags[j].name => i = j

VARIABLES
  tokens, flags,    \* opts.args, and the changed flags in the order of Visit
  pc,               \* which loop loadArgs is in
  index,            \* the next token, flag or entry
  entries,          \* rawEntries
  flagEntries,
  namesByPath,      \* of the group being applied
  values            \* the map given to koanf

vars == <<tokens, flags, pc, index, entries, flagEntries, namesByPath, values>>

Absent == <<"absent", NoPath>>
NoName == [p \in Paths |-> NoPath]

\* A value: true, false, the text after "=", or the token at a position.
RawValues == {<<"true", 0>>, <<"false", 0>>} \cup {"text", "token"} \X Nat
RawEntry  == [at : Nat, name : Names, path : Paths, value : RawValues]
FlagEntry == [name : Names, path : Paths, value : {"flag"} \X Names]

Loops == {"scan", "visit", "applyRaw", "applyFlags"}

TypeOK ==
  /\ tokens \in Seq(Token) /\ flags \in Seq(Flag)
  /\ pc \in Loops \cup {"ok", "error"}
  /\ index \in Nat \ {0}
  /\ entries \in Seq(RawEntry) /\ flagEntries \in Seq(FlagEntry)
  /\ namesByPath \in [Paths -> Names \cup {NoPath}]
  /\ values \in [Paths -> RawValues \cup {"flag"} \X Names \cup {Absent}]

Init ==
  /\ \E in \in Inputs : tokens = in.tokens /\ flags = in.flags
  /\ pc = "scan" /\ index = 1
  /\ entries = <<>> /\ flagEntries = <<>>
  /\ namesByPath = NoName
  /\ values = [p \in Paths |-> Absent]

Fail == /\ pc' = "error"
        /\ UNCHANGED <<tokens, flags, index, entries, flagEntries, namesByPath, values>>
-----------------------------------------------------------------------------
(* parseRawArgs.                                                             *)

\* A flag without "=" takes the next token, unless that begins with "--".
TakesNextOfAny(i) == tokens[i].kind = "bare" /\ i < Len(tokens)     \* a slip
TakesNext(i) ==
  /\ tokens[i].kind = "bare" /\ i < Len(tokens)
  /\ tokens[i + 1].kind = "word"

Value(i) == CASE tokens[i].kind = "value" -> <<"text", i>>
              [] tokens[i].kind = "no"    -> <<"false", 0>>
              [] TakesNext(i)             -> <<"token", i + 1>>
              [] OTHER                    -> <<"true", 0>>

Entry(i) == [at |-> i, name |-> tokens[i].name,
             path |-> PathOf[tokens[i].name], value |-> Value(i)]

\* The arguments end at "--".
MoreArgs == index <= Len(tokens) /\ tokens[index].kind # "dashes"
AtFlag   == MoreArgs /\ tokens[index].kind \in FlagKinds

ScanEnds ==
  /\ pc = "scan" /\ ~MoreArgs
  /\ pc' = "visit" /\ index' = 1
  /\ UNCHANGED <<tokens, flags, entries, flagEntries, namesByPath, values>>

ScanWord ==
  /\ pc = "scan" /\ MoreArgs /\ ~AtFlag
  /\ index' = index + 1
  /\ UNCHANGED <<tokens, flags, pc, entries, flagEntries, namesByPath, values>>

\* resolveArgsPath: a flag whose name comes to an empty path is an error.
UsableUnchecked(name) == TRUE   \* a slip
Usable(name) == PathOf[name] # NoPath

ScanFlag ==
  /\ pc = "scan" /\ AtFlag /\ Usable(tokens[index].name)
  /\ entries' = Append(entries, Entry(index))
  /\ index' = IF TakesNext(index) THEN index + 2 ELSE index + 1
  /\ UNCHANGED <<tokens, flags, pc, flagEntries, namesByPath, values>>

ScanFails ==
  /\ pc = "scan" /\ AtFlag /\ ~Usable(tokens[index].name)
  /\ Fail
-----------------------------------------------------------------------------
(* changedFlagEntries.                                                       *)

\* resolveChangedFlagPath: the annotation, or else the name decides.
FlagPath(f) == IF f.annotation # NoPath THEN f.annotation ELSE PathOf[f.name]

ChangedEntry(f) ==
  [name |-> f.name, path |-> FlagPath(f), value |-> <<"flag", f.name>>]

VisitFlag ==
  /\ pc = "visit" /\ index <= Len(flags) /\ FlagPath(flags[index]) # NoPath
  /\ flagEntries' = Append(flagEntries, ChangedEntry(flags[index]))
  /\ index' = index + 1
  /\ UNCHANGED <<tokens, flags, pc, entries, namesByPath, values>>

VisitFails ==
  /\ pc = "visit" /\ index <= Len(flags) /\ FlagPath(flags[index]) = NoPath
  /\ Fail

\* Without any entry loadArgs is done: the two loops have nothing to do.
VisitEnds ==
  /\ pc = "visit" /\ index > Len(flags)
  /\ pc' = "applyRaw" /\ index' = 1
  /\ UNCHANGED <<tokens, flags, entries, flagEntries, namesByPath, values>>
-----------------------------------------------------------------------------
(* applyArgEntries, once for each group.                                     *)

Group == IF pc = "applyRaw" THEN entries ELSE flagEntries

\* Another name has this path already.
Conflict(e) == namesByPath[e.path] \notin {NoPath, e.name}

PutOnce(e) ==       \* a slip
  /\ namesByPath' = [namesByPath EXCEPT ![e.path] = e.name]
  /\ values' = [values EXCEPT ![e.path] = IF @ = Absent THEN e.value ELSE @]
Put(e) ==
  /\ namesByPath' = [namesByPath EXCEPT ![e.path] = e.name]
  /\ values' = [values EXCEPT ![e.path] = e.value]

ApplyEntry ==
  /\ pc \in {"applyRaw", "applyFlags"} /\ index <= Len(Group)
  /\ ~Conflict(Group[index])
  /\ Put(Group[index])
  /\ index' = index + 1
  /\ UNCHANGED <<tokens, flags, pc, entries, flagEntries>>

ApplyFails ==
  /\ pc \in {"applyRaw", "applyFlags"} /\ index <= Len(Group)
  /\ Conflict(Group[index])
  /\ Fail

\* Each group has a map of names of its own.
KeepNames  == UNCHANGED namesByPath     \* a slip
ResetNames == namesByPath' = NoName

ApplyEnds ==
  /\ pc \in {"applyRaw", "applyFlags"} /\ index > Len(Group)
  /\ pc' = IF pc = "applyRaw" THEN "applyFlags" ELSE "ok"
  /\ index' = 1
  /\ ResetNames
  /\ UNCHANGED <<tokens, flags, entries, flagEntries, values>>

Next == \/ ScanEnds \/ ScanWord \/ ScanFlag \/ ScanFails
        \/ VisitFlag \/ VisitFails \/ VisitEnds
        \/ ApplyEntry \/ ApplyFails \/ ApplyEnds

Spec == Init /\ [][Next]_vars
-----------------------------------------------------------------------------
(* Properties.                                                               *)

\* The tokens that are flags: those that look like one, before any "--".
FlagTokens == {i \in 1..Len(tokens) : /\ tokens[i].kind \in FlagKinds
                                      /\ \A j \in 1..i : tokens[j].kind # "dashes"}

\* The scan finds every flag before "--", once and in order, and nothing else:
\* no flag, and no "--", is lost as the value of the flag before it, and a
\* value is never taken for a flag.
EveryFlagFound ==
  pc \notin {"scan", "error"} =>
    /\ {entries[n].at : n \in 1..Len(entries)} = FlagTokens
    /\ \A m, n \in 1..Len(entries) : m < n => entries[m].at < entries[n].at

RawFor(i, p)  == i \in FlagTokens /\ PathOf[tokens[i].name] = p
FlagFor(f, p) == FlagPath(flags[f]) = p

\* When loadArgs succeeds, koanf gets for each path the changed flag with that
\* path, else its last raw argument, else nothing.
ArgsPrecedence == pc = "ok" => \A p \in Paths :
  /\ \A f \in 1..Len(flags) : FlagFor(f, p) => values[p] = <<"flag", flags[f].name>>
  /\ (\A f \in 1..Len(flags) : ~FlagFor(f, p)) =>
       /\ \A i \in FlagTokens :
            RawFor(i, p) /\ (\A j \in FlagTokens : RawFor(j, p) => j <= i)
              => values[p] = Value(i)
       /\ (\A i \in FlagTokens : ~RawFor(i, p)) => values[p] = Absent

\* Two names of one group for one path, or a name without a path.
Ambiguous ==
  \/ \E i, j \in FlagTokens : /\ tokens[i].name # tokens[j].name
                              /\ PathOf[tokens[i].name] = PathOf[tokens[j].name]
  \/ \E i, j \in 1..Len(flags) : i # j /\ FlagPath(flags[i]) = FlagPath(flags[j])
  \/ \E i \in FlagTokens : PathOf[tokens[i].name] = NoPath
  \/ \E i \in 1..Len(flags) : FlagPath(flags[i]) = NoPath

\* loadArgs fails on an ambiguous command line and on no other: repeating one
\* argument is no conflict, and neither is a raw argument beside a flag.
FailsIffAmbiguous ==
  /\ pc = "error" => Ambiguous
  /\ pc = "ok" => ~Ambiguous
=============================================================================
