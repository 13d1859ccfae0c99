----------------------------- MODULE SchemaFlags -----------------------------
(* BindFlags and the flags it makes: a schema is put into a flag set, first  *)
(* looking whether every name is free and only then registering them, and    *)
(* the flags are then set, appended to or replaced.                          *)
EXTENDS Schema

CONSTANTS
  Written,          \* [Segments -> Seq(Pieces)]: with the separator put in
  Normalized,       \* [Pieces -> Seq(Pieces)]: the normalize function
  Cases             \* [schema : Inputs, defined : names, call : Calls, ops : Seq(Op)]

\* BindFlags is called with a flag set and a separator, or with a flag set that
\* is nil or a separator that is empty.
Calls == {"good", "noFlagSet", "noSeparator"}

\* What is done to the flag of binding n.  "set" is fs.Set, as the parser of the
\* command line calls it; the others are methods of pflag.SliceValue.  Only
\* "replace" is given more than one text, or none.
Op == [kind : {"set", "append"}, n : Nat, texts : [{1} -> Text]]
      \cup [kind : {"replace"}, n : Nat, texts : Seq(Text)]

ASSUME NameAssumption == /\ Written \in [Segments -> Seq(Pieces)]
                         /\ Normalized \in [Pieces -> Names]
ASSUME CaseAssumption ==
  /\ {c.schema : c \in Cases} = Inputs
  /\ \A c \in Cases : c.defined \subseteq Names /\ c.call \in Calls /\ c.ops \in Seq(Op)

VARIABLES
  phase,        \* "idle" until there is a schema, then where BindFlags is
  at,           \* the next binding or op
  before,       \* the names, normalized, that the flag set had
  defined,      \* those it has
  names,        \* of the bindings preflight has gone past
  flags,        \* the flags registered, by binding
  ops, call

flagVars == <<phase, at, before, defined, names, flags, ops, call>>
vars     == <<schemaVars, flagVars>>

\* path is the annotation.  fs.Set marks a flag changed as Set marks it set.
FlagState == [value : Value, set : BOOLEAN, path : Path]

FlagsTypeOK ==
  /\ TypeOK
  /\ phase \in {"idle", "preflight", "bind", "parse", "refused", "panic"}
  /\ at \in Nat \ {0}
  /\ before \subseteq Names /\ defined \subseteq Names /\ call \in Calls
  /\ DOMAIN flags \subseteq DOMAIN names /\ DOMAIN names \subseteq 1..Len(bindings)
  /\ \A n \in DOMAIN names : names[n] \in Names
  /\ \A n \in DOMAIN flags : flags[n] \in FlagState

FlagsInit ==
  /\ \E c \in Cases : InitWith(c.schema) /\ defined = c.defined
                           /\ ops = c.ops /\ call = c.call
  /\ before = defined
  /\ phase = "idle" /\ at = 1
  /\ names = <<>> /\ flags = <<>>

SchemaStep == Next /\ UNCHANGED flagVars
-----------------------------------------------------------------------------
(* BindFlags.                                                                *)

\* There is no schema if SchemaOf has failed.
Misused == pc # "done" \/ call # "good"

BindFlags ==
  /\ phase = "idle" /\ pc \in Results /\ ~Misused
  /\ phase' = "preflight"
  /\ UNCHANGED <<schemaVars, at, before, defined, names, flags, ops, call>>

RefuseCall ==
  /\ phase = "idle" /\ pc \in Results /\ Misused
  /\ phase' = "refused"
  /\ UNCHANGED <<schemaVars, at, before, defined, names, flags, ops, call>>

B == bindings[at]

SkipBinding ==
  /\ phase \in {"preflight", "bind"} /\ at <= Len(bindings) /\ ~B.cli
  /\ at' = at + 1
  /\ UNCHANGED <<schemaVars, phase, before, defined, names, flags, ops, call>>

AtFlagOf(p) == phase = p /\ at <= Len(bindings) /\ B.cli

\* schemaFlagName: a name given by a tag or an override is taken as it is.
NameOf(b) == IF b.flag # NoName THEN b.flag
             ELSE FlattenSeq([i \in 1..Len(b.path) |-> Written[b.path[i]]])
Name == NameOf(B)

Normal(name) == FlattenSeq([i \in 1..Len(name) |-> Normalized[name[i]]])

NotSeenAsWritten(name) == \A n \in DOMAIN names : names[n] # name       \* a slip
NotSeen(name) == \A n \in DOMAIN names : Normal(names[n]) # Normal(name)

NotEmpty(name) == name # NoName

Acceptable(name) ==
  NotEmpty(name) /\ NotSeen(name) /\ Normal(name) \notin defined

PreflightName ==
  /\ AtFlagOf("preflight") /\ Acceptable(Name)
  /\ names' = [n \in DOMAIN names \cup {at} |-> IF n = at THEN Name ELSE names[n]]
  /\ at' = at + 1
  /\ UNCHANGED <<schemaVars, phase, before, defined, flags, ops, call>>

Refuse ==
  /\ AtFlagOf("preflight") /\ ~Acceptable(Name)
  /\ phase' = "refused"
  /\ UNCHANGED <<schemaVars, at, before, defined, names, flags, ops, call>>

LoopEnds ==
  /\ phase \in {"preflight", "bind"} /\ at > Len(bindings)
  /\ phase' = IF phase = "preflight" THEN "bind" ELSE "parse"
  /\ at' = 1
  /\ UNCHANGED <<schemaVars, before, defined, names, flags, ops, call>>

NewFlag(b, path) == [value |-> b.default, set |-> FALSE, path |-> path]
NewFlagByPath(b) == NewFlag(b, b.path)      \* a slip
FlagOf(b)        == NewFlag(b, b.load)

\* bindSchemaFlag.  fs.Var panics when the name is defined; what it leaves
\* behind then is of no interest.
Register ==
  /\ AtFlagOf("bind")
  /\ phase' = IF Normal(names[at]) \in defined THEN "panic" ELSE "bind"
  /\ defined' = defined \cup {Normal(names[at])}
  /\ flags' = [n \in DOMAIN flags \cup {at} |->
                 IF n = at THEN FlagOf(B) ELSE flags[n]]
  /\ at' = at + 1
  /\ UNCHANGED <<schemaVars, before, names, ops, call>>
-----------------------------------------------------------------------------
(* The values.                                                               *)

Raw(b, raw) == IF b.parser THEN CustomParse(raw, b.holds) ELSE Parse(raw, b.holds)

Together(values) == {Slice(FlattenSeq([i \in DOMAIN vs |-> ItemsOf(vs[i])])) : vs \in values}

\* What the texts of an op come to, if they can be parsed.  Append and Replace
\* go by CSV, or to the parser of the field text by text.
Parsed(op, b) ==
  IF op.kind = "set" THEN Raw(b, op.texts[1])
  ELSE IF b.parser THEN Together(All([i \in DOMAIN op.texts |-> Raw(b, op.texts[i])]))
       ELSE Raw(b, FormatCSV(op.texts))

\* There is the flag, and it has the method.
IsSlice(b) == SchemaKind(b.holds) = "slice"
CanTake(op) == op.n \in DOMAIN flags /\ (op.kind = "set" \/ IsSlice(bindings[op.n]))
Takes(op)   == CanTake(op) /\ Parsed(op, bindings[op.n]) # {}

MarkedByAny(op, old) == TRUE        \* a slip
Marked(op, old) == old \/ op.kind = "set"

\* Set replaces a default, or what Append and Replace have made, and from then
\* on it adds to a slice.
Adds(op) == \/ op.kind = "append"
            \/ op.kind = "set" /\ flags[op.n].set /\ IsSlice(bindings[op.n])

UseFlag ==
  /\ phase = "parse" /\ at <= Len(ops) /\ Takes(ops[at])
  /\ LET op == ops[at] IN
     \E v \in Parsed(op, bindings[op.n]) :
       flags' = [flags EXCEPT
         ![op.n].value = IF Adds(op) THEN Slice(ItemsOf(@) \o ItemsOf(v)) ELSE v,
         ![op.n].set   = Marked(op, @)]
  /\ at' = at + 1
  /\ UNCHANGED <<schemaVars, phase, before, defined, names, ops, call>>

\* An error changes nothing.
FailToUse ==
  /\ phase = "parse" /\ at <= Len(ops) /\ ~Takes(ops[at])
  /\ at' = at + 1
  /\ UNCHANGED <<schemaVars, phase, before, defined, names, flags, ops, call>>

\* String and GetSlice of the flag of binding b that holds v.
Unbracketed(v, b) == IF b.redacted THEN Redacted ELSE Format(v, b.holds)    \* a slip
String(v, b) ==
  CASE b.redacted                 -> Redacted
    [] ~b.redacted /\ IsSlice(b)  -> <<Open>> \o Format(v, b.holds) \o <<Close>>
    [] ~b.redacted /\ ~IsSlice(b) -> Format(v, b.holds)
GetSlice(v, b) == IF b.redacted THEN [i \in DOMAIN ItemsOf(v) |-> Redacted]
                  ELSE FormatItems(ItemsOf(v))

\* The getter of pflag for slices of strings, if String gives text: what is
\* between the first and the last character, as a line of CSV.
GetStringSlice(text) == Fields(SubSeq(text, 2, Len(text) - 1))

FlagsNext ==
  \/ SchemaStep \/ BindFlags \/ RefuseCall \/ SkipBinding
  \/ PreflightName \/ Refuse \/ LoopEnds \/ Register
  \/ UseFlag \/ FailToUse

FlagsSpec == FlagsInit /\ [][FlagsNext]_vars
-----------------------------------------------------------------------------
(* Properties.                                                               *)

Wanting == {n \in 1..Len(bindings) : bindings[n].cli}

Conflicting ==
  \E n \in Wanting :
    \/ NameOf(bindings[n]) = NoName
    \/ Normal(NameOf(bindings[n])) \in before
    \/ \E m \in Wanting \ {n} :
         Normal(NameOf(bindings[m])) = Normal(NameOf(bindings[n]))

\* BindFlags registers a flag for every binding that wants one, or refuses and
\* leaves the flag set as it was.  It refuses without a schema, a flag set or a
\* separator, when two names are one once normalized or a name is empty, and not
\* otherwise; and fs.Var never panics.
BindAllOrNothing ==
  /\ phase # "panic"
  /\ phase = "refused" => /\ Misused \/ Conflicting
                          /\ defined = before /\ flags = <<>>
  /\ phase = "parse" => /\ ~Misused /\ ~Conflicting
                        /\ DOMAIN flags = Wanting
                        /\ defined \ before
                             = {Normal(NameOf(bindings[n])) : n \in Wanting}

\* Each leaf of the struct that wants a flag has one that loads to the koanf
\* path of that leaf, and no two flags load to one path, which loadArgs would
\* refuse.
FlagsReachTheirFields ==
  phase = "parse" =>
    /\ {flags[n].path : n \in DOMAIN flags}
         = {LoadOf(r) : r \in {q \in Leaves : CLIOf(q)}}
    /\ \A m, n \in DOMAIN flags : flags[m].path = flags[n].path => m = n

\* What an op should come to: for Append and Replace what each text does by
\* itself, commas and line ends included, but a single blank text comes to none.
ByItself(op, b) ==
  IF op.kind = "set" \/ b.parser THEN Parsed(op, b)
  ELSE IF op.texts = <<<<>>>> THEN {Slice(<<>>)}
       ELSE {Slice(xs) : xs \in All([i \in DOMAIN op.texts |-> ParseItem(op.texts[i], b.holds)])}

\* The operations that flag n should have taken.
TakenBy(n) == {i \in 1..(at - 1) :
  ops[i].n = n /\ CanTake(ops[i]) /\ ByItself(ops[i], bindings[n]) # {}}
FirstSet(n, i) == /\ ops[i].kind = "set"
                  /\ \A j \in TakenBy(n) : j < i => ops[j].kind # "set"
Overwrites(n, i) == \/ ops[i].kind = "replace" \/ FirstSet(n, i)
                    \/ ops[i].kind = "set" /\ ~IsSlice(bindings[n])

\* The value of a flag is what the last operation to overwrite, Replace or the
\* first Set, comes to, or else the default, and after it what the operations
\* since add; one that fails adds nothing and does not count as the first Set.
ValueFollowsOps ==
  phase = "parse" => \A n \in DOMAIN flags :
    LET last  == {i \in TakenBy(n) : /\ Overwrites(n, i)
                                     /\ \A j \in TakenBy(n) : j > i => ~Overwrites(n, j)}
        since == {i \in TakenBy(n) : \A l \in last : i > l}
        Of(i) == CHOOSE v \in ByItself(ops[i], bindings[n]) : TRUE
        base  == IF last = {} THEN bindings[n].default ELSE Of(CHOOSE l \in last : TRUE)
    IN  /\ flags[n].value =
             IF since = {} THEN base
             ELSE Slice(ItemsOf(base) \o FlattenSeq(
                    [i \in 1..(at - 1) |-> IF i \in since THEN ItemsOf(Of(i)) ELSE <<>>]))
        /\ flags[n].set <=> \E i \in TakenBy(n) : ops[i].kind = "set"

\* A list of a single blank, or of a single empty list, is written as the empty
\* list is, and a nil pointer as a blank.
Unambiguous(v, t) == /\ \A i \in DOMAIN v : NilItem \notin Range(v[i])
                     /\ (t.depth > 0) => <<<<>>>> \notin Range(v)
                     /\ (t.depth = 2) => v # <<<<>>>>
ReadBack(text, v, t) == Unambiguous(v, t) => Parse(text, t) = {v}

\* A flag tells what it holds, and a default is shown, so that it can be read
\* again, whatever commas, quotes, line ends and brackets there are: the String of
\* a scalar and the default shown can be given to the flag, the items of GetSlice
\* to Replace, and GetStringSlice of pflag, which goes by the String of a slice,
\* finds the items that GetSlice gives.  Nil and a single blank are exceptions, and
\* carriage returns, which no text here has.  A redacted flag tells of a slice only
\* how long it is, and of what is in it nothing.
RoundTrips ==
  phase = "parse" => \A n \in DOMAIN flags :
    LET b     == bindings[n]
        v     == flags[n].value
        items == GetSlice(v, b)
    IN
    IF b.redacted
    THEN String(v, b) = Redacted /\ (IsSlice(b) => Range(items) \subseteq {Redacted})
    ELSE /\ ReadBack(b.shown, b.default, b.holds)
         /\ ~IsSlice(b) => ReadBack(String(v, b), v, b.holds)
         /\ IsSlice(b)  => /\ ReadBack(FormatCSV(items), v, b.holds)
                           /\ b.holds.base = "string" /\ items # <<<<>>>>
                                => GetStringSlice(String(v, b)) = {items}
=============================================================================
