------------------------------- MODULE Schema -------------------------------
(* SchemaOf: the walk over a struct type that turns each leaf field into a   *)
(* binding.  A struct field is walked in place, with the path so far and     *)
(* whether flags are still wanted; the types that are being walked are       *)
(* remembered, for a type inside itself would never end.                     *)
EXTENDS SchemaValues

CONSTANTS
  Types,        \* struct types
  Root,         \* the type given to SchemaOf
  Segments,     \* segments of config paths
  Pieces,       \* what flag names are made of
  Inputs        \* [types : [Types -> Seq(Field)],
                \*  overrides : a function from paths to Override]

Path   == Seq(Segments)
NoName == <<>>
Names  == Seq(Pieces) \ {NoName}

\* A field as its tags have it: what it adds to the path and to the path koanf
\* loads it from (an embedded or squashed struct adds nothing), and metadata.
\* A struct is of type, and a leaf holds a type, with a value in what SchemaOf
\* is given.  A field is skipped when it is not exported or its tag is "-".
Field == [kind : {"leaf", "struct", "skipped", "badMetadata"},
          type : Types, holds : Type, default : Value, path : Path, load : Path,
          flag : Names \cup {NoName}, cli : BOOLEAN, redact : BOOLEAN]

\* The options of WithSchemaField for one path, taken together.  The name in
\* flag counts if the override is one that renames.
Switch   == {"unset", "on", "off"}
Override == [renames : BOOLEAN, flag : Names \cup {NoName},
             cli : Switch, redact : Switch, parser : BOOLEAN]

ASSUME RootAssumption == IsFiniteSet(Types) /\ Root \in Types
ASSUME InputAssumption == \A in \in Inputs :
  /\ in.types \in [Types -> Seq(Field)]
  /\ \A t \in Types : \A i \in DOMAIN in.types[t] :
       LET f == in.types[t][i] IN
       SchemaKind(f.holds) # "unsupported" => Holds(f.holds, f.default)
  /\ DOMAIN in.overrides \subseteq Path
  /\ \A p \in DOMAIN in.overrides : in.overrides[p] \in Override

VARIABLES
  types, overrides,     \* what SchemaOf is given
  pc,                   \* "walk", "check", or how SchemaOf came out
  stack,                \* the calls of walk, innermost last
  visiting, seen, seenLoad, matched,
  bindings

schemaVars ==
  <<types, overrides, pc, stack, visiting, seen, seenLoad, matched, bindings>>

\* The default of a binding, what is shown of it, and whether it has a parser.
Binding == [path : Path \ {<<>>}, load : Path, holds : Type,
            flag : Names \cup {NoName}, cli : BOOLEAN, redacted : BOOLEAN,
            default : Value, shown : TextOfLists, parser : BOOLEAN]
Frame == [type : Types, next : Nat \ {0}, path : Path, load : Path,
          cli : BOOLEAN]
Results == {"done", "recursive", "rejected"}

TypeOK ==
  /\ types \in [Types -> Seq(Field)]
  /\ pc \in {"walk", "check"} \cup Results
  /\ stack \in Seq(Frame) /\ (pc = "walk" => stack # <<>>)
  /\ visiting \subseteq Types
  /\ seen \subseteq Path /\ seenLoad \subseteq Path /\ matched \subseteq Path
  /\ bindings \in Seq(Binding)

NewFrame(type, path, load, cli) ==
  [type |-> type, next |-> 1, path |-> path, load |-> load, cli |-> cli]

InitWith(in) ==
  /\ types = in.types /\ overrides = in.overrides
  /\ pc = "walk"
  /\ stack = <<NewFrame(Root, <<>>, <<>>, TRUE)>>
  /\ visiting = {Root}
  /\ seen = {} /\ seenLoad = {} /\ matched = {}
  /\ bindings = <<>>

Init == \E in \in Inputs : InitWith(in)

Result(r) == /\ pc' = r
             /\ UNCHANGED <<types, overrides, stack, visiting, seen, seenLoad,
                            matched, bindings>>
-----------------------------------------------------------------------------
(* One field.                                                                *)

Top   == Last(stack)
AtEnd == Top.next > Len(types[Top.type])
F     == types[Top.type][Top.next]

\* joinSchemaPath.
PathHere == Top.path \o F.path
LoadHere == Top.load \o F.load

AtField(kinds) == pc = "walk" /\ ~AtEnd /\ F.kind \in kinds

\* The call on top of the stack has dealt with its field.
Passed == [stack EXCEPT ![Len(stack)].next = @ + 1]

SkipField ==
  /\ AtField({"skipped"})
  /\ stack' = Passed
  /\ UNCHANGED <<types, overrides, pc, visiting, seen, seenLoad, matched, bindings>>

BadMetadata == AtField({"badMetadata"}) /\ Result("rejected")

\* nocli holds for everything inside the struct.
Wanted == Top.cli /\ F.cli

EnterStruct ==
  /\ AtField({"struct"}) /\ F.type \notin visiting
  /\ visiting' = visiting \cup {F.type}
  /\ stack' = Append(Passed,
                     NewFrame(F.type, PathHere, LoadHere, Wanted))
  /\ UNCHANGED <<types, overrides, pc, seen, seenLoad, matched, bindings>>

Recursion == AtField({"struct"}) /\ F.type \in visiting /\ Result("recursive")

\* The deferred delete, once a struct has no more fields.
Unvisit(type) == visiting \ {type}

LeaveStruct ==
  /\ pc = "walk" /\ AtEnd
  /\ visiting' = Unvisit(Top.type)
  /\ stack' = Front(stack)
  /\ pc' = IF Len(stack) = 1 THEN "check" ELSE "walk"
  /\ UNCHANGED <<types, overrides, seen, seenLoad, matched, bindings>>
-----------------------------------------------------------------------------
(* addLeafField, newSchemaBinding and applyOverrides.                        *)

Redacted == <<Char("redacted")>>
Shown(redacted) == IF redacted THEN Redacted ELSE Format(F.default, F.holds)

NewBinding ==
  [path |-> PathHere, load |-> LoadHere, holds |-> F.holds,
   flag |-> F.flag, cli |-> Wanted, redacted |-> F.redact,
   default |-> F.default, shown |-> Shown(F.redact), parser |-> FALSE]

Switched(s, old) == IF s = "unset" THEN old ELSE s = "on"

Overridden(b) ==
  IF b.path \notin DOMAIN overrides THEN b
  ELSE LET o == overrides[b.path] IN
       [b EXCEPT !.flag = IF o.renames THEN o.flag ELSE @,
                 !.cli = Switched(o.cli, @),
                 !.redacted = Switched(o.redact, @),
                 !.shown = Shown(Switched(o.redact, b.redacted)),
                 !.parser = o.parser]

\* The default of a redacted field goes: by its tag, or by an override.
ZeroedByTag(b) == [b EXCEPT !.default = IF F.redact THEN ZeroValue(b.holds) ELSE @]  \* a slip
Zeroed(b) == [b EXCEPT !.default = IF b.redacted THEN ZeroValue(b.holds) ELSE @]

EmptyFlag(path) == /\ path \in DOMAIN overrides
                   /\ overrides[path].renames /\ overrides[path].flag = NoName

NewPathsUnlessLoad == PathHere \notin seen      \* a slip
NewPaths           == PathHere \notin seen /\ LoadHere \notin seenLoad
PathUnchecked      == TRUE      \* a slip
PathNotEmpty       == PathHere # <<>>

LeafAccepted == /\ PathNotEmpty /\ NewPaths /\ SchemaKind(F.holds) # "unsupported"
                /\ ~EmptyFlag(PathHere)

AddLeaf ==
  /\ AtField({"leaf"}) /\ LeafAccepted
  /\ seen' = seen \cup {PathHere} /\ seenLoad' = seenLoad \cup {LoadHere}
  /\ matched' = matched \cup ({PathHere} \cap DOMAIN overrides)
  /\ bindings' = Append(bindings, Zeroed(Overridden(NewBinding)))
  /\ stack' = Passed
  /\ UNCHANGED <<types, overrides, pc, visiting>>

RejectLeaf == AtField({"leaf"}) /\ ~LeafAccepted /\ Result("rejected")

\* validateOverrides: no override may be for a path that is not there.
AllMatched == DOMAIN overrides \subseteq matched

CheckOverrides ==
  /\ pc = "check"
  /\ Result(IF AllMatched THEN "done" ELSE "rejected")

Next == \/ SkipField \/ BadMetadata \/ EnterStruct \/ Recursion \/ LeaveStruct
        \/ AddLeaf \/ RejectLeaf \/ CheckOverrides

Spec == Init /\ [][Next]_schemaVars
-----------------------------------------------------------------------------
(* Properties.                                                               *)

\* The struct as a tree.  A route is the fields gone through from the root,
\* each as its type and its place there, to a field of one of the kinds.
FieldAt(s) == types[s[1]][s[2]]
Steps      == UNION {{t} \X (1..Len(types[t])) : t \in Types}
Starts(r)  == /\ r[1][1] = Root
              /\ \A i \in 1..(Len(r) - 1) : /\ FieldAt(r[i]).kind = "struct"
                                            /\ FieldAt(r[i]).type = r[i + 1][1]
RoutesTo(kinds) ==
  {r \in UNION {[1..n -> Steps] : n \in 1..Cardinality(Types)} :
     Starts(r) /\ FieldAt(Last(r)).kind \in kinds}
Leaves == RoutesTo({"leaf"})

PathOf(r) == FlattenSeq([i \in 1..Len(r) |-> FieldAt(r[i]).path])
LoadOf(r) == FlattenSeq([i \in 1..Len(r) |-> FieldAt(r[i]).load])
CLIOf(r)  == LET tagged == \A i \in 1..Len(r) : FieldAt(r[i]).cli IN
             IF PathOf(r) \in DOMAIN overrides
             THEN Switched(overrides[PathOf(r)].cli, tagged) ELSE tagged
RedactOf(r) == IF PathOf(r) \in DOMAIN overrides
               THEN Switched(overrides[PathOf(r)].redact, FieldAt(Last(r)).redact)
               ELSE FieldAt(Last(r)).redact

\* A type on a route of structs to itself.
Recursive == \E r \in RoutesTo({"struct"}) :
  \E i \in 1..Len(r) : r[i][1] = FieldAt(Last(r)).type

Faulty ==
  \/ RoutesTo({"badMetadata"}) # {}
  \/ \E r \in Leaves : SchemaKind(FieldAt(Last(r)).holds) = "unsupported"
  \/ \E r \in Leaves : PathOf(r) = <<>>
  \/ \E r, q \in Leaves : /\ r # q
                          /\ PathOf(r) = PathOf(q) \/ LoadOf(r) = LoadOf(q)
  \/ \E p \in DOMAIN overrides : EmptyFlag(p) \/ \A r \in Leaves : PathOf(r) # p

\* SchemaOf never enters a struct it is in, so that it ends; it rejects a struct
\* as recursive only when a type is inside itself, not when two fields have one
\* type; and it rejects one for the other faults it can have, and for nothing
\* else: two leaves with one path, or with one koanf path, wherever they are, an
\* empty path, bad metadata, a type without flags, an override for no leaf.
OnlyFaultsRejected ==
  /\ \A i, j \in 1..Len(stack) : stack[i].type = stack[j].type => i = j
  /\ pc = "recursive" => Recursive
  /\ pc = "rejected" => Faulty
  /\ pc = "done" => ~Recursive /\ ~Faulty

\* The schema has a binding for every leaf, with the paths its route spells, and
\* wants no flag for it if any struct around it is nocli, unless an override
\* decides.  Of a redacted leaf it holds and shows no default, and of any other
\* both, whether its tag or an override decides.
Binds(b, r) ==
  LET leaf == FieldAt(Last(r)) IN
  /\ b.path = PathOf(r) /\ b.load = LoadOf(r) /\ b.cli = CLIOf(r)
  /\ b.redacted = RedactOf(r)
  /\ b.default = IF b.redacted THEN ZeroValue(leaf.holds) ELSE leaf.default
  /\ b.shown = IF b.redacted THEN Redacted ELSE Format(leaf.default, leaf.holds)

BindingsAreLeaves ==
  pc = "done" => /\ \A r \in Leaves : \E n \in DOMAIN bindings : Binds(bindings[n], r)
                 /\ Len(bindings) = Cardinality(Leaves)
=============================================================================
