------------------------------ MODULE MCSchema ------------------------------
(* SchemaFlags for TLC: a root struct of up to two fields, a struct inside   *)
(* it, overrides for one path, flag sets with and without the name "a", and  *)
(* every short program of operations on a schema with a slice and a scalar.  *)
EXTENDS SchemaFlags

CONSTANTS Outer, Inner      \* the two struct types

MCTypes == {Outer, Inner}

\* "a-b" is written like a.b when the separator is "-"; "a_b" is its equal for
\* a normalize function; " " is a segment that comes to no name.
MCSegments   == {"a", "b", "a-b", "a_b", " "}
MCPieces     == {"a", "b", "a_b"}
MCWritten    == [s \in MCSegments |-> CASE s = "a-b" -> <<"a", "b">>
                                        [] s = " " -> <<>>
                                        [] OTHER -> <<s>>]
MCNormalized == [p \in MCPieces |-> IF p = "a_b" THEN <<"a", "b">> ELSE <<p>>]

Of(base, depth) == [base |-> base, pointers |-> FALSE, depth |-> depth]
X == <<Char("x")>>
Leaf(path) == [kind |-> "leaf", type |-> Inner, path |-> path, load |-> path,
               holds |-> Of("string", 0), default |-> Scalar(X),
               flag |-> NoName, cli |-> TRUE, redact |-> FALSE]
Holding(path, holds, default) ==
  [Leaf(path) EXCEPT !.holds = holds, !.default = default]
StructOf(type, path) == [Leaf(path) EXCEPT !.kind = "struct", !.type = type]

InnerFields ==
  {Leaf(<<"a">>), Leaf(<<"b">>), Leaf(<<"a", "b">>),
   [Leaf(<<"a">>) EXCEPT !.cli = FALSE], StructOf(Outer, <<"a">>)}
OuterFields == InnerFields \cup
  {Leaf(<<"a-b">>), Leaf(<<"a_b">>), Leaf(<<" ">>), Leaf(<<>>),
   [Leaf(<<"b">>) EXCEPT !.load = <<"a">>],     \* renamed by another tag
   [Leaf(<<"b">>) EXCEPT !.flag = <<"a">>],
   [Leaf(<<"a">>) EXCEPT !.redact = TRUE],
   Holding(<<"a">>, Of("chan", 0), Scalar(<<>>)),
   Holding(<<"a">>, Of("string", 3), <<>>),
   [Leaf(<<"a">>) EXCEPT !.kind = "skipped"],
   [Leaf(<<"a">>) EXCEPT !.kind = "badMetadata"],
   StructOf(Inner, <<>>), StructOf(Inner, <<"a">>), StructOf(Inner, <<"b">>),
   [StructOf(Inner, <<"a">>) EXCEPT !.cli = FALSE]}

UpTo2(S) == {<<>>} \cup {<<x>> : x \in S} \cup {<<x, y>> : x, y \in S}

HasInner(fields) ==
  \E i \in 1..Len(fields) : fields[i].kind = "struct" /\ fields[i].type = Inner
Structs == UNION {{[t \in MCTypes |-> IF t = Outer THEN outer ELSE inner] :
                     inner \in IF HasInner(outer) THEN UpTo2(InnerFields) ELSE {<<>>}} :
                  outer \in UpTo2(OuterFields)}

NoOverride == [renames |-> FALSE, flag |-> NoName, cli |-> "unset", redact |-> "unset",
               parser |-> FALSE]
SomeOverrides ==
  {[NoOverride EXCEPT !.cli = "on"], [NoOverride EXCEPT !.cli = "off"],
   [NoOverride EXCEPT !.redact = "on"], [NoOverride EXCEPT !.redact = "off"],
   [NoOverride EXCEPT !.renames = TRUE],
   [NoOverride EXCEPT !.renames = TRUE, !.flag = <<"b">>]}
NoOverrides == [p \in {} |-> NoOverride]
Overriding(p, o) == [q \in {p} |-> o]

Schemas(structs, overrides_) == [types : structs, overrides : overrides_]

\* Two fields, the second with a parser or not, and operations on their flags.
Pairs(xs, ys) ==
  {[t \in MCTypes |-> IF t = Outer THEN <<x, y>> ELSE <<>>] : x \in xs, y \in ys}
Parser == Overriding(<<"b">>, [NoOverride EXCEPT !.parser = TRUE])

Lines  == X \o <<LineEnd>> \o X
Two    == X \o <<Comma>> \o X
Quotes == X \o <<Quoted(X)>>
Brackets == <<Open>> \o X \o <<Close>>
Texts  == {<<>>, X, Lines, Two, Quotes, <<Quoted(Two)>>, <<LineEnd>>, Brackets}
Numerals == {<<Dec(5)>>, <<Hex(127)>>, <<Dec(128)>>, <<Dec(5), Comma, Dec(-128)>>}

Ops(n, texts) ==
  [kind : {"set", "append", "replace"}, n : {n}, texts : {<<x>> : x \in texts}]
  \cup [kind : {"replace"}, n : {n}, texts : {<<>>} \cup {<<x, y>> : x, y \in texts}]
Programs(S, length) == UNION {[1..n -> S] : n \in 0..length}

Strings(path)  == {Holding(path, Of("string", 1), Slice(xs)) : xs \in {<<>>, <<X, Two>>}}
ByteSlice(path) == {Holding(path, Of("int8", 1), Slice(<<<<Dec(127)>>>>))}
Pointers(path) == {Holding(path, [Of("string", 1) EXCEPT !.pointers = TRUE],
                           Slice(<<NilItem, Two>>))}
Secrets(path)  == {[f EXCEPT !.redact = TRUE] : f \in ByteSlice(path) \cup Pointers(path)}
Byte(path)     == {Holding(path, Of("int8", 0), Scalar(<<Dec(0)>>)),
                   [Holding(path, [base |-> "int8", pointers |-> TRUE, depth |-> 0],
                            Scalar(NilItem)) EXCEPT !.redact = TRUE]}
Nested(path)   == {Holding(path, Of("string", 2), <<<<Two, X>>, <<>>>>)}

ForFields == Schemas(Structs, {NoOverrides})
  \cup Schemas(Structs, {Overriding(<<"a">>, o) : o \in SomeOverrides}
                          \cup {Overriding(p, [NoOverride EXCEPT !.cli = "on"]) :
                                  p \in {<<"b">>, <<"a", "b">>}})

ValueCases ==
  [schema : Schemas(Pairs(Strings(<<"a">>), Byte(<<"b">>)), {NoOverrides, Parser}),
   defined : {{}}, call : {"good"},
   ops : Programs(Ops(1, {X, <<>>, Two}) \cup Ops(2, {<<Dec(128)>>}), 2)]
  \cup
  [schema : Schemas(Pairs(ByteSlice(<<"a">>) \cup Nested(<<"a">>), Strings(<<"b">>)),
                    {NoOverrides, Parser}),
   defined : {{}}, call : {"good"},
   ops : Programs(Ops(1, Texts \cup Numerals) \cup Ops(2, Texts), 1)]
  \cup
  [schema : Schemas(Pairs(Byte(<<"a">>), Strings(<<"b">>)), {NoOverrides, Parser}),
   defined : {{}}, call : {"good"}, ops : Programs(Ops(1, Numerals) \cup Ops(2, {X, Lines}), 2)]
  \cup
  [schema : Schemas(Pairs(Strings(<<"a">>), {Leaf(<<"b">>)}), {NoOverrides}),
   defined : {{}}, call : {"good"}, ops : Programs(Ops(1, {X}) \cup Ops(2, {X}), 3)]
  \cup
  [schema : Schemas(Pairs(Secrets(<<"a">>) \cup Pointers(<<"a">>), {Leaf(<<"b">>)}),
                    {NoOverrides}),
   defined : {{}}, call : Calls, ops : Programs(Ops(1, {<<>>, Two, Brackets}), 2)]

MCInputs == ForFields \cup {c.schema : c \in ValueCases}
MCCases ==
  [schema : ForFields, defined : {{}}, call : {"good"}, ops : {<<>>}]
  \cup [schema : Schemas(Structs, {NoOverrides}), defined : {{<<"a">>}}, call : {"good"},
        ops : {<<>>}]
  \cup ValueCases
=============================================================================
