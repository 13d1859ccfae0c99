------------------------------ MODULE MCOptions ------------------------------
(* TypedLoad for TLC: two loaders.  The second has the options of the first  *)
(* in reverse; or, of the options about slices, any of its own.              *)
EXTENDS TypedLoad

CONSTANTS l1, l2, none,
  files, levels, entries        \* the caller's arrays and its map

MCArrays == {files, levels, entries}
MCMemory == [c \in MCArrays |-> CASE c = files   -> <<"a.yaml", "b.txt">>
                                  [] c = levels  -> <<"env">>
                                  [] c = entries -> <<"env">>]
MCElems == {"a.yaml", "b.txt", "file", "env"}
MCExtOf == [e \in MCElems |-> CASE e = "a.yaml" -> ".yaml"
                                [] e = "b.txt" -> ".txt"
                                [] OTHER -> none]

MCDotenvFiles == <<"a.yaml">>
MCSources == <<"file">>

Nil == [op |-> "nil", field |-> none, value |-> none,
        slice |-> [cell |-> files, len |-> 0], items |-> <<>>]
Setting(op, field, value) == [Nil EXCEPT !.op = op, !.field = field, !.value = value]
Passing(op, field, cell, len) ==
  [Nil EXCEPT !.op = op, !.field = field, !.slice = [cell |-> cell, len |-> len]]
Adding(op, field, items) == [Nil EXCEPT !.op = op, !.field = field, !.items = items]

SliceOptions ==
  {Passing("slice", "files", files, 1), Passing("slice", "files", files, 2),
   Passing("dotenv", "dotenvFiles", files, 2), Passing("args", "args", files, 2),
   Adding("globs", "files", <<"a.yaml">>)}
AllOptions == SliceOptions \cup
  {Nil,
   Setting("value", "validateLevel", "struct"), Setting("value", "validateLevel", "other"),
   Setting("givenValue", "logger", "other"), Setting("givenValue", "logger", none),
   Passing("slice", "priority", levels, 1), Passing("dotenv", "dotenvFiles", files, 0),
   Adding("globs", "files", <<>>), Adding("sources", "customSources", <<"env", none>>),
   Passing("defaults", "defaults", entries, 1),
   Passing("defaultsTyped", "defaults", entries, 1),
   Setting("typedDefaults", "typedDefaults", "other"),
   Setting("typedDefaults", "typedDefaults", none),
   Setting("parser", ".yaml", "other"), Setting("parser", ".yaml", none),
   Setting("parser", none, "other")}

Lists(options, n) == UNION {[1..k -> options] : k \in 0..n}
Pairs == {<<s, Reverse(s)>> : s \in Lists(AllOptions, 2) \cup Lists(SliceOptions, 3)}
         \cup LET two == Lists({o \in SliceOptions : o.op # "dotenv"}, 2) IN two \X two
MCInputs == [given : {[l \in {l1, l2} |-> IF l = l1 THEN p[1] ELSE p[2]] : p \in Pairs},
             memory : {MCMemory}]

MCTree(whole, valid, part) ==
  [p \in {"", "p"} |-> IF p = "" THEN [is |-> whole, valid |-> valid]
                                ELSE [is |-> part, valid |-> TRUE]]
MCTrees == {MCTree("undecodable", TRUE, "undecodable"),
            MCTree("decodable", TRUE, "absent"), MCTree("decodable", FALSE, "absent")}
=============================================================================
