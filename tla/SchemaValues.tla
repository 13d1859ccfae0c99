---------------------------- MODULE SchemaValues -----------------------------
(* The values of schema fields and their texts: which types can have a flag, *)
(* how a text is parsed into a value, and how a value is written.            *)
EXTENDS Integers, Sequences, FiniteSets, FiniteSetsExt, SequencesExt

CONSTANT Letters    \* characters without a meaning of their own

\* A text is a sequence of tokens: characters, whole numerals, and texts in
\* quotes as encoding/csv writes and reads them.  No text has spaces, carriage
\* returns, or a numeral next to another character of a number.
Token == [is |-> "char", c |-> "none", n |-> 0, text |-> <<>>]
Char(c)   == [Token EXCEPT !.c = c]
Dec(n)    == [Token EXCEPT !.is = "dec", !.n = n]
Hex(n)    == [Token EXCEPT !.is = "hex", !.n = n]
Quoted(t) == [Token EXCEPT !.is = "quoted", !.text = t]
Comma     == Char("comma")
LineEnd   == Char("newline")
Open      == Char("open")       \* the brackets around a slice
Close     == Char("close")

Quoting(texts) == [is : {"quoted"}, c : {"none"}, n : {0}, text : texts]
Plain == [is : {"char", "dec", "hex", "nil"},
          c : {"none", "comma", "newline", "open", "close", "redacted"} \cup Letters,
          n : Int, text : {<<>>}]

\* What is given has quotes, and quotes inside them; writing a list adds to that.
TextOver(texts) == Seq(Plain \cup Quoting(texts))
Text            == TextOver(TextOver(TextOver({})))
TextOfLists     == TextOver(TextOver(Text))

\* A type is slices of slices of a base, or of pointers to it.  What is said of
\* int8 holds of the bases that numbers, durations and texts with methods of
\* their own are: what parses them can fail, and what it gives can be written.
Type == [base : {"string", "int8", "chan"}, pointers : BOOLEAN, depth : 0..3]

\* A value is a list of lists: a slice is one list, and a scalar a list of one.
\* A pointer is what it points to; nil is NilItem, or a slice of nothing.
NilItem    == <<[Token EXCEPT !.is = "nil"]>>
Value      == Seq(Seq(Text))
Scalar(x)  == <<<<x>>>>
Slice(xs)  == <<xs>>
ItemsOf(v) == v[1]

\* schemaKind and sliceSchemaKind: a slice of slices has the kind "", which is
\* no error, but a slice of those is.
SchemaKind(t) == CASE t.base = "chan" \/ t.depth > 2 -> "unsupported"
                   [] t.base # "chan" /\ t.depth = 2 -> ""
                   [] t.base # "chan" /\ t.depth = 1 -> "slice"
                   [] t.base # "chan" /\ t.depth = 0 -> "scalar"

Min8 == -128
Max8 == 127

\* The values of a type.
Item(t)     == (IF t.pointers THEN {NilItem} ELSE {}) \cup
               (IF t.base = "int8" THEN {<<Dec(n)>> : n \in Min8..Max8} ELSE Text)
Holds(t, v) == /\ v \in Seq(Seq(Item(t)))
               /\ t.depth < 2 => Len(v) = 1
               /\ t.depth = 0 => Len(ItemsOf(v)) = 1

ZeroItem(t)  == IF t.pointers THEN NilItem ELSE IF t.base = "int8" THEN <<Dec(0)>> ELSE <<>>
ZeroValue(t) == CASE t.depth = 2 -> <<>>
                  [] t.depth = 1 -> Slice(<<>>)
                  [] t.depth = 0 -> Scalar(ZeroItem(t))
-----------------------------------------------------------------------------
(* Writing.                                                                  *)

Has(t, is) == \E i \in DOMAIN t : t[i].is = is

CSVField(t) == IF Contains(t, Comma) \/ Contains(t, LineEnd) \/ Has(t, "quoted")
               THEN <<Quoted(t)>> ELSE t
FormatCSV(texts) == FlattenSeq([i \in DOMAIN texts |->
  IF i = 1 THEN CSVField(texts[i]) ELSE <<Comma>> \o CSVField(texts[i])])

FormatItem(x)  == IF x = NilItem THEN <<>> ELSE x
FormatItems(l) == [i \in DOMAIN l |-> FormatItem(l[i])]
Format(v, t)   == CASE t.depth = 0 -> FormatItem(ItemsOf(v)[1])
                    [] t.depth = 1 -> FormatCSV(FormatItems(ItemsOf(v)))
                    [] t.depth = 2 -> FormatCSV([i \in DOMAIN v |-> FormatCSV(FormatItems(v[i]))])
-----------------------------------------------------------------------------
(* Parsing.  A parser gives a set: its value, or nothing when it fails.      *)

\* Read gives the fields of the first line that is not empty, and fails if
\* there is none, or if a quoted text is only a part of a field.
Line(t) ==
  LET from == Min({i \in DOMAIN t : t[i] # LineEnd})
      ends == {i \in DOMAIN t : i > from /\ t[i] = LineEnd}
  IN  SubSeq(t, from, IF ends = {} THEN Len(t) ELSE Min(ends) - 1)
Cut(t) ==
  LET end     == Len(t) + 1
      ends    == {i \in DOMAIN t : t[i] = Comma} \cup {end}
      from(i) == Max({0} \cup {j \in ends : j < i}) + 1
  IN  FlattenSeq([i \in 1..end |->
        IF i \in ends THEN <<SubSeq(t, from(i), i - 1)>> ELSE <<>>])
Unquoted(f) == IF Has(f, "quoted") THEN f[1].text ELSE f
ReadCSV(t) ==
  LET fs == Cut(Line(t)) IN
  IF \/ \A i \in DOMAIN t : t[i] = LineEnd
     \/ \E k \in DOMAIN fs : Has(fs[k], "quoted") /\ Len(fs[k]) > 1
  THEN {} ELSE {[k \in DOMAIN fs |-> Unquoted(fs[k])]}

InRange(n) == n \in Min8..Max8

\* The values of all, or nothing when one has failed.
All(parsed) == IF {} \in Range(parsed) THEN {}
               ELSE {[i \in DOMAIN parsed |-> CHOOSE v \in parsed[i] : TRUE]}

IsNumeral(raw) == Len(raw) = 1 /\ raw[1].is \in {"dec", "hex"}

ParseItem(raw, t) ==
  CASE t.base = "string" -> {raw}
    [] t.base = "int8"   -> IF IsNumeral(raw) /\ InRange(raw[1].n) THEN {<<Dec(raw[1].n)>>} ELSE {}

Fields(raw) == IF raw = <<>> THEN {<<>>} ELSE ReadCSV(raw)
ParseItems(raw, t) ==
  UNION {All([k \in DOMAIN fs |-> ParseItem(fs[k], t)]) : fs \in Fields(raw)}

Parse(raw, t) ==
  CASE t.depth = 0 -> {Scalar(x) : x \in ParseItem(raw, t)}
    [] t.depth = 1 -> {Slice(xs) : xs \in ParseItems(raw, t)}
    [] t.depth = 2 ->
         UNION {All([k \in DOMAIN fs |-> ParseItems(fs[k], t)]) : fs \in Fields(raw)}

\* What WithSchemaFieldParser may be given: it takes a text for one item, or
\* gives a wider number, which reflect's Convert cuts to its low 8 bits; for a
\* blank it fails, or gives nil or what cannot be converted.
Converted(n) == ((n - Min8) % 256) + Min8
CustomItem(raw, t) ==
  CASE t.base = "string" -> IF raw = <<>> THEN {} ELSE {raw}
    [] t.base = "int8"   -> IF IsNumeral(raw) THEN {<<Dec(Converted(raw[1].n))>>} ELSE {}
CustomParse(raw, t) ==
  {IF t.depth = 0 THEN Scalar(x) ELSE Slice(<<x>>) : x \in CustomItem(raw, t)}
=============================================================================
