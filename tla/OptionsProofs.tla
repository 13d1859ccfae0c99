---------------------------- MODULE OptionsProofs ----------------------------
(* Theorems about Options and TypedLoad: for any number of loaders, any      *)
(* lists of options, any slices and maps of the caller, any number of its    *)
(* writes, and any configs.                                                  *)
EXTENDS TypedLoad, DataLemmas, SequenceTheorems, FiniteSetTheorems
-----------------------------------------------------------------------------
(* Types.                                                                    *)

\* What the caller passes stays what it was, and so does the size of its
\* arrays; New is at one of the options or behind the last.
GivenInv ==
  /\ \E in \in Inputs : /\ given = in.given
                        /\ \A a \in Arrays : Len(memory[a]) = Len(in.memory[a])
  /\ latest # Blank => at[latest] >= 1
  /\ \A b \in Loaders : at[b] <= Len(given[b]) + 1

\* The slices of a loader are in memory of its own or of the caller's.
Owned == \A b \in Loaders, f \in SliceFields : opts[b].slices[f].cell \in Arrays \cup {<<b, f>>}

StateInv == OptionsTypeOK /\ GivenInv /\ Owned

LEMMA GivenTypes ==
  ASSUME OptionsTypeOK, GivenInv
  PROVE  \A b \in Loaders :
           /\ given[b] \in Seq(Option) /\ Len(given[b]) \in Nat
           /\ \A i \in 1..Len(given[b]) :
                /\ given[b][i] \in Option
                /\ given[b][i].slice.cell \in Arrays
                /\ given[b][i].slice.len \in Nat
                /\ given[b][i].slice.len <= Len(memory[given[b][i].slice.cell])
<1>1. PICK in \in Inputs : /\ given = in.given
                           /\ \A a \in Arrays : Len(memory[a]) = Len(in.memory[a])
  BY DEF GivenInv
<1> SUFFICES ASSUME NEW b \in Loaders
             PROVE  /\ given[b] \in Seq(Option) /\ Len(given[b]) \in Nat
                    /\ \A i \in 1..Len(given[b]) :
                         /\ given[b][i] \in Option
                         /\ given[b][i].slice.cell \in Arrays
                         /\ given[b][i].slice.len \in Nat
                         /\ given[b][i].slice.len <= Len(memory[given[b][i].slice.cell])
  OBVIOUS
<1>2. /\ given[b] \in Seq(Option)
      /\ \A i \in 1..Len(given[b]) :
           given[b][i].slice.len <= Len(in.memory[given[b][i].slice.cell])
  BY <1>1, InputAssumption
<1>3. Len(given[b]) \in Nat /\ \A i \in 1..Len(given[b]) : given[b][i] \in Option
  BY <1>2
<1>4. \A o \in Option : o.slice.cell \in Arrays /\ o.slice.len \in Nat
  BY DEF Option
<1> QED
  BY <1>1, <1>2, <1>3, <1>4

LEMMA ContentType ==
  ASSUME memory \in [Cells -> Seq(Elems)], NEW s \in Slice, s.len <= Len(memory[s.cell])
  PROVE  Content(s) \in Seq(Elems) /\ Len(Content(s)) = s.len
<1>1. memory[s.cell] \in Seq(Elems) /\ s.len \in Nat
  BY DEF Slice
<1> QED
  BY <1>1, PrefixType DEF Content

\* Sources without the nil ones; of matches there are no nil ones.
LEMMA NonNilType ==
  ASSUME NEW items \in Seq(Elems \cup {Blank})
  PROVE  /\ NonNil(items) \in Seq(Elems)
         /\ items \in Seq(Elems) => NonNil(items) = items
<1>1. PICK s : s = [i \in DOMAIN items |-> IF items[i] = Blank THEN <<>> ELSE <<items[i]>>]
  OBVIOUS
<1>2. \A i \in 1..Len(items) : items[i] # Blank => <<items[i]>> \in Seq(Elems)
  OBVIOUS
<1>3. s \in Seq(Seq(Elems))
  <2>1. Len(items) \in Nat /\ DOMAIN items = 1..Len(items) /\ <<>> \in Seq(Elems)
    BY EmptySeq
  <2>2. \A i \in 1..Len(items) : s[i] \in Seq(Elems)
    BY <1>1, <1>2, <2>1
  <2> QED
    BY <1>1, <2>1, <2>2
<1>4. NonNil(items) = FlattenSeq(s)
  BY <1>1 DEF NonNil
<1>5. ASSUME items \in Seq(Elems) PROVE FlattenSeq(s) = items
  <2>1. s = [i \in DOMAIN items |-> <<items[i]>>]
    BY <1>1, <1>5, BlankAssumption
  <2> QED
    BY <1>5, <2>1, FlattenSingles
<1> QED
  BY <1>3, <1>4, <1>5, FlattenType

\* The option that New is at.
LEMMA OptTypes ==
  ASSUME StateInv, Busy
  PROVE  /\ latest \in Loaders /\ at[latest] \in 1..Len(given[latest]) /\ Opt \in Option
         /\ Opt.op \in Ops /\ Opt.field \in FieldsOf(Opt.op)
         /\ Opt.value \in Values \cup {Blank}
         /\ Opt.slice \in Slice /\ Opt.slice.cell \in Arrays
         /\ Opt.slice.len <= Len(memory[Opt.slice.cell])
         /\ Content(Opt.slice) \in Seq(Elems) /\ Len(Content(Opt.slice)) = Opt.slice.len
         /\ NonNil(Opt.items) \in Seq(Elems)
         /\ Opt.op = "globs" => NonNil(Opt.items) = Opt.items
         /\ O \in OptionsRecord
<1>1. latest \in Loaders /\ at[latest] \in 1..Len(given[latest])
  <2>1. latest \in Loaders /\ at[latest] >= 1 /\ at[latest] \in Nat
    BY DEF StateInv, GivenInv, OptionsTypeOK, Busy
  <2>2. at[latest] <= Len(given[latest]) /\ Len(given[latest]) \in Nat
    BY <2>1, GivenTypes DEF StateInv, OptionsTypeOK, Busy, Built
  <2> QED
    BY <2>1, <2>2
<1>2. /\ Opt \in Option /\ Opt.slice.cell \in Arrays
      /\ Opt.slice.len <= Len(memory[Opt.slice.cell])
  BY <1>1, GivenTypes DEF StateInv, Opt
<1>3. /\ Opt.op \in Ops /\ Opt.field \in FieldsOf(Opt.op) /\ Opt.value \in Values \cup {Blank}
      /\ Opt.slice \in Slice /\ Opt.items \in Seq(Elems \cup {Blank})
      /\ Opt.op = "globs" => Opt.items \in Seq(Elems)
  BY <1>2 DEF Option, Slice, Cells
<1>4. Content(Opt.slice) \in Seq(Elems) /\ Len(Content(Opt.slice)) = Opt.slice.len
  BY <1>2, <1>3, ContentType DEF StateInv, OptionsTypeOK
<1> QED
  BY <1>1, <1>2, <1>3, <1>4, NonNilType DEF StateInv, OptionsTypeOK, O
-----------------------------------------------------------------------------
(* What an option does to the slices, in five forms.                         *)

NoSlice ==
  /\ \/ Opt.op \in {"nil", "value", "givenValue", "typedDefaults", "parser"}
     \/ Opt.op = "dotenv" /\ Opt.slice.len = 0
  /\ opts'[latest].slices = O.slices /\ memory' = memory
Taken ==
  /\ Opt.op \in {"slice", "dotenv", "defaults"} /\ (Opt.op = "dotenv" => Opt.slice.len # 0)
  /\ opts'[latest].slices = [O.slices EXCEPT ![Opt.field] = Opt.slice] /\ memory' = memory
Owning(items) ==
  /\ opts'[latest].slices = [O.slices EXCEPT ![Opt.field] = OwnSlice(Opt.field, items)]
  /\ memory' = OwnMemory(Opt.field, items)
Copied == Opt.op \in {"args", "defaultsTyped"} /\ Owning(Content(Opt.slice))
Regrown ==
  /\ Opt.op \in {"globs", "sources"}
  /\ ~HasRoom(O.slices[Opt.field], NonNil(Opt.items))
  /\ Owning(Content(O.slices[Opt.field]) \o NonNil(Opt.items))
Extended ==
  LET s == O.slices[Opt.field]
      items == NonNil(Opt.items) IN
  /\ Opt.op \in {"globs", "sources"} /\ HasRoom(s, items)
  /\ opts'[latest].slices = [O.slices EXCEPT ![Opt.field] = [s EXCEPT !.len = @ + Len(items)]]
  /\ memory' = [memory EXCEPT ![s.cell] = [i \in DOMAIN @ |->
                  IF i \in (s.len + 1)..(s.len + Len(items)) THEN items[i - s.len] ELSE @[i]]]

LEMMA OwnSliceType ==
  ASSUME latest \in Loaders, NEW f \in SliceFields, NEW items \in Seq(Elems)
  PROVE  OwnSlice(f, items) \in Slice
BY DEF OwnSlice, Slice, Cells, Own

\* The items that glob patterns and sources add, behind what is there.
LEMMA GrownType ==
  ASSUME StateInv, Busy, Opt.op \in {"globs", "sources"}
  PROVE  /\ Opt.field \in {"files", "customSources"}
         /\ O.slices[Opt.field] \in Slice
         /\ O.slices[Opt.field].len <= Len(memory[O.slices[Opt.field].cell])
         /\ Content(O.slices[Opt.field]) \in Seq(Elems)
         /\ Len(Content(O.slices[Opt.field])) = O.slices[Opt.field].len
         /\ Content(O.slices[Opt.field]) \o NonNil(Opt.items) \in Seq(Elems)
<1>1. Opt.field \in {"files", "customSources"} /\ Opt.field \in SliceFields
  BY OptTypes DEF FieldsOf, SliceFields
<1>2. O.slices[Opt.field] \in Slice
  BY <1>1, OptTypes DEF OptionsRecord
<1>3. O.slices[Opt.field].len <= Len(memory[O.slices[Opt.field].cell])
  BY <1>1, OptTypes DEF StateInv, OptionsTypeOK, O
<1>4. /\ Content(O.slices[Opt.field]) \in Seq(Elems)
      /\ Len(Content(O.slices[Opt.field])) = O.slices[Opt.field].len
  BY <1>2, <1>3, ContentType DEF StateInv, OptionsTypeOK
<1>5. NonNil(Opt.items) \in Seq(Elems)
  BY OptTypes
<1> QED
  BY <1>1, <1>2, <1>3, <1>4, <1>5

ApplyForm ==
  /\ UNCHANGED <<given, latest, writes>>
  /\ at' = [at EXCEPT ![latest] = @ + 1]
  /\ opts' = [opts EXCEPT ![latest] = opts'[latest]]
  /\ opts'[latest] \in OptionsRecord
  /\ ~NoSlice => Opt.field \in SliceFields
  /\ NoSlice \/ Taken \/ Copied \/ Regrown \/ Extended

LEMMA ApplyForms ==
  ASSUME StateInv, ApplyOption
  PROVE  Busy /\ ApplyForm
<1>1. Busy
  BY DEF ApplyOption, SkipNil, WithValue, WithGivenValue, WithSlice, WithDotenv, WithArgs,
         WithFileGlobs, WithSources, WithDefaults, WithDefaultsTyped, WithTypedDefaults,
         WithFileParser, Applying
<1> SUFFICES ApplyForm
  BY <1>1
<1>2. /\ latest \in Loaders /\ O \in OptionsRecord /\ opts \in [Loaders -> OptionsRecord]
      /\ Opt.field \in FieldsOf(Opt.op) /\ Opt.value \in Values \cup {Blank}
      /\ Opt.slice \in Slice /\ Content(Opt.slice) \in Seq(Elems)
      /\ NonNil(Opt.items) \in Seq(Elems) /\ (Opt.op = "globs" => NonNil(Opt.items) = Opt.items)
  BY <1>1, OptTypes DEF StateInv, OptionsTypeOK
<1>3. ASSUME NEW o \in OptionsRecord, NEW m, Leaves(o, m)
      PROVE  /\ UNCHANGED <<given, latest, writes>>
             /\ at' = [at EXCEPT ![latest] = @ + 1]
             /\ opts' = [opts EXCEPT ![latest] = opts'[latest]]
             /\ opts'[latest] = o /\ memory' = m
  BY <1>2, <1>3 DEF Leaves
<1>4. ASSUME NEW o \in OptionsRecord, Leaves(o, memory), o.slices = O.slices,
             \/ Opt.op \in {"nil", "value", "givenValue", "typedDefaults", "parser"}
             \/ Opt.op = "dotenv" /\ Opt.slice.len = 0
      PROVE  ApplyForm
  BY <1>3, <1>4 DEF NoSlice, ApplyForm
<1>5. ASSUME NEW o \in OptionsRecord, Leaves(o, memory),
             o.slices = [O.slices EXCEPT ![Opt.field] = Opt.slice],
             Opt.op \in {"slice", "dotenv", "defaults"},
             Opt.op = "dotenv" => Opt.slice.len # 0, Opt.field \in SliceFields
      PROVE  ApplyForm
  BY <1>3, <1>5 DEF Taken, ApplyForm
<1>6. ASSUME NEW o \in OptionsRecord, Opt.field \in SliceFields,
             Opt.op \in {"args", "defaultsTyped"},
             o.slices = [O.slices EXCEPT ![Opt.field] = OwnSlice(Opt.field, Content(Opt.slice))],
             Leaves(o, OwnMemory(Opt.field, Content(Opt.slice)))
      PROVE  ApplyForm
  BY <1>3, <1>6 DEF Copied, Owning, ApplyForm
<1>7. ASSUME NEW o \in OptionsRecord, NEW m, Leaves(o, m), Opt.field \in SliceFields,
              Extended \/ Regrown
      PROVE  ApplyForm
  BY <1>3, <1>7 DEF ApplyForm
<1>8. CASE SkipNil
  BY <1>2, <1>4, <1>8 DEF SkipNil, Applying
<1>9. CASE WithValue
  <2>1. [O EXCEPT !.values[Opt.field] = Opt.value] \in OptionsRecord
    BY <1>2, <1>9 DEF WithValue, Applying, FieldsOf, OptionsRecord
  <2>2. [O EXCEPT !.values[Opt.field] = Opt.value].slices = O.slices
    BY <1>2 DEF OptionsRecord
  <2> QED
    BY <1>4, <1>9, <2>1, <2>2 DEF WithValue, Applying
<1>10. CASE WithGivenValue
  <2>1. [O EXCEPT !.values[Opt.field] = Given(Opt.value)] \in OptionsRecord
    BY <1>2, <1>10 DEF WithGivenValue, Applying, FieldsOf, OptionsRecord, Given
  <2>2. [O EXCEPT !.values[Opt.field] = Given(Opt.value)].slices = O.slices
    BY <1>2 DEF OptionsRecord
  <2> QED
    BY <1>4, <1>10, <2>1, <2>2 DEF WithGivenValue, Applying
<1>11. CASE WithTypedDefaults
  <2> DEFINE o == [O EXCEPT !.typedDefaults = Opt.value,
                            !.typedDefaultsErr = TypedDefaultsErr(Opt.value)]
  <2>1. o \in OptionsRecord /\ o.slices = O.slices
    BY <1>2 DEF OptionsRecord, TypedDefaultsErr
  <2> QED
    BY <1>4, <1>11, <2>1 DEF WithTypedDefaults, Applying
<1>12. CASE WithFileParser
  <2> DEFINE o == [O EXCEPT !.fileParsers[Opt.field] = Opt.value]
  <2>1. ASSUME Opt.field # Blank PROVE o \in OptionsRecord /\ o.slices = O.slices
    BY <1>2, <1>12, <2>1 DEF WithFileParser, Applying, FieldsOf, OptionsRecord
  <2>2. Leaves(O, memory) \/ (Opt.field # Blank /\ Leaves(o, memory))
    BY <1>12 DEF WithFileParser
  <2>3. Opt.op = "parser"
    BY <1>12 DEF WithFileParser, Applying
  <2> HIDE DEF o
  <2> QED
    BY <1>2, <1>4, <2>1, <2>2, <2>3
<1>13. CASE WithSlice \/ WithDotenv \/ WithDefaults
  <2> DEFINE s == [O.slices EXCEPT ![Opt.field] = Opt.slice]
  <2>1. Opt.field \in SliceFields /\ Opt.op \in {"slice", "dotenv", "defaults"}
        /\ (Opt.op = "dotenv" => Opt.field = "dotenvFiles")
        /\ (Opt.op = "defaults" => Opt.field = "defaults")
    BY <1>2, <1>13
       DEF WithSlice, WithDotenv, WithDefaults, Applying, FieldsOf, SliceFields
  <2>2. s \in [SliceFields -> Slice]
    BY <1>2, <2>1 DEF OptionsRecord
  <2>3. ASSUME WithSlice PROVE ApplyForm
    <3>1. [O EXCEPT !.slices[Opt.field] = Opt.slice] \in OptionsRecord
          /\ [O EXCEPT !.slices[Opt.field] = Opt.slice].slices = s
      BY <1>2, <2>2 DEF OptionsRecord
    <3> QED
      BY <1>5, <2>1, <2>3, <3>1 DEF WithSlice, Applying
  <2>4. ASSUME WithDotenv PROVE ApplyForm
    <3>1. [O EXCEPT !.slices["dotenvFiles"] = Opt.slice] \in OptionsRecord
          /\ [O EXCEPT !.slices["dotenvFiles"] = Opt.slice].slices = s
      BY <1>2, <2>1, <2>2, <2>4 DEF OptionsRecord, WithDotenv, Applying
    <3>2. Opt.op = "dotenv"
      BY <2>4 DEF WithDotenv, Applying
    <3>3. \/ Opt.slice.len = 0 /\ Leaves(O, memory)
          \/ Opt.slice.len # 0 /\ Leaves([O EXCEPT !.slices["dotenvFiles"] = Opt.slice], memory)
      BY <2>4 DEF WithDotenv
    <3> QED
      BY <1>2, <1>4, <1>5, <2>1, <3>1, <3>2, <3>3
  <2>5. ASSUME WithDefaults PROVE ApplyForm
    <3>1. DefaultsSet(Opt.slice) \in OptionsRecord /\ DefaultsSet(Opt.slice).slices = s
      BY <1>2, <2>1, <2>2, <2>5 DEF OptionsRecord, DefaultsSet, WithDefaults, Applying
    <3> QED
      BY <1>5, <2>1, <2>5, <3>1 DEF WithDefaults, Applying
  <2> QED
    BY <1>13, <2>3, <2>4, <2>5
<1>14. CASE WithArgs \/ WithDefaultsTyped
  <2> DEFINE s == [O.slices EXCEPT ![Opt.field] = OwnSlice(Opt.field, Content(Opt.slice))]
  <2>1. /\ Opt.field \in SliceFields /\ Opt.op \in {"args", "defaultsTyped"}
        /\ Opt.op = "args" => Opt.field = "args"
        /\ Opt.op = "defaultsTyped" => Opt.field = "defaults"
    BY <1>2, <1>14 DEF WithArgs, WithDefaultsTyped, Applying, FieldsOf, SliceFields
  <2>2. s \in [SliceFields -> Slice]
    <3>1. OwnSlice(Opt.field, Content(Opt.slice)) \in Slice
      BY <1>2, <2>1, OwnSliceType
    <3> QED
      BY <1>2, <2>1, <3>1 DEF OptionsRecord
  <2>3. ASSUME WithArgs PROVE ApplyForm
    <3> DEFINE o == [O EXCEPT !.slices["args"] = Cloned(Opt.slice)]
    <3>1. Opt.op = "args" /\ Leaves(o, OwnMemory(Opt.field, Content(Opt.slice)))
      BY <2>1, <2>3 DEF WithArgs, Applying
    <3>2. o \in OptionsRecord /\ o.slices = s
      BY <1>2, <2>1, <2>2, <3>1 DEF OptionsRecord, Cloned
    <3> QED
      BY <1>6, <2>1, <3>1, <3>2
  <2>4. ASSUME WithDefaultsTyped PROVE ApplyForm
    <3> DEFINE o == DefaultsSet(OwnSlice("defaults", Content(Opt.slice)))
    <3>1. Opt.op = "defaultsTyped" /\ Leaves(o, OwnMemory(Opt.field, Content(Opt.slice)))
      BY <2>1, <2>4 DEF WithDefaultsTyped, Applying
    <3>2. o \in OptionsRecord /\ o.slices = s
      BY <1>2, <2>1, <2>2, <3>1 DEF OptionsRecord, DefaultsSet
    <3> QED
      BY <1>6, <2>1, <3>1, <3>2
  <2> QED
    BY <1>14, <2>3, <2>4
<1>15. CASE WithFileGlobs \/ WithSources
  <2> DEFINE f == Opt.field
             s == O.slices[f]
             items == NonNil(Opt.items)
  <2>1. /\ Opt.op \in {"globs", "sources"} /\ AppendTo(f, items)
        /\ Opt.op = "globs" => f = "files"
        /\ Opt.op = "sources" => f = "customSources"
    BY <1>2, <1>15 DEF WithFileGlobs, WithSources, Applying, FieldsOf
  <2>2. f \in SliceFields /\ s \in Slice /\ Content(s) \o items \in Seq(Elems)
        /\ s.len \in Nat /\ Len(items) \in Nat /\ items \in Seq(Elems)
    BY <1>1, <1>2, <2>1, GrownType DEF SliceFields, Slice
  <2>3. CASE HasRoom(s, items)
    <3> DEFINE o == [O EXCEPT !.slices[f].len = @ + Len(items)]
               m == [memory EXCEPT ![s.cell] = [i \in DOMAIN @ |->
                       IF i \in (s.len + 1)..(s.len + Len(items)) THEN items[i - s.len] ELSE @[i]]]
    <3>1. Leaves(o, m)
      BY <2>1, <2>3 DEF AppendTo
    <3>2. o.slices = [O.slices EXCEPT ![f] = [s EXCEPT !.len = @ + Len(items)]]
      BY <1>2, <2>2 DEF OptionsRecord
    <3>3. [s EXCEPT !.len = @ + Len(items)] \in Slice
      BY <2>2 DEF Slice
    <3>4. o \in OptionsRecord
      BY <1>2, <2>2, <3>3 DEF OptionsRecord
    <3>5. Extended
      BY <1>3, <2>1, <2>3, <3>1, <3>2, <3>4 DEF Extended
    <3> QED
      BY <1>7, <2>2, <3>1, <3>4, <3>5
  <2>4. CASE ~HasRoom(s, items)
    <3> DEFINE own == OwnSlice(f, Content(s) \o items)
               o == [O EXCEPT !.slices[f] = own]
    <3>1. Leaves(o, OwnMemory(f, Content(s) \o items))
      BY <2>1, <2>4 DEF AppendTo
    <3>2. own \in Slice
      BY <1>2, <2>2, OwnSliceType
    <3> HIDE DEF own
    <3>3. o \in OptionsRecord /\ o.slices = [O.slices EXCEPT ![f] = own]
      BY <1>2, <2>2, <3>2 DEF OptionsRecord
    <3>4. Regrown
      BY <1>3, <2>1, <2>4, <3>1, <3>3 DEF Regrown, Owning, own
    <3> QED
      BY <1>7, <2>2, <3>1, <3>3, <3>4
  <2> QED
    BY <2>3, <2>4
<1> QED
  BY <1>1, <1>8, <1>9, <1>10, <1>11, <1>12, <1>13, <1>14, <1>15 DEF ApplyOption

LEMMA StateInit == OptionsInit => StateInv
<1> SUFFICES ASSUME OptionsInit PROVE StateInv
  OBVIOUS
<1>1. PICK in \in Inputs :
        /\ given = in.given
        /\ memory = [c \in Cells |-> IF c \in Arrays THEN in.memory[c] ELSE OwnDefault(c[2])]
  BY DEF OptionsInit
<1>2. \A f : OwnDefault(f) \in Seq(Elems)
  BY DefaultAssumption DEF OwnDefault
<1>3. in.memory \in [Arrays -> Seq(Elems)]
  BY InputAssumption
<1>4. memory \in [Cells -> Seq(Elems)]
  BY <1>1, <1>2, <1>3
<1>5. \A b \in Loaders, f \in SliceFields :
        /\ <<b, f>> \in Own /\ <<b, f>> \in Cells /\ <<b, f>> \notin Arrays
        /\ memory[<<b, f>>] = OwnDefault(f)
  BY <1>1, ArrayAssumption DEF Own, Cells
<1>6. \A b \in Loaders : /\ opts[b] = NewOptions(b)
                         /\ opts[b] \in OptionsRecord
                         /\ \A f \in SliceFields : opts[b].slices[f].cell = <<b, f>>
                                                /\ opts[b].slices[f].len = Len(OwnDefault(f))
  <2> SUFFICES ASSUME NEW b \in Loaders
               PROVE  /\ opts[b] = NewOptions(b)
                      /\ opts[b] \in OptionsRecord
                      /\ \A f \in SliceFields : opts[b].slices[f].cell = <<b, f>>
                                             /\ opts[b].slices[f].len = Len(OwnDefault(f))
    OBVIOUS
  <2>1. opts[b] = NewOptions(b)
    BY DEF OptionsInit
  <2>2. \A f \in SliceFields : [cell |-> <<b, f>>, len |-> Len(OwnDefault(f))] \in Slice
    BY <1>2, <1>5 DEF Slice
  <2> QED
    BY <2>1, <2>2 DEF NewOptions, OptionsRecord
<1>7. OptionsTypeOK
  <2>1. opts \in [Loaders -> OptionsRecord]
    BY <1>6 DEF OptionsInit
  <2>2. \A b \in Loaders, f \in SliceFields :
          opts[b].slices[f].len <= Len(memory[opts[b].slices[f].cell])
    <3> SUFFICES ASSUME NEW b \in Loaders, NEW f \in SliceFields
                 PROVE  opts[b].slices[f].len <= Len(memory[opts[b].slices[f].cell])
      OBVIOUS
    <3>1. Len(OwnDefault(f)) \in Nat
      BY <1>2
    <3>2. memory[opts[b].slices[f].cell] = OwnDefault(f)
          /\ opts[b].slices[f].len = Len(OwnDefault(f))
      BY <1>5, <1>6
    <3> QED
      BY <3>1, <3>2
  <2> QED
    BY <1>4, <2>1, <2>2, BoundAssumption DEF OptionsTypeOK, OptionsInit
<1>8. GivenInv
  <2>1. \A a \in Arrays : memory[a] = in.memory[a]
    BY <1>1 DEF Cells
  <2>2. \A b \in Loaders : given[b] \in Seq(Option)
    BY <1>1, InputAssumption
  <2> QED
    BY <1>1, <2>1, <2>2 DEF GivenInv, OptionsInit
<1> QED
  BY <1>6, <1>7, <1>8 DEF StateInv, Owned

\* The cells of the caller keep their size, and a cell is as large as every
\* slice of it, whatever form the option has.
LEMMA ApplyMemory ==
  ASSUME StateInv, Busy, ApplyForm
  PROVE  /\ memory' \in [Cells -> Seq(Elems)]
         /\ \A a \in Arrays : Len(memory'[a]) = Len(memory[a])
         /\ \A b \in Loaders, f \in SliceFields :
              /\ opts'[b].slices[f].len <= Len(memory'[opts'[b].slices[f].cell])
              /\ opts'[b].slices[f].cell \in Arrays \cup {<<b, f>>}
<1>1. /\ latest \in Loaders /\ O \in OptionsRecord /\ opts \in [Loaders -> OptionsRecord]
      /\ Opt.slice \in Slice /\ Opt.slice.cell \in Arrays
      /\ Opt.slice.len <= Len(memory[Opt.slice.cell])
      /\ Content(Opt.slice) \in Seq(Elems) /\ NonNil(Opt.items) \in Seq(Elems)
      /\ memory \in [Cells -> Seq(Elems)]
  BY OptTypes DEF StateInv, OptionsTypeOK
<1>2. \A b \in Loaders, f \in SliceFields :
        /\ opts[b].slices[f].len <= Len(memory[opts[b].slices[f].cell])
        /\ opts[b].slices[f].cell \in Arrays \cup {<<b, f>>}
        /\ opts[b].slices[f] \in Slice
        /\ b # latest => opts'[b] = opts[b]
  BY <1>1 DEF StateInv, OptionsTypeOK, Owned, ApplyForm, OptionsRecord
<1>3. \A b \in Loaders, f \in SliceFields : <<b, f>> \in Cells /\ <<b, f>> \notin Arrays
  BY ArrayAssumption DEF Own, Cells
<1>4. opts[latest] = O
  BY DEF O
<1>5. CASE NoSlice
  BY <1>1, <1>2, <1>4, <1>5 DEF NoSlice
<1>6. CASE Taken
  <2>1. Opt.field \in SliceFields
    BY <1>6 DEF Taken, NoSlice, ApplyForm
  <2>2. \A f \in SliceFields : opts'[latest].slices[f] =
          IF f = Opt.field THEN Opt.slice ELSE O.slices[f]
    BY <1>1, <1>6, <2>1 DEF Taken, OptionsRecord
  <2> QED
    BY <1>1, <1>2, <1>4, <1>6, <2>2 DEF Taken
<1>7. ASSUME NEW items \in Seq(Elems), Owning(items), Opt.field \in SliceFields
      PROVE  /\ memory' \in [Cells -> Seq(Elems)]
             /\ \A a \in Arrays : Len(memory'[a]) = Len(memory[a])
             /\ \A b \in Loaders, f \in SliceFields :
                  /\ opts'[b].slices[f].len <= Len(memory'[opts'[b].slices[f].cell])
                  /\ opts'[b].slices[f].cell \in Arrays \cup {<<b, f>>}
  <2> DEFINE own == <<latest, Opt.field>>
  <2>1. memory' = [memory EXCEPT ![own] = items] /\ own \in Cells /\ own \notin Arrays
    BY <1>1, <1>3, <1>7 DEF Owning, OwnMemory
  <2>2. memory' \in [Cells -> Seq(Elems)] /\ memory'[own] = items
        /\ \A c \in Cells : c # own => memory'[c] = memory[c]
    BY <1>1, <1>7, <2>1
  <2>3. \A f \in SliceFields : opts'[latest].slices[f] =
          IF f = Opt.field THEN [cell |-> own, len |-> Len(items)] ELSE O.slices[f]
    BY <1>1, <1>7 DEF Owning, OwnSlice, OptionsRecord
  <2>4. \A a \in Arrays : memory'[a] = memory[a]
    BY <2>1, <2>2 DEF Cells
  <2> SUFFICES ASSUME NEW b \in Loaders, NEW f \in SliceFields
               PROVE  /\ opts'[b].slices[f].len <= Len(memory'[opts'[b].slices[f].cell])
                      /\ opts'[b].slices[f].cell \in Arrays \cup {<<b, f>>}
    BY <2>2, <2>4
  <2>5. CASE b = latest /\ f = Opt.field
    <3>1. opts'[b].slices[f].cell = own /\ opts'[b].slices[f].len = Len(items)
      BY <2>3, <2>5
    <3>2. Len(items) \in Nat
      BY <1>7
    <3> QED
      BY <2>2, <2>5, <3>1, <3>2
  <2>6. CASE ~(b = latest /\ f = Opt.field)
    <3>1. opts'[b].slices[f] = opts[b].slices[f]
      BY <1>2, <1>4, <2>3, <2>6
    <3>2. opts[b].slices[f].cell # own /\ opts[b].slices[f].cell \in Cells
      <4>1. <<b, f>> # own /\ <<b, f>> \in Cells
        BY <1>3, <2>6
      <4>2. opts[b].slices[f].cell \in Arrays \cup {<<b, f>>}
        BY <1>2
      <4> HIDE DEF own
      <4> QED
        BY <2>1, <4>1, <4>2 DEF Cells
    <3> QED
      BY <1>2, <2>2, <3>1, <3>2
  <2> QED
    BY <2>5, <2>6
<1>8. CASE Copied
  BY <1>1, <1>7, <1>8 DEF Copied, NoSlice, ApplyForm
<1>9. CASE Regrown
  BY <1>7, <1>9, GrownType DEF Regrown, NoSlice, ApplyForm
<1>10. CASE Extended
  <2> DEFINE f == Opt.field
             s == O.slices[f]
             items == NonNil(Opt.items)
             m == [i \in DOMAIN memory[s.cell] |->
                    IF i \in (s.len + 1)..(s.len + Len(items)) THEN items[i - s.len]
                                                               ELSE memory[s.cell][i]]
  <2>1. /\ f \in SliceFields /\ s \in Slice /\ s.len \in Nat /\ s.cell \in Cells
        /\ Len(items) \in Nat
    <3>1. Opt.op \in {"globs", "sources"}
      BY <1>10 DEF Extended
    <3>2. f \in {"files", "customSources"} /\ s \in Slice
      BY <3>1, GrownType
    <3>3. Len(items) \in Nat
      BY <1>1
    <3> HIDE DEF s, items
    <3> QED
      BY <3>2, <3>3 DEF SliceFields, Slice
  <2>2. memory' = [memory EXCEPT ![s.cell] = m]
    BY <1>10 DEF Extended
  <2>3. \A i \in 1..Len(memory[s.cell]) : m[i] \in Elems
    <3> SUFFICES ASSUME NEW i \in 1..Len(memory[s.cell]) PROVE m[i] \in Elems
      OBVIOUS
    <3>a. memory[s.cell] \in Seq(Elems)
      BY <1>1, <2>1
    <3>b. memory[s.cell][i] \in Elems /\ i \in DOMAIN memory[s.cell]
      BY <3>a
    <3>c. m[i] = IF i \in (s.len + 1)..(s.len + Len(items)) THEN items[i - s.len]
                                                           ELSE memory[s.cell][i]
      BY <3>b, Zenon
    <3> HIDE DEF m
    <3>1. CASE i \in (s.len + 1)..(s.len + Len(items))
      <4>1. i - s.len \in 1..Len(items)
        BY <2>1, <3>1
      <4>2. items[i - s.len] \in Elems
        BY <1>1, <4>1
      <4> QED
        BY <3>1, <3>c, <4>2, Zenon
    <3>2. CASE i \notin (s.len + 1)..(s.len + Len(items))
      BY <3>2, <3>b, <3>c, Zenon
    <3> QED
      BY <3>1, <3>2
  <2>4. m \in Seq(Elems) /\ Len(m) = Len(memory[s.cell])
    <3>1. memory[s.cell] \in Seq(Elems)
      BY <1>1, <2>1
    <3>2. DOMAIN m = 1..Len(memory[s.cell]) /\ Len(memory[s.cell]) \in Nat
      BY <3>1
    <3>3. m \in [1..Len(memory[s.cell]) -> Elems]
      BY <2>3, <3>2
    <3> HIDE DEF m, s
    <3>4. ASSUME NEW n \in Nat, m \in [1..n -> Elems] PROVE m \in Seq(Elems) /\ Len(m) = n
      BY <3>4
    <3> QED
      BY <3>2, <3>3, <3>4
  <2> HIDE DEF m
  <2>5. /\ memory' \in [Cells -> Seq(Elems)] /\ memory'[s.cell] = m
        /\ \A c \in Cells : Len(memory'[c]) = Len(memory[c])
    BY <1>1, <2>1, <2>2, <2>4
  <2>6. \A g \in SliceFields : opts'[latest].slices[g] =
          IF g = f THEN [s EXCEPT !.len = s.len + Len(items)] ELSE O.slices[g]
    BY <1>1, <1>10, <2>1 DEF Extended, OptionsRecord
  <2>7. /\ [s EXCEPT !.len = s.len + Len(items)].cell = s.cell
        /\ [s EXCEPT !.len = s.len + Len(items)].len = s.len + Len(items)
    BY <2>1 DEF Slice
  <2>8. s.len + Len(items) <= Len(memory[s.cell])
    BY <1>10 DEF Extended, HasRoom
  <2> SUFFICES ASSUME NEW b \in Loaders, NEW g \in SliceFields
               PROVE  /\ opts'[b].slices[g].len <= Len(memory'[opts'[b].slices[g].cell])
                      /\ opts'[b].slices[g].cell \in Arrays \cup {<<b, g>>}
    BY <2>5 DEF Cells
  <2>9. CASE b = latest /\ g = f
    <3>1. opts'[b].slices[g].cell = s.cell /\ opts'[b].slices[g].len = s.len + Len(items)
      BY <2>6, <2>7, <2>9
    <3>2. s.cell \in Arrays \cup {<<b, g>>}
      BY <1>2, <1>4, <2>9
    <3> QED
      BY <2>1, <2>5, <2>8, <3>1, <3>2
  <2>10. CASE ~(b = latest /\ g = f)
    <3>1. opts'[b].slices[g] = opts[b].slices[g]
      BY <1>2, <1>4, <2>6, <2>10
    <3>2. opts[b].slices[g].cell \in Cells
      BY <1>2, <1>3 DEF Cells
    <3> QED
      BY <1>2, <2>5, <3>1, <3>2
  <2> QED
    BY <2>9, <2>10
<1> QED
  BY <1>5, <1>6, <1>8, <1>9, <1>10 DEF ApplyForm

LEMMA StateNext == StateInv /\ [OptionsNext]_optionVars => StateInv'
<1> SUFFICES ASSUME StateInv, [OptionsNext]_optionVars PROVE StateInv'
  OBVIOUS
<1> USE DEF StateInv
<1>1. ASSUME NEW b \in Loaders, New(b) PROVE StateInv'
  <2>1. at' \in [Loaders -> Nat] /\ at'[b] = 1 /\ at'[latest'] >= 1
        /\ \A c \in Loaders : at'[c] <= Len(given[c]) + 1
    BY <1>1, GivenTypes DEF New, OptionsTypeOK, GivenInv
  <2> QED
    BY <1>1, <2>1 DEF New, OptionsTypeOK, GivenInv, Owned
<1>2. CASE ApplyOption
  <2>1. Busy /\ ApplyForm
    BY <1>2, ApplyForms
  <2>2. /\ latest \in Loaders /\ at[latest] \in 1..Len(given[latest])
        /\ \A c \in Loaders : Len(given[c]) \in Nat
    BY <2>1, OptTypes, GivenTypes
  <2>3. /\ at' \in [Loaders -> Nat] /\ at'[latest] = at[latest] + 1
        /\ \A c \in Loaders : c # latest => at'[c] = at[c]
    BY <2>1, <2>2 DEF ApplyForm, OptionsTypeOK
  <2>4. opts' \in [Loaders -> OptionsRecord]
    BY <2>1, <2>2 DEF ApplyForm, OptionsTypeOK
  <2>5. GivenInv'
    <3>1. PICK in \in Inputs : /\ given = in.given
                               /\ \A a \in Arrays : Len(memory[a]) = Len(in.memory[a])
      BY DEF GivenInv
    <3>2. given' = in.given /\ \A a \in Arrays : Len(memory'[a]) = Len(in.memory[a])
      BY <2>1, <3>1, ApplyMemory DEF ApplyForm
    <3>3. latest' = latest /\ at'[latest] >= 1
          /\ \A c \in Loaders : at'[c] <= Len(given[c]) + 1
      BY <2>1, <2>2, <2>3 DEF ApplyForm, GivenInv
    <3> QED
      BY <2>1, <3>2, <3>3 DEF GivenInv, ApplyForm
  <2>6. OptionsTypeOK' /\ Owned'
    BY <2>1, <2>3, <2>4, ApplyMemory DEF ApplyForm, OptionsTypeOK, Owned
  <2> QED
    BY <2>5, <2>6
<1>3. ASSUME NEW a \in Arrays, NEW e \in Elems, NEW i \in DOMAIN memory[a], CallerWrites(a, i, e)
      PROVE  StateInv'
  <2>1. a \in Cells /\ memory[a] \in Seq(Elems)
    BY DEF Cells, OptionsTypeOK
  <2>2. [memory[a] EXCEPT ![i] = e] \in Seq(Elems)
        /\ Len([memory[a] EXCEPT ![i] = e]) = Len(memory[a])
    BY <2>1, ExceptSeq
  <2>3. /\ memory' \in [Cells -> Seq(Elems)]
        /\ \A c \in Cells : Len(memory'[c]) = Len(memory[c])
    BY <1>3, <2>1, <2>2 DEF CallerWrites, OptionsTypeOK
  <2>4. \A b \in Loaders, f \in SliceFields : opts[b].slices[f].cell \in Cells
    BY DEF OptionsTypeOK, OptionsRecord, Slice
  <2>5. writes' \in 0..MaxWrites /\ latest' = Blank
    BY <1>3, BoundAssumption DEF CallerWrites, OptionsTypeOK
  <2>6. OptionsTypeOK'
    BY <1>3, <2>3, <2>4, <2>5 DEF CallerWrites, OptionsTypeOK
  <2>7. GivenInv' /\ Owned'
    <3>1. PICK in \in Inputs : /\ given = in.given
                               /\ \A d \in Arrays : Len(memory[d]) = Len(in.memory[d])
      BY DEF GivenInv
    <3>2. given' = in.given /\ \A d \in Arrays : Len(memory'[d]) = Len(in.memory[d])
      BY <1>3, <2>3, <3>1 DEF CallerWrites, Cells
    <3> QED
      BY <1>3, <2>5, <3>2 DEF CallerWrites, GivenInv, Owned
  <2> QED
    BY <2>6, <2>7
<1>4. CASE UNCHANGED optionVars
  BY <1>4 DEF optionVars, OptionsTypeOK, GivenInv, Owned
<1> QED
  BY <1>1, <1>2, <1>3, <1>4 DEF OptionsNext, CallerStep

LEMMA StateInvariant == OptionsSpec => []StateInv
  BY StateInit, StateNext, PTL DEF OptionsSpec

\* Loading reads options and leaves them alone.
LEMMA LoadIsOptions == LoadSpec => OptionsSpec
<1>1. LoadInit => OptionsInit
  BY DEF LoadInit
<1>2. [LoadNext]_loadVars => [OptionsNext]_optionVars
  BY DEF LoadNext, OptionsStep, LoadInternal, LoadFails, UnmarshalOutput, UnmarshalFails,
         ValidateOutput, loadVars
<1> QED
  BY <1>1, <1>2, PTL DEF LoadSpec, OptionsSpec

LEMMA ReaderTypes ==
  ASSUME NEW c \in Config \cup {Blank}, NEW p \in Paths
  PROVE  /\ Unmarshal(c, p) \in Result
         /\ Failing({"ErrValidate"}) \in Result /\ Failing({"ErrLoad"}) \in Result
         /\ Value("decoded") \in Result
BY DEF Unmarshal, Unmarshaled, Failing, Value, Result, Errors

\* Every variable of New and of Load keeps its type: a slice is never longer
\* than the array it is in, whatever the globs append to and the caller writes.
THEOREM LoadTypeCorrect == LoadSpec => []LoadTypeOK
<1>1. LoadInit => (OptionsTypeOK => LoadTypeOK)
  BY DEF LoadInit, LoadTypeOK
<1>2. LoadTypeOK /\ OptionsTypeOK' /\ [LoadNext]_loadVars => LoadTypeOK'
  <2> SUFFICES ASSUME LoadTypeOK, OptionsTypeOK', [LoadNext]_loadVars PROVE LoadTypeOK'
    OBVIOUS
  <2> USE DEF LoadTypeOK
  <2>1. CASE OptionsStep \/ UNCHANGED loadVars
    BY <2>1 DEF OptionsStep, loadVars
  <2>2. ASSUME NEW b \in LoadsFrom, NEW tree \in Trees, LoadInternal(b, tree)
        PROVE  LoadTypeOK'
    <3>1. opts[b].values["validateLevel"] \in Values \cup {Blank, "default"}
      BY LoadAssumption DEF OptionsTypeOK, OptionsRecord
    <3>2. NewConfig(b, tree) \in Config
      BY <3>1 DEF NewConfig, Config
    <3> QED
      BY <2>2, <3>2 DEF LoadInternal
  <2>3. ASSUME NEW b \in LoadsFrom,
               LoadFails(b) \/ UnmarshalOutput(b) \/ UnmarshalFails(b) \/ ValidateOutput(b)
        PROVE  LoadTypeOK'
    <3>1. /\ Unmarshal(cfg[b], Root) \in Result
          /\ Failing({"ErrValidate"}) \in Result /\ Failing({"ErrLoad"}) \in Result
          /\ Value("decoded") \in Result
      BY ReaderTypes, PathAssumption
    <3> QED
      BY <2>3, <3>1 DEF LoadFails, UnmarshalOutput, UnmarshalFails, ValidateOutput, Return
  <2> QED
    BY <2>1, <2>2, <2>3 DEF LoadNext
<1>3. StateInv => OptionsTypeOK
  BY DEF StateInv
<1> QED
  BY LoadIsOptions, StateInvariant, <1>1, <1>2, <1>3, PTL DEF LoadSpec
-----------------------------------------------------------------------------
(* Which options decide.                                                     *)

\* The options before the n-th that decide about field f, and the last of them.
DecidingTo(b, f, n) == {i \in Deciding(b, f) : i < n}
LastTo(b, f, n) == Max(DecidingTo(b, f, n) \cup {0})

LEMMA DecidingType ==
  ASSUME StateInv, NEW b \in Loaders, NEW f
  PROVE  /\ Deciding(b, f) \subseteq 1..Len(given[b]) /\ Deciding(b, f) \subseteq Nat
         /\ \A i \in Deciding(b, f) : given[b][i].field = f /\ i # 0
<1>1. given[b] \in Seq(Option)
  BY GivenTypes DEF StateInv
<1>2. DOMAIN given[b] = 1..Len(given[b])
  BY <1>1
<1> QED
  BY <1>2 DEF Deciding, OptionsOf

LEMMA LastToIs ==
  ASSUME StateInv, NEW b \in Loaders, NEW f, NEW n \in Nat
  PROVE  /\ LastTo(b, f, n) \in DecidingTo(b, f, n) \cup {0}
         /\ \A i \in DecidingTo(b, f, n) : i <= LastTo(b, f, n)
         /\ LastTo(b, f, n) \in Nat
         /\ n # 0 => LastTo(b, f, n) < n
<1> DEFINE S == DecidingTo(b, f, n) \cup {0}
<1>1. S \in SUBSET Nat /\ S # {} /\ \A i \in S : i <= n
  BY DecidingType DEF DecidingTo
<1>2. Max(S) \in S /\ \A i \in S : i <= Max(S)
  BY <1>1, MaxNat
<1> QED
  BY <1>1, <1>2 DEF LastTo, DecidingTo

\* It is the only number with these properties.
LEMMA LastToUnique ==
  ASSUME StateInv, NEW b \in Loaders, NEW f, NEW n \in Nat,
         NEW m \in DecidingTo(b, f, n) \cup {0}, \A i \in DecidingTo(b, f, n) : i <= m
  PROVE  LastTo(b, f, n) = m
<1>1. m \in Nat /\ \A i \in DecidingTo(b, f, n) : i \in Nat
  BY DecidingType DEF DecidingTo
<1>2. /\ LastTo(b, f, n) \in DecidingTo(b, f, n) \cup {0}
      /\ \A i \in DecidingTo(b, f, n) : i <= LastTo(b, f, n)
      /\ LastTo(b, f, n) \in Nat
  BY LastToIs
<1> QED
  BY <1>1, <1>2

\* One more option is the last one, if it decides.
LEMMA LastToNext ==
  ASSUME StateInv, NEW b \in Loaders, NEW f, NEW n \in Nat
  PROVE  /\ n \in Deciding(b, f) => LastTo(b, f, n + 1) = n
         /\ n \notin Deciding(b, f) => LastTo(b, f, n + 1) = LastTo(b, f, n)
<1>1. Deciding(b, f) \subseteq Nat
  BY DecidingType
<1>2. ASSUME n \in Deciding(b, f) PROVE LastTo(b, f, n + 1) = n
  <2>1. n \in DecidingTo(b, f, n + 1) \cup {0} /\ \A i \in DecidingTo(b, f, n + 1) : i <= n
        /\ n + 1 \in Nat
    BY <1>1, <1>2 DEF DecidingTo
  <2> QED
    BY <2>1, LastToUnique
<1>3. ASSUME n \notin Deciding(b, f) PROVE LastTo(b, f, n + 1) = LastTo(b, f, n)
  <2>1. DecidingTo(b, f, n + 1) = DecidingTo(b, f, n)
    BY <1>1, <1>3 DEF DecidingTo
  <2> QED
    BY <2>1 DEF LastTo
<1> QED
  BY <1>2, <1>3

\* When New is done, that is the last of all.
LEMMA LastToBuilt ==
  ASSUME StateInv, NEW b \in Loaders, Built(b), NEW f
  PROVE  LastTo(b, f, at[b]) = Decided(b, f)
<1>1. at[b] \in Nat /\ Len(given[b]) \in Nat
  BY GivenTypes DEF StateInv, OptionsTypeOK
<1>2. DecidingTo(b, f, at[b]) = Deciding(b, f)
  BY <1>1, DecidingType DEF DecidingTo, Built
<1> QED
  BY <1>2 DEF LastTo, Decided

\* Which options of a step decide, and about what.
LEMMA StepDecides ==
  ASSUME StateInv, Busy
  PROVE  \A f :
    at[latest] \in Deciding(latest, f) <=>
      /\ Opt.field = f
      /\ \/ Opt.op \in {"value", "slice", "args", "defaults", "defaultsTyped", "typedDefaults"}
         \/ Opt.op = "dotenv" /\ Opt.slice.len # 0
         \/ Opt.op \in {"givenValue", "parser"} /\ Opt.value # Blank
<1>1. at[latest] \in 1..Len(given[latest]) /\ Opt.slice.len \in Nat /\ latest \in Loaders
  BY OptTypes DEF Slice
<1>2. at[latest] \in DOMAIN given[latest]
  <2>1. given[latest] \in Seq(Option)
    BY <1>1, GivenTypes DEF StateInv
  <2> QED
    BY <1>1, <2>1
<1>3. Opt.slice.len > 0 <=> Opt.slice.len # 0
  BY <1>1
<1> QED
  BY <1>2, <1>3 DEF Deciding, OptionsOf, Opt

LEMMA FormDecides ==
  ASSUME StateInv, Busy, ApplyForm, NEW f \in SliceFields
  PROVE  at[latest] \in Deciding(latest, f) <=> (Taken \/ Copied) /\ f = Opt.field
<1>1. Opt.field \in FieldsOf(Opt.op) /\ Opt.op \in Ops
  BY OptTypes
<1>2. f \notin Fields \cup Extensions \cup {"typedDefaults", Blank}
  BY FieldAssumption DEF SliceFields
<1>3. Opt.op \in {"nil", "value", "givenValue", "typedDefaults", "parser"} => Opt.field # f
  BY <1>1, <1>2 DEF FieldsOf
<1>4. CASE NoSlice
  BY <1>3, <1>4, StepDecides DEF NoSlice, Taken, Copied
<1>5. CASE Taken \/ Copied
  BY <1>5, StepDecides DEF Taken, Copied
<1>6. CASE Regrown \/ Extended
  BY <1>6, StepDecides DEF Taken, Copied, Regrown, Extended
<1> QED
  BY <1>4, <1>5, <1>6 DEF ApplyForm

\* What the slices are after the step.
LEMMA FormSlices ==
  ASSUME StateInv, Busy, ApplyForm
  PROVE  /\ NoSlice => \A f \in SliceFields : opts'[latest].slices[f] = O.slices[f]
         /\ ~NoSlice => \A f \in SliceFields \ {Opt.field} :
                          opts'[latest].slices[f] = O.slices[f]
         /\ Taken => opts'[latest].slices[Opt.field] = Opt.slice
         /\ \A items : Owning(items) /\ Opt.field \in SliceFields =>
              opts'[latest].slices[Opt.field] = OwnSlice(Opt.field, items)
         /\ Extended => /\ opts'[latest].slices[Opt.field].cell = O.slices[Opt.field].cell
                        /\ opts'[latest].slices[Opt.field].len =
                             O.slices[Opt.field].len + Len(NonNil(Opt.items))
<1>1. O.slices \in [SliceFields -> Slice] /\ (~NoSlice => Opt.field \in SliceFields)
  BY OptTypes DEF OptionsRecord, ApplyForm
<1>2. NoSlice => \A f \in SliceFields : opts'[latest].slices[f] = O.slices[f]
  BY DEF NoSlice
<1>3. ~NoSlice => \A f \in SliceFields \ {Opt.field} : opts'[latest].slices[f] = O.slices[f]
  BY <1>1 DEF ApplyForm, Taken, Copied, Regrown, Extended, Owning
<1>4. Taken => opts'[latest].slices[Opt.field] = Opt.slice
  BY <1>1, OptTypes DEF Taken, NoSlice
<1>5. \A items : Owning(items) /\ Opt.field \in SliceFields =>
        opts'[latest].slices[Opt.field] = OwnSlice(Opt.field, items)
  BY <1>1 DEF Owning
<1>6. Extended => /\ opts'[latest].slices[Opt.field].cell = O.slices[Opt.field].cell
                  /\ opts'[latest].slices[Opt.field].len =
                       O.slices[Opt.field].len + Len(NonNil(Opt.items))
  <2> SUFFICES ASSUME Extended
               PROVE  /\ opts'[latest].slices[Opt.field].cell = O.slices[Opt.field].cell
                      /\ opts'[latest].slices[Opt.field].len =
                           O.slices[Opt.field].len + Len(NonNil(Opt.items))
    OBVIOUS
  <2>1. Opt.field \in SliceFields /\ O.slices[Opt.field] \in Slice
    BY <1>1 DEF Extended, NoSlice
  <2>2. opts'[latest].slices[Opt.field] =
          [O.slices[Opt.field] EXCEPT !.len = @ + Len(NonNil(Opt.items))]
    BY <1>1, <2>1 DEF Extended
  <2> QED
    BY <2>1, <2>2 DEF Slice
<1> QED
  BY <1>2, <1>3, <1>4, <1>5, <1>6
-----------------------------------------------------------------------------
(* What loaders keep of their caller's.                                      *)

\* A slice of a loader that is in memory of the caller's is the one the last
\* option that decides passed, or begins where that begins.
PassedBy(b, f, i) ==
  LET o == given[b][i] IN
  /\ i \in DecidingTo(b, f, at[b]) /\ i = LastTo(b, f, at[b])
  /\ o.op \in {"slice", "dotenv", "defaults"}
  /\ opts[b].slices[f].cell = o.slice.cell /\ o.slice.len <= opts[b].slices[f].len
KeptInv ==
  \A b \in Loaders, f \in SliceFields :
    opts[b].slices[f].cell = <<b, f>> \/ \E i \in Nat : PassedBy(b, f, i)

LEMMA PassedIsKept ==
  ASSUME StateInv, NEW b \in Loaders, NEW f, NEW i, PassedBy(b, f, i)
  PROVE  opts[b].slices[f].cell \in Kept(b, f)
BY DEF PassedBy, DecidingTo, Deciding, Kept

LEMMA KeptNext == StateInv /\ KeptInv /\ [OptionsNext]_optionVars => KeptInv'
<1> SUFFICES ASSUME StateInv, KeptInv, [OptionsNext]_optionVars,
                    NEW b \in Loaders, NEW f \in SliceFields
             PROVE  (opts[b].slices[f].cell = <<b, f>> \/ \E i \in Nat : PassedBy(b, f, i))'
  BY DEF KeptInv
<1>1. opts[b].slices[f].cell = <<b, f>> \/ \E i \in Nat : PassedBy(b, f, i)
  BY DEF KeptInv
<1>2. at[b] \in Nat
  BY DEF StateInv, OptionsTypeOK
<1>3. CASE UNCHANGED <<given, opts>> /\ at'[b] = at[b]
  BY <1>1, <1>3 DEF PassedBy, DecidingTo, LastTo, Deciding, OptionsOf
<1>4. ASSUME New(b) PROVE at[b] = 0
  BY <1>4 DEF New
<1>5. ASSUME NEW c \in Loaders, New(c)
      PROVE  (opts[b].slices[f].cell = <<b, f>> \/ \E i \in Nat : PassedBy(b, f, i))'
  <2>1. UNCHANGED <<given, opts>>
    BY <1>5 DEF New
  <2>2. CASE c # b
    BY <1>3, <1>5, <2>1, <2>2 DEF New, StateInv, OptionsTypeOK
  <2>3. CASE c = b
    <3>1. ~ \E i \in Nat : PassedBy(b, f, i)
      BY <1>5, <2>3, DecidingType DEF New, PassedBy, DecidingTo
    <3> QED
      BY <1>1, <2>1, <3>1
  <2> QED
    BY <2>2, <2>3
<1>6. CASE ApplyOption
  <2>1. Busy /\ ApplyForm /\ latest \in Loaders
    BY <1>6, ApplyForms, OptTypes
  <2>2. CASE b # latest
    <3>1. opts \in [Loaders -> OptionsRecord] /\ at \in [Loaders -> Nat]
      BY DEF StateInv, OptionsTypeOK
    <3>2. opts'[b] = opts[b] /\ at'[b] = at[b] /\ given' = given
      BY <2>1, <2>2, <3>1 DEF ApplyForm
    <3> QED
      BY <1>1, <3>2 DEF PassedBy, DecidingTo, LastTo, Deciding, OptionsOf
  <2>3. CASE b = latest
    <3>1. at'[b] = at[b] + 1 /\ given' = given /\ O = opts[b]
      BY <2>1, <2>3 DEF ApplyForm, StateInv, OptionsTypeOK, O
    <3>2. \A i, n : /\ i \in DecidingTo(b, f, n)' <=> i \in DecidingTo(b, f, n)
                    /\ LastTo(b, f, n)' = LastTo(b, f, n)
      BY <3>1 DEF DecidingTo, LastTo, Deciding, OptionsOf
    <3>3. \A i : i \in DecidingTo(b, f, at[b]) => i \in DecidingTo(b, f, at[b] + 1)
      BY <1>2, DecidingType DEF DecidingTo
    <3>4. CASE Taken /\ f = Opt.field
      <4>1. at[b] \in Deciding(b, f)
        BY <2>1, <2>3, <3>4, FormDecides
      <4>2. LastTo(b, f, at[b] + 1) = at[b] /\ at[b] \in DecidingTo(b, f, at[b] + 1)
        BY <1>2, <4>1, LastToNext DEF DecidingTo
      <4>3. opts'[b].slices[f] = Opt.slice /\ Opt = given[b][at[b]]
            /\ Opt.op \in {"slice", "dotenv", "defaults"} /\ Opt.slice.len \in Nat
        BY <2>1, <2>3, <3>4, FormSlices, OptTypes DEF Opt, Taken, Slice
      <4>4. PICK n \in Nat : n = at[b]
        BY <1>2
      <4>5. PassedBy(b, f, n)'
        BY <3>1, <3>2, <4>2, <4>3, <4>4 DEF PassedBy
      <4> QED
        BY <4>5
    <3>5. CASE (Copied \/ Regrown) /\ f = Opt.field
      <4>1. PICK items : Owning(items)
        BY <3>5 DEF Copied, Regrown
      <4>2. opts'[b].slices[f] = OwnSlice(f, items)
        BY <2>1, <2>3, <3>5, <4>1, FormSlices
      <4>3. opts'[b].slices[f].cell = <<b, f>>
        BY <2>3, <4>2 DEF OwnSlice
      <4> QED
        BY <4>3
    <3>6. CASE ~((Taken \/ Copied \/ Regrown) /\ f = Opt.field)
      <4>1. LastTo(b, f, at[b] + 1) = LastTo(b, f, at[b])
        BY <1>2, <2>1, <2>3, <3>6, FormDecides, LastToNext
      <4>2. /\ opts'[b].slices[f].cell = opts[b].slices[f].cell
            /\ opts'[b].slices[f].len >= opts[b].slices[f].len
        <5>1. opts[b].slices[f].len \in Nat
          BY DEF StateInv, OptionsTypeOK, OptionsRecord, Slice
        <5>2. Len(NonNil(Opt.items)) \in Nat
          BY <2>1, OptTypes
        <5>3. CASE NoSlice \/ f # Opt.field
          <6>1. opts'[b].slices[f] = opts[b].slices[f]
            BY <2>1, <2>3, <3>1, <5>3, FormSlices
          <6> QED
            BY <5>1, <6>1
        <5>4. CASE Extended /\ f = Opt.field
          BY <2>1, <2>3, <3>1, <5>1, <5>2, <5>4, FormSlices
        <5> QED
          BY <2>1, <3>6, <5>3, <5>4 DEF ApplyForm
      <4>3. ASSUME NEW i \in Nat, PassedBy(b, f, i) PROVE PassedBy(b, f, i)'
        <5>1. given[b][i].slice.len \in Nat
          BY <4>3, GivenTypes, DecidingType DEF StateInv, PassedBy, DecidingTo
        <5>2. opts[b].slices[f].len \in Nat /\ opts'[b].slices[f].len \in Nat
          BY <1>6, StateNext DEF StateInv, OptionsTypeOK, OptionsRecord, Slice
        <5>3. given[b][i].slice.len <= opts'[b].slices[f].len
          BY <4>2, <4>3, <5>1, <5>2 DEF PassedBy
        <5> QED
          BY <3>1, <3>2, <3>3, <4>1, <4>2, <4>3, <5>3 DEF PassedBy
      <4> QED
        BY <1>1, <4>2, <4>3
    <3> QED
      BY <3>4, <3>5, <3>6
  <2> QED
    BY <2>2, <2>3
<1>7. CASE CallerStep \/ UNCHANGED optionVars
  BY <1>3, <1>7 DEF CallerStep, CallerWrites, optionVars
<1> QED
  BY <1>5, <1>6, <1>7 DEF OptionsNext

LEMMA KeptInvariant == OptionsSpec => [](StateInv /\ KeptInv)
<1>1. OptionsInit => KeptInv
  BY DEF OptionsInit, KeptInv, NewOptions
<1> QED
  BY StateInvariant, KeptNext, <1>1, PTL DEF OptionsSpec

\* An append into an array of the caller's is one to files it passed.
LEMMA ExtendsKept ==
  ASSUME StateInv, KeptInv, Busy, ApplyForm, Extended,
         O.slices[Opt.field].cell \in Arrays
  PROVE  /\ Opt.field = "files" /\ Opt.field \in SliceFields
         /\ \E i \in Nat : PassedBy(latest, "files", i)
<1>1. Opt.field \in {"files", "customSources"} /\ latest \in Loaders
      /\ O.slices[Opt.field] = opts[latest].slices[Opt.field]
  BY GrownType, OptTypes DEF Extended, O
<1>2. Opt.field \in SliceFields
  BY <1>1 DEF SliceFields
<1>3. <<latest, Opt.field>> \notin Arrays
  BY <1>1, <1>2, ArrayAssumption DEF Own
<1>4. PICK i \in Nat : PassedBy(latest, Opt.field, i)
  BY <1>1, <1>2, <1>3 DEF KeptInv
<1>5. /\ given[latest][i].op \in {"slice", "dotenv", "defaults"}
      /\ given[latest][i].field = Opt.field /\ given[latest][i] \in Option
  BY <1>1, <1>4, DecidingType, GivenTypes DEF PassedBy, DecidingTo, StateInv
<1>6. Opt.field # "customSources"
  BY <1>5 DEF Option, FieldsOf
<1> QED
  BY <1>1, <1>2, <1>4, <1>6

\* What a loader is to load once New has returned it changes only in what its
\* caller passed for files, dotenv files, priority or defaults, and then by a
\* write of the caller's or the globs of another loader with the same files;
\* for all options in any order, any number of loaders and any arrays.
THEOREM OptionsAreKept == LoadSpec => LoadersKeepTheirOptions
<1> DEFINE Keeps(b) ==
      Built(b) =>
       /\ opts'[b] = opts[b]
       /\ \A f \in SliceFields : LET s == opts[b].slices[f] IN
            SubSeq(memory'[s.cell], 1, s.len) # Content(s) =>
              /\ s.cell \in Kept(b, f)
              /\ \/ writes' # writes
                 \/ Busy /\ latest # b /\ s.cell \in Kept(latest, "files")
<1>1. ASSUME StateInv, KeptInv, [OptionsNext]_optionVars, NEW b \in Loaders PROVE Keeps(b)
  <2>1. ASSUME NEW f \in SliceFields,
               memory'[opts[b].slices[f].cell] = memory[opts[b].slices[f].cell]
        PROVE  SubSeq(memory'[opts[b].slices[f].cell], 1, opts[b].slices[f].len)
                 = Content(opts[b].slices[f])
    BY <2>1 DEF Content
  <2>2. ASSUME NEW f \in SliceFields, opts[b].slices[f].cell \in Arrays
        PROVE  opts[b].slices[f].cell \in Kept(b, f)
    <3>1. <<b, f>> \notin Arrays
      BY <1>1, ArrayAssumption DEF Own
    <3>2. opts[b].slices[f].cell # <<b, f>>
      BY <2>2, <3>1
    <3> QED
      BY <1>1, <3>2, PassedIsKept DEF KeptInv
  <2>3. \A f \in SliceFields : opts[b].slices[f].cell \in Arrays \cup {<<b, f>>}
    BY <1>1 DEF StateInv, Owned
  <2>4. CASE ApplyOption
    <3>1. Busy /\ ApplyForm /\ latest \in Loaders
      BY <1>1, <2>4, ApplyForms, OptTypes
    <3>2. Built(b) => latest # b /\ opts'[b] = opts[b]
      BY <1>1, <3>1 DEF Busy, ApplyForm, StateInv, OptionsTypeOK
    <3>3. ASSUME NEW f \in SliceFields, latest # b,
                 memory'[opts[b].slices[f].cell] # memory[opts[b].slices[f].cell]
          PROVE  /\ opts[b].slices[f].cell \in Arrays
                 /\ opts[b].slices[f].cell \in Kept(latest, "files")
      <4> DEFINE c == opts[b].slices[f].cell
      <4>1. /\ c \in Cells /\ memory \in [Cells -> Seq(Elems)]
            /\ \A g \in SliceFields : c # <<latest, g>>
        <5>1. \A g \in SliceFields : <<latest, g>> \notin Arrays /\ <<b, f>> # <<latest, g>>
          BY <3>1, <3>3, ArrayAssumption DEF Own
        <5>2. c \in Arrays \cup {<<b, f>>} /\ <<b, f>> \in Cells
          BY <2>3 DEF Cells, Own
        <5> HIDE DEF c
        <5> QED
          BY <1>1, <5>1, <5>2 DEF Cells, StateInv, OptionsTypeOK
      <4> HIDE DEF c
      <4>2. memory'[c] # memory[c]
        BY <3>3 DEF c
      <4>3. ~ \E items : Owning(items) /\ Opt.field \in SliceFields
        BY <4>1, <4>2 DEF Owning, OwnMemory
      <4>4. Extended
        <5>1. ~NoSlice /\ ~Taken
          BY <4>2 DEF NoSlice, Taken
        <5> QED
          BY <3>1, <4>3, <5>1 DEF ApplyForm, Copied, Regrown
      <4>5. c = O.slices[Opt.field].cell
        BY <4>1, <4>2, <4>4 DEF Extended
      <4>6. c \in Arrays
        <5>1. O.slices[Opt.field].cell \in Arrays \cup {<<latest, Opt.field>>}
              /\ Opt.field \in SliceFields
          <6>1. Opt.field \in SliceFields
            BY <3>1, <4>4 DEF ApplyForm, Extended, NoSlice
          <6> QED
            BY <1>1, <3>1, <6>1 DEF StateInv, Owned, O
        <5> QED
          BY <4>1, <4>5, <5>1
      <4>7. Opt.field = "files" /\ \E i \in Nat : PassedBy(latest, "files", i)
        BY <1>1, <3>1, <4>4, <4>5, <4>6, ExtendsKept
      <4>8. O.slices["files"].cell \in Kept(latest, "files")
        BY <1>1, <3>1, <4>7, PassedIsKept DEF O
      <4> QED
        BY <4>5, <4>6, <4>7, <4>8 DEF c
    <3> QED
      BY <2>1, <2>2, <3>1, <3>2, <3>3
  <2>5. ASSUME NEW a \in Arrays, NEW e \in Elems, NEW i \in DOMAIN memory[a],
               CallerWrites(a, i, e)
        PROVE  Keeps(b)
    <3>1. opts' = opts /\ writes' # writes /\ memory' = [memory EXCEPT ![a][i] = e]
      BY <1>1, <2>5 DEF CallerWrites, StateInv, OptionsTypeOK
    <3>2. ASSUME NEW f \in SliceFields,
                 memory'[opts[b].slices[f].cell] # memory[opts[b].slices[f].cell]
          PROVE  opts[b].slices[f].cell \in Arrays
      BY <3>1, <3>2
    <3> QED
      BY <2>1, <2>2, <3>1, <3>2
  <2>6. CASE UNCHANGED <<opts, memory>>
    BY <2>1, <2>6
  <2> QED
    BY <1>1, <2>4, <2>5, <2>6 DEF OptionsNext, New, CallerStep, optionVars
<1>2. StateInv /\ KeptInv /\ [OptionsNext]_optionVars => \A b \in Loaders : Keeps(b)
  BY <1>1
<1> QED
  BY LoadIsOptions, KeptInvariant, <1>2, PTL DEF OptionsSpec, LoadersKeepTheirOptions
-----------------------------------------------------------------------------
(* The last option decides.                                                  *)

\* What the options before the n-th set field f to.
ValueTo(b, f, n, default) ==
  IF LastTo(b, f, n) = 0 THEN default ELSE given[b][LastTo(b, f, n)].value

\* The fields of an Options that are no slices, n options after the beginning.
ValuesTo(b, o, n) ==
  /\ \A f \in Fields : o.values[f] = ValueTo(b, f, n, "default")
  /\ o.hasDefaults <=> LastTo(b, "defaults", n) # 0
  /\ o.typedDefaults = ValueTo(b, "typedDefaults", n, Blank)
  /\ o.typedDefaultsErr <=> /\ LastTo(b, "typedDefaults", n) # 0
                           /\ ValueTo(b, "typedDefaults", n, Blank) = Blank
  /\ \A e \in Extensions : o.fileParsers[e] = ValueTo(b, e, n, Blank)
ValuesInv == \A b \in Loaders : ValuesTo(b, opts[b], at[b])

\* What the option New is at does to them.
Decides(f) == at[latest] \in Deciding(latest, f)
ValuesForm ==
  /\ \A f \in Fields :
       opts'[latest].values[f] = IF Decides(f) THEN Opt.value ELSE O.values[f]
  /\ opts'[latest].hasDefaults <=> O.hasDefaults \/ Decides("defaults")
  /\ opts'[latest].typedDefaults =
       IF Decides("typedDefaults") THEN Opt.value ELSE O.typedDefaults
  /\ opts'[latest].typedDefaultsErr <=>
       IF Decides("typedDefaults") THEN Opt.value = Blank ELSE O.typedDefaultsErr
  /\ \A e \in Extensions :
       opts'[latest].fileParsers[e] = IF Decides(e) THEN Opt.value ELSE O.fileParsers[e]

LEMMA ApplyValues ==
  ASSUME StateInv, ApplyOption
  PROVE  ValuesForm
<1>1. Busy /\ ApplyForm
  BY ApplyForms
<1>2. /\ latest \in Loaders /\ O \in OptionsRecord
      /\ Opt.field \in FieldsOf(Opt.op) /\ Opt.slice.len \in Nat
      /\ opts \in [Loaders -> OptionsRecord]
  BY <1>1, OptTypes DEF Slice, StateInv, OptionsTypeOK
<1>3. \A f : Decides(f) <=>
        /\ Opt.field = f
        /\ \/ Opt.op \in {"value", "slice", "args", "defaults", "defaultsTyped", "typedDefaults"}
           \/ Opt.op = "dotenv" /\ Opt.slice.len # 0
           \/ Opt.op \in {"givenValue", "parser"} /\ Opt.value # Blank
  BY <1>1, StepDecides DEF Decides
<1>4. ASSUME NEW o, NEW m, Leaves(o, m) PROVE opts'[latest] = o
  BY <1>2, <1>4 DEF Leaves
<1>5. /\ \A f \in Fields : f \notin SliceFields \cup Extensions \cup {"typedDefaults", Blank}
      /\ \A e \in Extensions : e \notin Fields \cup SliceFields \cup {"typedDefaults", Blank}
      /\ Blank \notin SliceFields \cup {"typedDefaults"}
  BY FieldAssumption
<1>6. CASE SkipNil
  <2>1. Opt.op = "nil" /\ opts'[latest] = O
    BY <1>4, <1>6 DEF SkipNil, Applying
  <2> QED
    BY <1>3, <2>1 DEF ValuesForm
<1>7. CASE WithValue \/ WithGivenValue
  <2>1. PICK v : /\ opts'[latest] = [O EXCEPT !.values[Opt.field] = v]
                 /\ Opt.op = "value" => v = Opt.value
                 /\ Opt.op = "givenValue" =>
                      v = IF Opt.value = Blank THEN O.values[Opt.field] ELSE Opt.value
                 /\ Opt.op \in {"value", "givenValue"}
    BY <1>4, <1>7 DEF WithValue, WithGivenValue, Applying, Given
  <2>2. Opt.field \in Fields
    BY <1>2, <2>1 DEF FieldsOf
  <2>3. /\ \A f \in Fields : opts'[latest].values[f] = IF f = Opt.field THEN v ELSE O.values[f]
        /\ opts'[latest].hasDefaults = O.hasDefaults
        /\ opts'[latest].typedDefaults = O.typedDefaults
        /\ opts'[latest].typedDefaultsErr = O.typedDefaultsErr
        /\ opts'[latest].fileParsers = O.fileParsers
    BY <1>2, <2>1, <2>2 DEF OptionsRecord
  <2>4. \A f \in Fields :
          opts'[latest].values[f] = IF Decides(f) THEN Opt.value ELSE O.values[f]
    BY <1>3, <2>1, <2>2, <2>3
  <2>5. ~Decides("defaults") /\ ~Decides("typedDefaults") /\ \A e \in Extensions : ~Decides(e)
    BY <1>3, <1>5, <2>2 DEF SliceFields
  <2> QED
    BY <2>3, <2>4, <2>5 DEF ValuesForm
<1>8. CASE WithSlice \/ WithDotenv \/ WithArgs \/ WithFileGlobs \/ WithSources
  <2>1. /\ opts'[latest].values = O.values /\ opts'[latest].hasDefaults = O.hasDefaults
        /\ opts'[latest].typedDefaults = O.typedDefaults
        /\ opts'[latest].typedDefaultsErr = O.typedDefaultsErr
        /\ opts'[latest].fileParsers = O.fileParsers
    <3>1. \/ opts'[latest] = O
          \/ \E f, s : opts'[latest] = [O EXCEPT !.slices[f] = s]
          \/ \E f, n : opts'[latest] = [O EXCEPT !.slices[f].len = n]
      BY <1>4, <1>8 DEF WithSlice, WithDotenv, WithArgs, WithFileGlobs, WithSources, AppendTo
    <3> QED
      BY <1>2, <3>1 DEF OptionsRecord
  <2>2. Opt.field \in SliceFields \ {"defaults"}
    BY <1>2, <1>8 DEF WithSlice, WithDotenv, WithArgs, WithFileGlobs, WithSources, Applying,
                      FieldsOf, SliceFields
  <2>3. /\ ~Decides("defaults") /\ ~Decides("typedDefaults")
        /\ \A e \in Fields \cup Extensions : ~Decides(e)
    BY <1>3, <1>5, <2>2 DEF SliceFields
  <2> QED
    BY <2>1, <2>3 DEF ValuesForm
<1>9. CASE WithDefaults \/ WithDefaultsTyped
  <2>1. /\ Opt.op \in {"defaults", "defaultsTyped"} /\ Opt.field = "defaults"
        /\ \E s : opts'[latest] = DefaultsSet(s)
    BY <1>2, <1>4, <1>9 DEF WithDefaults, WithDefaultsTyped, Applying, FieldsOf
  <2>2. /\ opts'[latest].values = O.values /\ opts'[latest].hasDefaults = TRUE
        /\ opts'[latest].typedDefaults = O.typedDefaults
        /\ opts'[latest].typedDefaultsErr = O.typedDefaultsErr
        /\ opts'[latest].fileParsers = O.fileParsers
    BY <1>2, <2>1 DEF OptionsRecord, DefaultsSet
  <2>3. /\ Decides("defaults") /\ ~Decides("typedDefaults")
        /\ \A e \in Fields \cup Extensions : ~Decides(e)
    BY <1>3, <1>5, <2>1 DEF SliceFields
  <2> QED
    BY <2>2, <2>3 DEF ValuesForm
<1>10. CASE WithTypedDefaults
  <2>1. /\ Opt.op = "typedDefaults" /\ Opt.field = "typedDefaults"
        /\ opts'[latest] = [O EXCEPT !.typedDefaults = Opt.value,
                                     !.typedDefaultsErr = (Opt.value = Blank)]
    BY <1>2, <1>4, <1>10 DEF WithTypedDefaults, Applying, FieldsOf, TypedDefaultsErr
  <2>2. /\ opts'[latest].values = O.values /\ opts'[latest].hasDefaults = O.hasDefaults
        /\ opts'[latest].typedDefaults = Opt.value
        /\ opts'[latest].typedDefaultsErr = (Opt.value = Blank)
        /\ opts'[latest].fileParsers = O.fileParsers
    BY <1>2, <2>1 DEF OptionsRecord
  <2>3. /\ ~Decides("defaults") /\ Decides("typedDefaults")
        /\ \A e \in Fields \cup Extensions : ~Decides(e)
    BY <1>3, <1>5, <2>1
  <2> QED
    BY <2>2, <2>3 DEF ValuesForm
<1>11. CASE WithFileParser
  <2>1. /\ Opt.op = "parser" /\ Opt.field \in Extensions \cup {Blank}
        /\ IF Opt.value = Blank \/ Opt.field = Blank THEN opts'[latest] = O
           ELSE opts'[latest] = [O EXCEPT !.fileParsers[Opt.field] = Opt.value]
    BY <1>2, <1>4, <1>11 DEF WithFileParser, Applying, FieldsOf
  <2>2. /\ opts'[latest].values = O.values /\ opts'[latest].hasDefaults = O.hasDefaults
        /\ opts'[latest].typedDefaults = O.typedDefaults
        /\ opts'[latest].typedDefaultsErr = O.typedDefaultsErr
        /\ \A e \in Extensions : opts'[latest].fileParsers[e] =
             IF Opt.value # Blank /\ Opt.field = e THEN Opt.value ELSE O.fileParsers[e]
    BY <1>2, <1>5, <2>1 DEF OptionsRecord
  <2>3. /\ ~Decides("defaults") /\ ~Decides("typedDefaults")
        /\ \A f \in Fields : ~Decides(f)
        /\ \A e \in Extensions : Decides(e) <=> Opt.value # Blank /\ Opt.field = e
    BY <1>3, <1>5, <2>1 DEF SliceFields
  <2> QED
    BY <2>2, <2>3 DEF ValuesForm
<1> QED
  BY <1>6, <1>7, <1>8, <1>9, <1>10, <1>11 DEF ApplyOption

LEMMA ValuesNext == StateInv /\ ValuesInv /\ [OptionsNext]_optionVars => ValuesInv'
<1> SUFFICES ASSUME StateInv, ValuesInv, [OptionsNext]_optionVars, NEW b \in Loaders
             PROVE  ValuesTo(b, opts[b], at[b])'
  BY DEF ValuesInv
<1>1. ValuesTo(b, opts[b], at[b]) /\ at[b] \in Nat /\ at \in [Loaders -> Nat]
      /\ opts \in [Loaders -> OptionsRecord]
  BY DEF ValuesInv, StateInv, OptionsTypeOK
<1>2. \A f, n, default : given' = given =>
        /\ LastTo(b, f, n)' = LastTo(b, f, n)
        /\ ValueTo(b, f, n, default)' = ValueTo(b, f, n, default)
  BY DEF LastTo, ValueTo, DecidingTo, Deciding, OptionsOf
<1>3. ASSUME given' = given, opts'[b] = opts[b], NEW n \in Nat, at'[b] = n,
             \A f : LastTo(b, f, n) = LastTo(b, f, at[b])
      PROVE  ValuesTo(b, opts[b], at[b])'
  <2>1. \A f, default : ValueTo(b, f, n, default) = ValueTo(b, f, at[b], default)
    BY <1>3 DEF ValueTo
  <2>2. ValuesTo(b, opts[b], n)
    BY <1>1, <1>3, <2>1 DEF ValuesTo
  <2> QED
    BY <1>2, <1>3, <2>2 DEF ValuesTo
<1>4. ASSUME NEW c \in Loaders, New(c) PROVE ValuesTo(b, opts[b], at[b])'
  <2>1. CASE c = b
    <3>1. at[b] = 0 /\ at'[b] = 0 + 1 /\ given' = given /\ opts' = opts
      BY <1>1, <1>4, <2>1 DEF New
    <3>2. \A f : 0 \notin Deciding(b, f)
      BY DecidingType
    <3>3. \A f : LastTo(b, f, 0 + 1) = LastTo(b, f, 0)
      BY <3>2, LastToNext
    <3> QED
      BY <1>3, <3>1, <3>3
  <2>2. CASE c # b
    BY <1>1, <1>3, <1>4, <2>2 DEF New
  <2> QED
    BY <2>1, <2>2
<1>5. CASE ApplyOption
  <2>1. Busy /\ ApplyForm /\ ValuesForm /\ latest \in Loaders /\ given' = given
    BY <1>5, ApplyForms, ApplyValues, OptTypes DEF ApplyForm
  <2>2. CASE b # latest
    <3>1. opts'[b] = opts[b] /\ at'[b] = at[b]
      BY <1>1, <2>1, <2>2 DEF ApplyForm
    <3> QED
      BY <1>1, <1>3, <2>1, <3>1
  <2>3. CASE b = latest
    <3> DEFINE n == at[b]
    <3>1. at'[b] = n + 1 /\ O = opts[b] /\ Opt = given[b][n] /\ n # 0
      BY <1>1, <2>1, <2>3, OptTypes DEF ApplyForm, O, Opt
    <3>2. \A f : LastTo(b, f, n + 1) = IF Decides(f) THEN n ELSE LastTo(b, f, n)
      BY <1>1, <2>3, LastToNext DEF Decides
    <3>3. \A f, default : ValueTo(b, f, n + 1, default) =
            IF Decides(f) THEN Opt.value ELSE ValueTo(b, f, n, default)
      BY <3>1, <3>2 DEF ValueTo
    <3> HIDE DEF n
    <3>4. ValuesTo(b, opts'[b], n + 1)
      <4>1. ValuesTo(b, O, n)
        BY <1>1, <3>1 DEF n
      <4> QED
        BY <2>1, <2>3, <3>1, <3>2, <3>3, <4>1 DEF ValuesTo, ValuesForm
    <3>5. PICK m : m = n + 1
      OBVIOUS
    <3> QED
      BY <1>2, <2>1, <3>1, <3>4, <3>5 DEF ValuesTo
  <2> QED
    BY <2>2, <2>3
<1>6. CASE UNCHANGED <<given, at, opts>>
  BY <1>1, <1>3, <1>6
<1> QED
  BY <1>4, <1>5, <1>6 DEF OptionsNext, CallerStep, CallerWrites, optionVars

LEMMA ValuesInvariant == OptionsSpec => [](StateInv /\ ValuesInv)
<1>1. OptionsInit /\ StateInv => ValuesInv
  <2> SUFFICES ASSUME OptionsInit, StateInv, NEW b \in Loaders
               PROVE  ValuesTo(b, opts[b], at[b])
    BY DEF ValuesInv
  <2>1. at[b] = 0 /\ opts[b] = NewOptions(b)
    BY DEF OptionsInit
  <2>2. \A f : LastTo(b, f, 0) = 0
    <3> SUFFICES ASSUME NEW f PROVE LastTo(b, f, 0) = 0
      OBVIOUS
    <3>1. DecidingTo(b, f, 0) = {}
      BY DecidingType DEF DecidingTo
    <3> QED
      BY <3>1, LastToIs
  <2> QED
    BY <2>1, <2>2 DEF ValuesTo, ValueTo, NewOptions
<1> QED
  BY StateInvariant, ValuesNext, <1>1, PTL DEF OptionsSpec
-----------------------------------------------------------------------------
(* What Load returns.                                                        *)

\* A built loader's options stay.
LEMMA BuiltStays ==
  ASSUME StateInv, [OptionsNext]_optionVars, NEW b \in Loaders, Built(b)
  PROVE  opts'[b] = opts[b] /\ given' = given /\ at'[b] = at[b]
<1>1. at[b] # 0 /\ at \in [Loaders -> Nat] /\ opts \in [Loaders -> OptionsRecord]
  BY GivenTypes DEF StateInv, OptionsTypeOK, Built
<1>2. ASSUME NEW c \in Loaders, New(c) PROVE opts'[b] = opts[b] /\ given' = given /\ at'[b] = at[b]
  BY <1>1, <1>2 DEF New
<1>3. CASE ApplyOption
  <2>1. Busy /\ ApplyForm /\ latest # b
    BY <1>3, ApplyForms DEF Busy
  <2> QED
    BY <1>1, <2>1 DEF ApplyForm
<1>4. CASE UNCHANGED <<opts, given, at>>
  BY <1>4
<1> QED
  BY <1>2, <1>3, <1>4 DEF OptionsNext, CallerStep, CallerWrites, optionVars

\* The Config a load made has the loader's level, and is none if the typed
\* defaults were no object.
FromOptions(b) ==
  /\ cfg[b] \in Config /\ cfg[b] # Blank
  /\ cfg[b].level = opts[b].values["validateLevel"] /\ ~opts[b].typedDefaultsErr
ResultOf(b) ==
  /\ phase[b] # "idle" => Built(b) /\ FromOptions(b)
  /\ phase[b] = "validate" => ~Failed(Unmarshal(cfg[b], Root))
  /\ result[b] # Blank /\ phase[b] = "idle" =>
       /\ Built(b)
       /\ \/ cfg[b] = Blank /\ result[b] = Failing({"ErrLoad"})
          \/ FromOptions(b) /\ result[b] = UnmarshalWithValidate(cfg[b], Root)
ResultInv == \A b \in LoadsFrom : ResultOf(b)

\* What the readers make of a Config.
LEMMA Readers ==
  ASSUME NEW c \in Config \cup {Blank}, NEW p \in Paths
  PROVE  /\ Unmarshal(c, p) \in {Failing({"nilConfig"}), Failing({"ErrUnmarshal"}),
                                 Value("zero"), Value("decoded")}
         /\ c # Blank => Unmarshal(c, p) = CASE c.tree[p].is = "undecodable" -> Failing({"ErrUnmarshal"})
                                             [] c.tree[p].is = "absent" -> Value("zero")
                                             [] OTHER -> Value("decoded")
         /\ c = Blank => Unmarshal(c, p) = Failing({"nilConfig"})
         /\ \A e : Failed(Failing({e}))
         /\ \A v : ~Failed(Value(v))
BY DEF Unmarshal, Unmarshaled, Failing, Value, Failed

LEMMA ResultNext ==
  StateInv /\ LoadTypeOK /\ ResultInv /\ [LoadNext]_loadVars => ResultInv'
<1> SUFFICES ASSUME StateInv, LoadTypeOK, ResultInv, [LoadNext]_loadVars, NEW b \in LoadsFrom
             PROVE  ResultOf(b)'
  BY DEF ResultInv
<1>1. /\ b \in Loaders /\ cfg \in [LoadsFrom -> Config \cup {Blank}]
      /\ result \in [LoadsFrom -> Result \cup {Blank}]
      /\ phase \in [LoadsFrom -> {"idle", "decode", "validate"}]
  BY LoadAssumption DEF LoadTypeOK
<1>2. ResultOf(b)
  BY DEF ResultInv
<1>3. CASE OptionsStep \/ UNCHANGED loadVars
  <2>1. [OptionsNext]_optionVars /\ UNCHANGED <<phase, cfg, result>>
    BY <1>3 DEF OptionsStep, loadVars
  <2>2. Built(b) => Built(b)' /\ (FromOptions(b) => FromOptions(b)')
    BY <1>1, <2>1, BuiltStays DEF Built, FromOptions
  <2> QED
    BY <1>2, <2>1, <2>2 DEF ResultOf
<1>4. ASSUME NEW c \in LoadsFrom, c # b,
             \/ \E tree \in Trees : LoadInternal(c, tree)
             \/ LoadFails(c) \/ UnmarshalOutput(c) \/ UnmarshalFails(c) \/ ValidateOutput(c)
      PROVE  ResultOf(b)'
  <2>1. UNCHANGED <<given, at, opts>> /\ UNCHANGED <<phase[b], cfg[b], result[b]>>
    BY <1>1, <1>4 DEF LoadInternal, LoadFails, UnmarshalOutput, UnmarshalFails, ValidateOutput,
                      Return, optionVars
  <2> QED
    BY <1>2, <2>1 DEF ResultOf, FromOptions, Built
<1>5. ASSUME NEW tree \in Trees, LoadInternal(b, tree) PROVE ResultOf(b)'
  <2>1. NewConfig(b, tree) \in Config
    BY <1>1, LoadAssumption DEF NewConfig, Config, StateInv, OptionsTypeOK, OptionsRecord
  <2>2. /\ cfg'[b] = NewConfig(b, tree) /\ phase'[b] = "decode" /\ UNCHANGED <<given, at, opts>>
        /\ Built(b) /\ ~opts[b].typedDefaultsErr
    BY <1>1, <1>5 DEF LoadInternal, Loading, CannotLoad, optionVars
  <2>3. NewConfig(b, tree).level = opts[b].values["validateLevel"]
    BY DEF NewConfig
  <2> QED
    BY <2>1, <2>2, <2>3, NilAssumption DEF ResultOf, FromOptions, Built
<1>6. CASE LoadFails(b)
  <2>1. /\ cfg'[b] = Blank /\ phase'[b] = "idle" /\ result'[b] = Failing({"ErrLoad"})
        /\ UNCHANGED <<given, at, opts>> /\ Built(b)
    BY <1>1, <1>6 DEF LoadFails, Loading, Return, optionVars
  <2> QED
    BY <2>1 DEF ResultOf, Built
<1>7. CASE UnmarshalOutput(b)
  <2>1. /\ UNCHANGED <<given, at, opts, cfg>> /\ phase[b] = "decode" /\ phase'[b] = "validate"
        /\ ~Failed(Unmarshal(cfg[b], Root))
    BY <1>1, <1>7 DEF UnmarshalOutput, optionVars
  <2> QED
    BY <1>2, <2>1 DEF ResultOf, FromOptions, Built
<1>8. CASE UnmarshalFails(b) \/ ValidateOutput(b)
  <2>1. /\ UNCHANGED <<given, at, opts, cfg>> /\ phase[b] # "idle" /\ phase'[b] = "idle"
        /\ result'[b] = UnmarshalWithValidate(cfg[b], Root)
    <3>1. CASE UnmarshalFails(b)
      BY <1>1, <3>1 DEF UnmarshalFails, Return, UnmarshalWithValidate, optionVars
    <3>2. CASE ValidateOutput(b)
      <4>1. Unmarshal(cfg[b], Root) = Value("decoded")
        <5>1. cfg[b].tree[Root].is # "absent"
          BY <1>1, <1>2, <3>2, TreeAssumption DEF ValidateOutput, ResultOf, FromOptions, Config
        <5>2. ~Failed(Unmarshal(cfg[b], Root)) /\ cfg[b] # Blank
          BY <1>2, <3>2 DEF ValidateOutput, ResultOf, FromOptions
        <5> QED
          BY <1>1, <5>1, <5>2, Readers, PathAssumption
      <4>2. ~Failed(Value("decoded"))
        BY DEF Failed, Value
      <4> QED
        BY <1>1, <3>2, <4>1, <4>2 DEF ValidateOutput, Return, UnmarshalWithValidate, optionVars
    <3> QED
      BY <1>8, <3>1, <3>2
  <2> QED
    BY <1>2, <2>1 DEF ResultOf, FromOptions, Built
<1> QED
  BY <1>3, <1>4, <1>5, <1>6, <1>7, <1>8 DEF LoadNext

LEMMA ResultInvariant == LoadSpec => [](StateInv /\ ValuesInv /\ LoadTypeOK /\ ResultInv)
<1>1. LoadInit => ResultInv
  BY DEF LoadInit, ResultInv, ResultOf
<1> QED
  BY LoadIsOptions, ValuesInvariant, LoadTypeCorrect, ResultNext, <1>1, PTL DEF LoadSpec

\* What Load returns is a T that is decoded, valid if the last level given asks
\* for that, and from a loader whose typed defaults were an object; or the zero
\* T and one error, of the stage that failed.  For all options and configs.
THEOREM LoadIsValidOrError == LoadSpec => []LoadReturnsValidOrError
<1>1. ASSUME StateInv, ValuesInv, LoadTypeOK, ResultInv, NEW b \in LoadsFrom,
             result[b] # Blank, phase[b] = "idle"
      PROVE  LET level == SetTo(b, "validateLevel", "default") IN
             IF Failed(result[b])
             THEN /\ result[b].value = "zero" /\ Cardinality(result[b].errs) = 1
                  /\ "ErrValidate" \in result[b].errs => level = Struct
             ELSE /\ result[b].value = "decoded"
                  /\ cfg[b].tree[Root].is = "decodable"
                  /\ level = Struct => cfg[b].tree[Root].valid
                  /\ ~Expected(b).typedDefaultsErr
  <2>1. /\ b \in Loaders /\ "validateLevel" \in Fields /\ Built(b)
        /\ \/ cfg[b] = Blank /\ result[b] = Failing({"ErrLoad"})
           \/ FromOptions(b) /\ result[b] = UnmarshalWithValidate(cfg[b], Root)
    BY <1>1, LoadAssumption DEF ResultInv, ResultOf
  <2>2. \A f, default : ValueTo(b, f, at[b], default) = SetTo(b, f, default)
    BY <1>1, <2>1, LastToBuilt DEF ValueTo, SetTo
  <2>3. ValuesTo(b, opts[b], at[b])
    BY <1>1, <2>1 DEF ValuesInv
  <2>4. opts[b].values["validateLevel"] = SetTo(b, "validateLevel", "default")
    BY <2>1, <2>2, <2>3 DEF ValuesTo
  <2>5. opts[b].typedDefaultsErr <=> Expected(b).typedDefaultsErr
    <3>1. LastTo(b, "typedDefaults", at[b]) = Decided(b, "typedDefaults")
      BY <1>1, <2>1, LastToBuilt
    <3> QED
      BY <2>2, <2>3, <3>1 DEF ValuesTo, Expected
  <2>6. \A e : /\ Failed(Failing({e})) /\ Failing({e}).value = "zero"
              /\ Cardinality(Failing({e}).errs) = 1 /\ Failing({e}).errs = {e}
    BY FS_Singleton DEF Failed, Failing
  <2>7. CASE cfg[b] = Blank /\ result[b] = Failing({"ErrLoad"})
    <3>1. /\ Failed(result[b]) /\ result[b].value = "zero"
          /\ Cardinality(result[b].errs) = 1 /\ result[b].errs = {"ErrLoad"}
      BY <2>6, <2>7
    <3> QED
      BY <3>1
  <2>8. CASE FromOptions(b) /\ result[b] = UnmarshalWithValidate(cfg[b], Root)
    <3>1. /\ cfg[b] \in Config /\ cfg[b] # Blank
          /\ cfg[b].level = SetTo(b, "validateLevel", "default")
          /\ ~Expected(b).typedDefaultsErr
      BY <2>4, <2>5, <2>8 DEF FromOptions
    <3>2. cfg[b].tree[Root].is \in {"undecodable", "decodable"}
      BY <3>1, TreeAssumption, PathAssumption DEF Config, Held
    <3>3. CASE cfg[b].tree[Root].is = "undecodable"
      <4>1. Unmarshal(cfg[b], Root) = Failing({"ErrUnmarshal"})
        BY <3>1, <3>3, Readers, PathAssumption
      <4>2. result[b] = Failing({"ErrUnmarshal"})
        BY <2>6, <2>8, <4>1 DEF UnmarshalWithValidate
      <4>3. /\ Failed(result[b]) /\ result[b].value = "zero"
            /\ Cardinality(result[b].errs) = 1 /\ result[b].errs = {"ErrUnmarshal"}
        BY <2>6, <4>2
      <4> QED
        BY <4>3
    <3>4. CASE cfg[b].tree[Root].is = "decodable"
      <4>1. Unmarshal(cfg[b], Root) = Value("decoded")
        BY <3>1, <3>4, Readers, PathAssumption
      <4>2. result[b] = IF Invalid(cfg[b], Root) THEN Failing({"ErrValidate"})
                                                ELSE Value("decoded")
        BY <2>8, <4>1 DEF UnmarshalWithValidate, Failed, Value
      <4>3. ~Failed(Value("decoded")) /\ Value("decoded").value = "decoded"
        BY DEF Failed, Value
      <4> QED
        BY <2>6, <3>1, <3>4, <4>2, <4>3 DEF Invalid
    <3> QED
      BY <3>2, <3>3, <3>4
  <2> QED
    BY <2>1, <2>7, <2>8
<1>2. StateInv /\ ValuesInv /\ LoadTypeOK /\ ResultInv => LoadReturnsValidOrError
  BY <1>1 DEF LoadReturnsValidOrError
<1> QED
  BY ResultInvariant, <1>2, PTL

\* The ways to read a T agree, on any config at any path: Load with LoadConfig
\* and UnmarshalWithValidate, GetAsOr with GetAs.
THEOREM ReadersDoAgree == LoadSpec => []ReadersAgree
<1>1. ASSUME LoadTypeOK, ResultInv PROVE ReadersAgree
  <2> SUFFICES ASSUME NEW b \in LoadsFrom, NEW p \in Paths
               PROVE  /\ phase[b] = "idle" /\ result[b] # Blank /\ cfg[b] # Blank
                           => result[b] = UnmarshalWithValidate(cfg[b], Root)
                      /\ ~Failed(GetAsOr(cfg[b], p)) /\ GetAsOr(cfg[b], p).value # "zero"
                      /\ GetAsOr(cfg[b], p).value = "decoded"
                           <=> GetAs(cfg[b], p) = Value("decoded")
                      /\ ~Failed(UnmarshalWithValidate(cfg[b], p)) => ~Failed(GetAs(cfg[b], p))
    BY DEF ReadersAgree
  <2>1. cfg[b] \in Config \cup {Blank}
    BY <1>1 DEF LoadTypeOK
  <2>2. phase[b] = "idle" /\ result[b] # Blank /\ cfg[b] # Blank
          => result[b] = UnmarshalWithValidate(cfg[b], Root)
    BY <1>1 DEF ResultInv, ResultOf
  <2>3. ~Failed(UnmarshalWithValidate(cfg[b], p)) => ~Failed(GetAs(cfg[b], p))
    BY DEF UnmarshalWithValidate, GetAs
  <2>4. /\ \A e : Failed(Failing({e})) /\ \A v : ~Failed(Value(v))
        /\ Value("fallback").value = "fallback" /\ Value("decoded").value = "decoded"
        /\ \A v : Value(v).value = v
    BY DEF Failed, Failing, Value
  <2>5. CASE FallsBack(cfg[b], p)
    <3>1. GetAsOr(cfg[b], p) = Value("fallback")
      BY <2>5 DEF GetAsOr
    <3>2. GetAs(cfg[b], p) # Value("decoded")
      BY <2>1, <2>4, <2>5, Readers, TreeAssumption DEF FallsBack, GetAs
    <3> QED
      BY <2>2, <2>3, <2>4, <3>1, <3>2
  <2>6. CASE ~FallsBack(cfg[b], p)
    <3>1. GetAsOr(cfg[b], p) = GetAs(cfg[b], p)
      BY <2>6 DEF GetAsOr
    <3>2. GetAs(cfg[b], p) = Value("decoded")
      <4>1. cfg[b] \in Config /\ cfg[b] # Blank /\ ~Failed(Unmarshal(cfg[b], p))
        BY <2>1, <2>6 DEF FallsBack, GetAs
      <4>2. cfg[b].tree[p].is # "absent"
        BY <2>6, <4>1, TreeAssumption DEF FallsBack, Config
      <4> QED
        BY <2>4, <4>1, <4>2, Readers DEF GetAs
    <3> QED
      BY <2>2, <2>3, <2>4, <3>1, <3>2
  <2> QED
    BY <2>5, <2>6
<1>2. LoadTypeOK /\ ResultInv => ReadersAgree
  BY <1>1
<1> QED
  BY ResultInvariant, <1>2, PTL
-----------------------------------------------------------------------------
(* What the options add.                                                     *)

\* What the i-th option adds to field f, if m is the last that decides.
Part(b, f, i, m) ==
  IF i > m /\ given[b][i].op \in {"globs", "sources"} /\ given[b][i].field = f
  THEN NonNil(given[b][i].items) ELSE <<>>
Parts(b, f, n) == [i \in 1..(n - 1) |-> Part(b, f, i, LastTo(b, f, n))]
AddedTo(b, f, n) == FlattenSeq(Parts(b, f, n))

LEMMA PartsType ==
  ASSUME StateInv, NEW b \in Loaders, NEW f, NEW n \in 1..(Len(given[b]) + 1)
  PROVE  /\ Parts(b, f, n) \in Seq(Seq(Elems)) /\ Len(Parts(b, f, n)) = n - 1
         /\ \A i \in 1..(n - 1) : Parts(b, f, n)[i] = Part(b, f, i, LastTo(b, f, n))
         /\ AddedTo(b, f, n) \in Seq(Elems)
<1>1. given[b] \in Seq(Option) /\ Len(given[b]) \in Nat
      /\ \A i \in 1..Len(given[b]) : given[b][i] \in Option
  BY GivenTypes DEF StateInv
<1>2. \A i \in 1..Len(given[b]) : NonNil(given[b][i].items) \in Seq(Elems)
  BY <1>1, NonNilType DEF Option
<1>3. <<>> \in Seq(Elems)
  BY EmptySeq
<1>4. n - 1 \in Nat /\ \A i \in 1..(n - 1) : i \in 1..Len(given[b])
  BY <1>1
<1>5. \A i \in 1..(n - 1) : Part(b, f, i, LastTo(b, f, n)) \in Seq(Elems)
  BY <1>2, <1>3, <1>4 DEF Part
<1>6. Parts(b, f, n) \in [1..(n - 1) -> Seq(Elems)]
  BY <1>5 DEF Parts
<1>7. ASSUME NEW m \in Nat, NEW C, NEW s \in [1..m -> C]
      PROVE  s \in Seq(C) /\ Len(s) = m
  OBVIOUS
<1>8. Parts(b, f, n) \in Seq(Seq(Elems)) /\ Len(Parts(b, f, n)) = n - 1
  BY <1>4, <1>6, <1>7
<1>9. AddedTo(b, f, n) \in Seq(Elems)
  BY <1>8, FlattenType DEF AddedTo
<1> QED
  BY <1>8, <1>9 DEF Parts

\* One more option adds to what there is, or takes its place.
LEMMA AddedNext ==
  ASSUME StateInv, NEW b \in Loaders, NEW f, NEW n \in 1..Len(given[b])
  PROVE  /\ n \in Deciding(b, f) => AddedTo(b, f, n + 1) = <<>>
         /\ n \notin Deciding(b, f) =>
              AddedTo(b, f, n + 1) = AddedTo(b, f, n) \o Part(b, f, n, 0)
<1>1. Len(given[b]) \in Nat /\ n \in 1..(Len(given[b]) + 1) /\ n + 1 \in 1..(Len(given[b]) + 1)
      /\ n \in Nat /\ (n + 1) - 1 = n
  BY GivenTypes DEF StateInv
<1>2. /\ Parts(b, f, n + 1) \in Seq(Seq(Elems)) /\ Len(Parts(b, f, n + 1)) = n
      /\ \A i \in 1..n : Parts(b, f, n + 1)[i] = Part(b, f, i, LastTo(b, f, n + 1))
  BY <1>1, PartsType
<1>3. ASSUME n \in Deciding(b, f) PROVE AddedTo(b, f, n + 1) = <<>>
  <2>1. LastTo(b, f, n + 1) = n
    BY <1>1, <1>3, LastToNext
  <2>2. \A i \in 1..n : Parts(b, f, n + 1)[i] = <<>>
    BY <1>1, <1>2, <2>1 DEF Part
  <2> QED
    BY <1>2, <2>2, FlattenEmpty DEF AddedTo
<1>4. ASSUME n \notin Deciding(b, f)
      PROVE  AddedTo(b, f, n + 1) = AddedTo(b, f, n) \o Part(b, f, n, 0)
  <2>1. LastTo(b, f, n + 1) = LastTo(b, f, n) /\ LastTo(b, f, n) \in Nat /\ LastTo(b, f, n) < n
    BY <1>1, <1>4, LastToNext, LastToIs
  <2>2. /\ Parts(b, f, n) \in Seq(Seq(Elems)) /\ Len(Parts(b, f, n)) = n - 1
        /\ \A i \in 1..(n - 1) : Parts(b, f, n)[i] = Part(b, f, i, LastTo(b, f, n))
    BY <1>1, PartsType
  <2>3. Parts(b, f, n + 1)[n] = Part(b, f, n, 0) /\ Part(b, f, n, 0) \in Seq(Elems)
    <3>1. Parts(b, f, n + 1)[n] = Part(b, f, n, LastTo(b, f, n))
      BY <1>1, <1>2, <2>1
    <3>2. Parts(b, f, n + 1)[n] \in Seq(Elems)
      BY <1>1, <1>2
    <3>3. n > LastTo(b, f, n) /\ n > 0
      BY <1>1, <2>1
    <3>4. Part(b, f, n, LastTo(b, f, n)) = Part(b, f, n, 0)
      BY <3>3 DEF Part
    <3> QED
      BY <3>1, <3>2, <3>4
  <2>4. Parts(b, f, n + 1) = Append(Parts(b, f, n), Part(b, f, n, 0))
    <3>1. PICK s : s = Parts(b, f, n)
      OBVIOUS
    <3>2. PICK t : t = Parts(b, f, n + 1)
      OBVIOUS
    <3>3. PICK x : x = Part(b, f, n, 0)
      OBVIOUS
    <3>4. /\ s \in Seq(Seq(Elems)) /\ t \in Seq(Seq(Elems)) /\ x \in Seq(Elems)
          /\ Len(s) = n - 1 /\ Len(t) = n /\ t[n] = x
      BY <1>2, <2>2, <2>3, <3>1, <3>2, <3>3
    <3>5. \A i \in 1..(n - 1) : t[i] = s[i]
      <4>1. \A i \in 1..(n - 1) : i \in 1..n
        BY <1>1
      <4> QED
        BY <1>2, <2>1, <2>2, <3>1, <3>2, <4>1
    <3>6. Append(s, x) \in Seq(Seq(Elems)) /\ Len(Append(s, x)) = n
          /\ \A i \in 1..n : Append(s, x)[i] = IF i = n THEN x ELSE s[i]
      BY <1>1, <3>4
    <3>7. \A i \in 1..n : t[i] = Append(s, x)[i]
      BY <1>1, <3>4, <3>5, <3>6
    <3>8. t = Append(s, x)
      BY <3>4, <3>6, <3>7, SeqEqual
    <3> QED
      BY <3>1, <3>2, <3>3, <3>8
  <2> QED
    BY <2>2, <2>3, <2>4, FlattenAppend DEF AddedTo
<1> QED
  BY <1>3, <1>4

\* When New is done, that is all that was added.
LEMMA AddedBuilt ==
  ASSUME StateInv, NEW b \in Loaders, Built(b), NEW f
  PROVE  AddedTo(b, f, at[b]) = Added(b, f)
<1>1. given[b] \in Seq(Option)
  BY GivenTypes DEF StateInv
<1>2. at[b] = Len(given[b]) + 1 /\ Len(given[b]) \in Nat
  BY GivenTypes DEF StateInv, GivenInv, OptionsTypeOK, Built
<1>3. DOMAIN given[b] = 1..(at[b] - 1)
  BY <1>1, <1>2
<1>4. LastTo(b, f, at[b]) = Decided(b, f)
  BY LastToBuilt
<1>5. Parts(b, f, at[b]) = [i \in DOMAIN given[b] |-> Part(b, f, i, Decided(b, f))]
  BY <1>3, <1>4 DEF Parts
<1> QED
  BY <1>5 DEF AddedTo, Added, Part

\* What is appended follows what was there, in both places it can go to.
LEMMA OwnContent ==
  ASSUME memory \in [Cells -> Seq(Elems)], NEW s \in Slice, NEW items \in Seq(Elems),
         s.len = Len(items), memory[s.cell] = items
  PROVE  Content(s) = items
BY SubSeqFull DEF Content

Extending(p, m, n, items) ==
  /\ Len(p) = Len(m) /\ n <= Len(m) /\ n + Len(items) <= Len(m)
  /\ \A i \in 1..Len(m) :
       p[i] = IF i \in (n + 1)..(n + Len(items)) THEN items[i - n] ELSE m[i]
LEMMA ExtendedContent ==
  ASSUME NEW m \in Seq(Elems), NEW p \in Seq(Elems), NEW n \in Nat,
         NEW items \in Seq(Elems), Extending(p, m, n, items)
  PROVE  /\ SubSeq(p, 1, n + Len(items)) = SubSeq(m, 1, n) \o items
         /\ \A k \in 0..n : SubSeq(p, 1, k) = SubSeq(m, 1, k)
<1> USE LenProperties DEF Extending
<1> DEFINE E == Elems
<1>1. /\ Len(items) \in Nat /\ n + Len(items) \in Nat /\ Len(m) \in Nat
      /\ items \in Seq(E)
  OBVIOUS
<1>2. ASSUME NEW k \in 0..n PROVE SubSeq(p, 1, k) = SubSeq(m, 1, k)
  <2>1. /\ SubSeq(p, 1, k) \in Seq(E) /\ Len(SubSeq(p, 1, k)) = k
        /\ \A i \in 1..k : SubSeq(p, 1, k)[i] = p[i]
    BY <1>1, PrefixType
  <2>2. /\ SubSeq(m, 1, k) \in Seq(E) /\ Len(SubSeq(m, 1, k)) = k
        /\ \A i \in 1..k : SubSeq(m, 1, k)[i] = m[i]
    BY <1>1, PrefixType
  <2>3. \A i \in 1..k : p[i] = m[i]
    BY <1>1
  <2> QED
    BY <2>1, <2>2, <2>3, SeqEqual
<1>3. SubSeq(p, 1, n + Len(items)) = SubSeq(m, 1, n) \o items
  <2>1. /\ SubSeq(p, 1, n + Len(items)) \in Seq(E)
        /\ Len(SubSeq(p, 1, n + Len(items))) = n + Len(items)
        /\ \A i \in 1..(n + Len(items)) : SubSeq(p, 1, n + Len(items))[i] = p[i]
    BY <1>1, PrefixType
  <2>2. /\ SubSeq(m, 1, n) \in Seq(E) /\ Len(SubSeq(m, 1, n)) = n
        /\ \A i \in 1..n : SubSeq(m, 1, n)[i] = m[i]
    BY <1>1, PrefixType
  <2>3. /\ SubSeq(m, 1, n) \o items \in Seq(E)
        /\ Len(SubSeq(m, 1, n) \o items) = n + Len(items)
        /\ \A i \in 1..(n + Len(items)) : (SubSeq(m, 1, n) \o items)[i] =
             IF i <= n THEN m[i] ELSE items[i - n]
    BY <1>1, <2>2, ConcatProperties
  <2>4. \A i \in 1..(n + Len(items)) : p[i] = IF i <= n THEN m[i] ELSE items[i - n]
    BY <1>1
  <2> QED
    BY <2>1, <2>3, <2>4, SeqEqual
<1> QED
  BY <1>2, <1>3
-----------------------------------------------------------------------------
(* What the slices hold.                                                     *)

\* What the options before the n-th have put into field f.
ListedTo(b, f, n) ==
  IF LastTo(b, f, n) = 0 THEN OwnDefault(f) ELSE Content(given[b][LastTo(b, f, n)].slice)

\* No loader has globs behind files of its caller's.
NoGlobs == \A b \in Loaders, i, j \in Nat :
  ~(/\ i \in OptionsOf(b, "files") /\ given[b][i].op = "slice"
    /\ j \in OptionsOf(b, "files") /\ given[b][j].op = "globs")

\* While one of these holds, nobody writes to what b has.
Steady(b) == \/ b = latest /\ ~Aliased(b)
             \/ writes = 0 /\ NoGlobs

\* A loader that New has not come to has its defaults.
UnbuiltInv ==
  \A b \in Loaders : at[b] = 0 =>
    opts[b] = NewOptions(b) /\ \A f \in SliceFields : memory[<<b, f>>] = OwnDefault(f)

SlicesTo(b, n) ==
  \A f \in SliceFields :
    Content(opts[b].slices[f]) = ListedTo(b, f, n) \o AddedTo(b, f, n)
SlicesInv == \A b \in Loaders : at[b] # 0 /\ Steady(b) => SlicesTo(b, at[b])

\* An option leaves alone what is in the memory of other fields and loaders.
LEMMA OwnUntouched ==
  ASSUME StateInv, Busy, ApplyForm, NEW b \in Loaders, NEW f \in SliceFields,
         NoSlice \/ b # latest \/ f # Opt.field
  PROVE  memory'[<<b, f>>] = memory[<<b, f>>]
<1>1. memory \in [Cells -> Seq(Elems)]
  BY DEF StateInv, OptionsTypeOK
<1>2. <<b, f>> \in Cells /\ <<b, f>> \notin Arrays
  BY ArrayAssumption DEF Cells, Own
<1>3. CASE NoSlice \/ Taken
  BY <1>3 DEF NoSlice, Taken
<1> SUFFICES ASSUME ~NoSlice, ~Taken PROVE memory'[<<b, f>>] = memory[<<b, f>>]
  BY <1>3
<1>4. <<b, f>> # <<latest, Opt.field>>
  OBVIOUS
<1>5. CASE Copied \/ Regrown
  BY <1>1, <1>2, <1>4, <1>5 DEF Copied, Regrown, Owning, OwnMemory
<1>6. CASE Extended
  <2>1. O.slices[Opt.field].cell \in Arrays \cup {<<latest, Opt.field>>}
    BY <1>6, OptTypes DEF ApplyForm, StateInv, Owned, O
  <2>2. O.slices[Opt.field].cell # <<b, f>>
    BY <1>2, <1>4, <2>1
  <2> QED
    BY <1>1, <1>2, <1>6, <2>2 DEF Extended
<1> QED
  BY <1>5, <1>6 DEF ApplyForm

LEMMA UnbuiltNext == StateInv /\ UnbuiltInv /\ [OptionsNext]_optionVars => UnbuiltInv'
<1> SUFFICES ASSUME StateInv, UnbuiltInv, [OptionsNext]_optionVars, NEW b \in Loaders, at'[b] = 0
             PROVE  opts'[b] = NewOptions(b)
                    /\ \A f \in SliceFields : memory'[<<b, f>>] = OwnDefault(f)
  BY DEF UnbuiltInv, NewOptions
<1>1. /\ at \in [Loaders -> Nat] /\ opts \in [Loaders -> OptionsRecord]
      /\ memory \in [Cells -> Seq(Elems)]
  BY DEF StateInv, OptionsTypeOK
<1>2. \A f \in SliceFields : <<b, f>> \in Cells /\ <<b, f>> \notin Arrays
  BY ArrayAssumption DEF Cells, Own
<1>3. at[b] = 0 => opts[b] = NewOptions(b) /\ \A f \in SliceFields : memory[<<b, f>>] = OwnDefault(f)
  BY DEF UnbuiltInv
<1>4. ASSUME NEW c \in Loaders, New(c)
      PROVE  UNCHANGED <<opts, memory>> /\ at[b] = 0
  BY <1>1, <1>4 DEF New
<1>5. CASE ApplyOption
  <2>1. Busy /\ ApplyForm /\ latest \in Loaders /\ at[latest] \in Nat
    BY <1>1, <1>5, ApplyForms, OptTypes
  <2>2. b # latest
    BY <1>1, <2>1 DEF ApplyForm
  <2>3. at[b] = 0 /\ opts'[b] = opts[b]
    BY <1>1, <2>1, <2>2 DEF ApplyForm
  <2>4. \A f \in SliceFields : memory'[<<b, f>>] = memory[<<b, f>>]
    BY <2>1, <2>2, OwnUntouched
  <2> QED
    BY <1>3, <2>3, <2>4
<1>6. ASSUME NEW a \in Arrays, NEW e \in Elems, NEW i \in DOMAIN memory[a],
             CallerWrites(a, i, e)
      PROVE  UNCHANGED <<opts, at>> /\ \A f \in SliceFields : memory'[<<b, f>>] = memory[<<b, f>>]
  BY <1>1, <1>2, <1>6 DEF CallerWrites
<1> QED
  BY <1>3, <1>4, <1>5, <1>6 DEF OptionsNext, CallerStep, optionVars

\* An append into an array of the caller's leaves alone what other options of
\* this loader were passed, if it is steady, and is impossible without globs.
LEMMA NoClash ==
  ASSUME StateInv, KeptInv, Busy, ApplyForm, NEW a \in Arrays, memory'[a] # memory[a]
  PROVE  /\ Extended /\ Opt.field = "files" /\ a = O.slices["files"].cell /\ ~NoGlobs
         /\ \E i \in Nat :
              /\ PassedBy(latest, "files", i)
              /\ ~Aliased(latest) => \A j \in SlicesOf(latest) :
                                       j # i => given[latest][j].slice.cell # a
<1>1. latest \in Loaders /\ memory \in [Cells -> Seq(Elems)] /\ a \in Cells
      /\ at[latest] \in 1..Len(given[latest]) /\ NonNil(Opt.items) \in Seq(Elems)
      /\ O = opts[latest]
  BY OptTypes DEF StateInv, OptionsTypeOK, Cells, O
<1>2. \A f \in SliceFields : a # <<latest, f>>
  BY <1>1, ArrayAssumption DEF Own
<1>3. Extended
  <2>1. ~NoSlice /\ ~Taken
    BY DEF NoSlice, Taken
  <2>2. ~Copied /\ ~Regrown
    BY <1>1, <1>2, <2>1 DEF Copied, Regrown, Owning, OwnMemory, ApplyForm
  <2> QED
    BY <2>1, <2>2 DEF ApplyForm
<1>4. a = O.slices[Opt.field].cell
  BY <1>1, <1>3 DEF Extended
<1>5. Opt.field = "files" /\ \E i \in Nat : PassedBy(latest, "files", i)
  BY <1>3, <1>4, ExtendsKept
<1>6. PICK i \in Nat : PassedBy(latest, "files", i)
  BY <1>5
<1>7. /\ i \in Deciding(latest, "files") /\ i \in OptionsOf(latest, "files")
      /\ i \in 1..Len(given[latest]) /\ given[latest][i] \in Option
      /\ given[latest][i].op \in {"slice", "dotenv", "defaults"}
      /\ given[latest][i].field = "files"
      /\ given[latest][i].slice.cell = a
      /\ given[latest][i].slice.len <= O.slices["files"].len
      /\ given[latest][i].slice.len \in Nat
  BY <1>1, <1>4, <1>5, <1>6, DecidingType, GivenTypes
     DEF PassedBy, DecidingTo, Deciding, StateInv
<1>8. given[latest][i].op = "slice"
  BY <1>7 DEF Option, FieldsOf
<1>9. ~NoGlobs
  <2>1. Opt.op = "globs"
    <3>1. Opt.field \in FieldsOf(Opt.op)
      BY OptTypes
    <3> QED
      BY <1>3, <1>5, <3>1 DEF Extended, FieldsOf
  <2>2. at[latest] \in OptionsOf(latest, "files") /\ at[latest] \in Nat
    <3>1. given[latest] \in Seq(Option)
      BY <1>1, GivenTypes DEF StateInv
    <3>2. at[latest] \in DOMAIN given[latest]
      BY <1>1, <3>1
    <3> QED
      BY <1>1, <1>5, <3>2 DEF OptionsOf, Opt
  <2> QED
    BY <1>1, <1>7, <1>8, <2>1, <2>2 DEF NoGlobs, Opt
<1>10. given[latest][i].slice.len < Len(memory[a])
  <2> DEFINE s == O.slices["files"]
             k == Len(NonNil(Opt.items))
  <2>1. s.len \in Nat /\ k \in Nat /\ Len(memory[a]) \in Nat
    <3>1. Opt.op \in {"globs", "sources"}
      BY <1>3 DEF Extended
    <3>2. s \in Slice
      BY <1>5, <3>1, GrownType
    <3>3. s.len \in Nat
      BY <3>2 DEF Slice
    <3>4. memory[a] \in Seq(Elems)
      BY <1>1
    <3> QED
      BY <1>1, <3>3, <3>4
  <2>2. k # 0
    <3> SUFFICES ASSUME k = 0 PROVE memory'[a] = memory[a]
      OBVIOUS
    <3>1. memory'[a] = [q \in DOMAIN memory[a] |->
                         IF q \in (s.len + 1)..(s.len + k) THEN NonNil(Opt.items)[q - s.len]
                                                           ELSE memory[a][q]]
      BY <1>1, <1>3, <1>4, <1>5 DEF Extended
    <3>2. memory'[a] = [q \in DOMAIN memory[a] |-> memory[a][q]]
      BY <2>1, <3>1
    <3>3. memory[a] \in Seq(Elems)
      BY <1>1
    <3> QED
      BY <3>2, <3>3
  <2>3. s.len + k <= Len(memory[a])
    BY <1>3, <1>4, <1>5 DEF Extended, HasRoom
  <2> HIDE DEF s, k
  <2>4. given[latest][i].slice.len <= s.len
    BY <1>7 DEF s
  <2> QED
    BY <1>7, <2>1, <2>2, <2>3, <2>4
<1>11. ASSUME ~Aliased(latest), NEW j \in SlicesOf(latest), j # i
       PROVE  given[latest][j].slice.cell # a
  <2>1. i \in SlicesOf(latest)
    BY <1>7, <1>8 DEF SlicesOf, OptionsOf
  <2> QED
    BY <1>7, <1>10, <1>11, <2>1 DEF Aliased
<1> QED
  BY <1>3, <1>4, <1>5, <1>6, <1>9, <1>11

\* What decides about a slice passes one.
LEMMA DecidesSlices ==
  ASSUME StateInv, NEW b \in Loaders, NEW f \in SliceFields, NEW i \in Deciding(b, f)
  PROVE  i \in SlicesOf(b) /\ i \in 1..Len(given[b]) /\ given[b][i].field = f
<1>1. /\ i \in OptionsOf(b, f) /\ i \in 1..Len(given[b]) /\ given[b][i] \in Option
      /\ given[b][i].field = f
  BY DecidingType, GivenTypes DEF StateInv, Deciding
<1>2. given[b][i].field \in FieldsOf(given[b][i].op)
  BY <1>1 DEF Option
<1>3. given[b][i].op \notin {"value", "givenValue", "typedDefaults", "parser"}
  BY <1>1, <1>2, FieldAssumption DEF FieldsOf, SliceFields
<1> QED
  BY <1>1, <1>3 DEF Deciding, SlicesOf, OptionsOf

\* What was passed to a steady loader stays when an option is applied: matches
\* that are appended to its files come behind them.
LEMMA PassedStays ==
  ASSUME StateInv, KeptInv, Busy, ApplyForm, NEW b \in Loaders, Steady(b),
         NEW f \in SliceFields, NEW i \in Deciding(b, f)
  PROVE  SubSeq(memory'[given[b][i].slice.cell], 1, given[b][i].slice.len)
           = Content(given[b][i].slice)
<1> DEFINE p == given[b][i].slice
           a == p.cell
<1>1. i \in SlicesOf(b) /\ p.cell \in Arrays /\ p.len \in Nat /\ p.len <= Len(memory[p.cell])
  BY DecidesSlices, GivenTypes DEF StateInv
<1>2. CASE memory'[a] = memory[a]
  BY <1>2 DEF Content
<1>3. CASE memory'[a] # memory[a]
  <2>1. /\ Extended /\ Opt.field = "files" /\ a = O.slices["files"].cell /\ ~NoGlobs
        /\ \E k \in Nat :
             /\ PassedBy(latest, "files", k)
             /\ ~Aliased(latest) => \A j \in SlicesOf(latest) :
                                      j # k => given[latest][j].slice.cell # a
    BY <1>1, <1>3, NoClash
  <2>2. b = latest /\ ~Aliased(latest)
    BY <2>1 DEF Steady
  <2>3. PassedBy(latest, "files", i)
    BY <1>1, <2>1, <2>2
  <2> DEFINE s == O.slices["files"]
             items == NonNil(Opt.items)
  <2>4. p.len <= s.len
    BY <2>2, <2>3 DEF PassedBy, O
  <2>5. s.len \in Nat /\ items \in Seq(Elems) /\ memory[a] \in Seq(Elems) /\ a \in Cells
        /\ memory'[a] \in Seq(Elems) /\ Len(memory'[a]) = Len(memory[a])
    <3>1. Opt.op \in {"globs", "sources"}
      BY <2>1 DEF Extended
    <3>2. s \in Slice
      BY <2>1, <3>1, GrownType
    <3>3. a \in Cells /\ memory \in [Cells -> Seq(Elems)]
      BY <1>1 DEF Cells, StateInv, OptionsTypeOK
    <3> QED
      BY <1>1, <3>2, <3>3, OptTypes, ApplyMemory DEF Slice
  <2>6. s.len + Len(items) <= Len(memory[a])
    BY <2>1 DEF Extended, HasRoom
  <2>7. \A q \in 1..Len(memory[a]) :
          memory'[a][q] = IF q \in (s.len + 1)..(s.len + Len(items)) THEN items[q - s.len]
                                                                     ELSE memory[a][q]
    <3>1. memory'[a] = [q \in DOMAIN memory[a] |->
                         IF q \in (s.len + 1)..(s.len + Len(items)) THEN items[q - s.len]
                                                                    ELSE memory[a][q]]
      BY <2>1, <2>5 DEF Extended, StateInv, OptionsTypeOK
    <3>2. DOMAIN memory[a] = 1..Len(memory[a])
      BY <2>5
    <3> HIDE DEF s, items, a
    <3> QED
      BY <3>1, <3>2, Zenon
  <2> HIDE DEF s, items, a
  <2>8. \A k \in 0..s.len : SubSeq(memory'[a], 1, k) = SubSeq(memory[a], 1, k)
    <3>1. s.len <= Len(memory[a])
      BY <2>5, <2>6, LenProperties
    <3>2. Extending(memory'[a], memory[a], s.len, items)
      BY <2>5, <2>6, <2>7, <3>1 DEF Extending
    <3> QED
      BY <2>5, <3>2, ExtendedContent
  <2>9. p.len \in 0..s.len
    BY <1>1, <2>4, <2>5
  <2> QED
    BY <2>8, <2>9 DEF Content, a
<1> QED
  BY <1>2, <1>3

LEMMA ListedStays ==
  ASSUME StateInv, KeptInv, Busy, ApplyForm, NEW b \in Loaders, Steady(b),
         NEW f \in SliceFields, NEW n \in Nat
  PROVE  ListedTo(b, f, n)' = ListedTo(b, f, n)
<1>1. given' = given /\ LastTo(b, f, n)' = LastTo(b, f, n)
  BY DEF ApplyForm, LastTo, DecidingTo, Deciding, OptionsOf
<1>2. LastTo(b, f, n) # 0 => LastTo(b, f, n) \in Deciding(b, f)
  BY LastToIs DEF DecidingTo
<1>3. ASSUME LastTo(b, f, n) # 0
      PROVE  SubSeq(memory'[given[b][LastTo(b, f, n)].slice.cell], 1,
                    given[b][LastTo(b, f, n)].slice.len)
               = Content(given[b][LastTo(b, f, n)].slice)
  BY <1>2, <1>3, PassedStays
<1> QED
  BY <1>1, <1>3 DEF ListedTo, Content, OwnDefault

\* The slices that the option is not about stay too.
LEMMA SlicesStay ==
  ASSUME StateInv, KeptInv, Busy, ApplyForm, NEW b \in Loaders, Steady(b),
         NEW f \in SliceFields, NoSlice \/ b # latest \/ f # Opt.field
  PROVE  SubSeq(memory'[opts[b].slices[f].cell], 1, opts[b].slices[f].len)
           = Content(opts[b].slices[f])
<1> DEFINE s == opts[b].slices[f]
<1>1. CASE memory'[s.cell] = memory[s.cell]
  BY <1>1 DEF Content
<1>2. CASE s.cell = <<b, f>>
  BY <1>1, <1>2, OwnUntouched
<1>3. ASSUME memory'[s.cell] # memory[s.cell], NEW j \in Nat, PassedBy(b, f, j) PROVE FALSE
  <2>1. /\ j \in Deciding(b, f) /\ s.cell = given[b][j].slice.cell
    BY <1>3 DEF PassedBy, DecidingTo
  <2>2. j \in SlicesOf(b) /\ given[b][j].field = f /\ s.cell \in Arrays
    BY <2>1, DecidesSlices, GivenTypes DEF StateInv
  <2>3. /\ Extended /\ Opt.field = "files" /\ ~NoGlobs
        /\ \E k \in Nat :
             /\ PassedBy(latest, "files", k)
             /\ ~Aliased(latest) => \A i \in SlicesOf(latest) :
                                      i # k => given[latest][i].slice.cell # s.cell
    BY <1>3, <2>2, NoClash
  <2>4. b = latest /\ ~Aliased(latest)
    BY <2>3 DEF Steady
  <2>5. ~NoSlice
    BY <2>3 DEF NoSlice, Extended
  <2>6. PassedBy(latest, "files", j)
    BY <2>1, <2>2, <2>3, <2>4
  <2>7. given[b][j].field = "files"
    BY <2>4, <2>6, DecidingType DEF PassedBy, DecidingTo
  <2> QED
    BY <2>2, <2>3, <2>4, <2>5, <2>7
<1> QED
  BY <1>1, <1>2, <1>3 DEF KeptInv

LEMMA SteadyBefore ==
  ASSUME StateInv, Busy, ApplyForm, NEW b \in Loaders, Steady(b)'
  PROVE  Steady(b)
<1>1. UNCHANGED <<given, latest, writes>>
  BY DEF ApplyForm
<1>2. \A i \in SlicesOf(b) : Len(memory'[given[b][i].slice.cell]) = Len(memory[given[b][i].slice.cell])
  <2>1. \A i \in SlicesOf(b) : i \in 1..Len(given[b])
    BY GivenTypes DEF SlicesOf, StateInv
  <2> QED
    BY <2>1, GivenTypes, ApplyMemory DEF StateInv
<1>3. Aliased(b) => Aliased(b)'
  BY <1>1, <1>2 DEF Aliased, SlicesOf
<1> QED
  BY <1>1, <1>3 DEF Steady, NoGlobs, OptionsOf

LEMMA ListedType ==
  ASSUME StateInv, NEW b \in Loaders, NEW f \in SliceFields, NEW n \in Nat
  PROVE  ListedTo(b, f, n) \in Seq(Elems)
<1>1. CASE LastTo(b, f, n) = 0
  BY <1>1, DefaultAssumption DEF ListedTo, OwnDefault
<1>2. CASE LastTo(b, f, n) # 0
  <2> DEFINE i == LastTo(b, f, n)
  <2>1. i \in Deciding(b, f)
    BY <1>2, LastToIs DEF DecidingTo
  <2>2. i \in 1..Len(given[b])
    BY <2>1, DecidingType
  <2>3. given[b][i].slice \in Slice /\ given[b][i].slice.len <= Len(memory[given[b][i].slice.cell])
    BY <2>2, GivenTypes DEF StateInv, Option, Slice, Cells
  <2>4. Content(given[b][i].slice) \in Seq(Elems)
    BY <2>3, ContentType DEF StateInv, OptionsTypeOK
  <2> QED
    BY <1>2, <2>4 DEF ListedTo
<1> QED
  BY <1>1, <1>2

\* The option New is at makes each slice what it should be.
LEMMA SlicesForm ==
  ASSUME StateInv, KeptInv, Busy, ApplyForm, NEW b \in Loaders, NEW n \in Nat,
         b = latest, n = at[b], Steady(b), SlicesTo(b, n), NEW f \in SliceFields
  PROVE  SubSeq(memory'[opts'[b].slices[f].cell], 1, opts'[b].slices[f].len)
           = ListedTo(b, f, n + 1)' \o AddedTo(b, f, n + 1)
<1> DEFINE t == opts'[b].slices[f]
           s == opts[b].slices[f]
           items == NonNil(Opt.items)
           grown == SubSeq(memory'[t.cell], 1, t.len)
<1>1. /\ n \in 1..Len(given[b]) /\ n + 1 \in Nat /\ n # 0
      /\ O = opts[b] /\ Opt = given[b][n] /\ items \in Seq(Elems)
      /\ memory \in [Cells -> Seq(Elems)] /\ s \in Slice /\ s.len \in Nat
      /\ s.len <= Len(memory[s.cell])
  <2>1. n \in 1..Len(given[b]) /\ items \in Seq(Elems)
    BY OptTypes
  <2>2. memory \in [Cells -> Seq(Elems)] /\ s \in Slice /\ s.len <= Len(memory[s.cell])
    BY DEF StateInv, OptionsTypeOK, OptionsRecord
  <2> QED
    BY <2>1, <2>2 DEF O, Opt, Slice
<1>2. Content(s) = ListedTo(b, f, n) \o AddedTo(b, f, n)
  BY DEF SlicesTo
<1>3. ListedTo(b, f, n + 1) \in Seq(Elems) /\ ListedTo(b, f, n) \in Seq(Elems)
      /\ AddedTo(b, f, n) \in Seq(Elems)
  <2>1. n \in 1..(Len(given[b]) + 1)
    BY <1>1, GivenTypes DEF StateInv
  <2> QED
    BY <1>1, <2>1, ListedType, PartsType
<1>4. ListedTo(b, f, n + 1)' = ListedTo(b, f, n + 1)
  BY <1>1, ListedStays
<1>5. n \in Deciding(b, f) <=> (Taken \/ Copied) /\ f = Opt.field
  BY FormDecides
<1>6. ASSUME n \notin Deciding(b, f)
      PROVE  ListedTo(b, f, n + 1) \o AddedTo(b, f, n + 1) = Content(s) \o Part(b, f, n, 0)
             /\ n > 0
  <2>1. ListedTo(b, f, n + 1) = ListedTo(b, f, n)
    BY <1>1, <1>6, LastToNext DEF ListedTo
  <2>2. AddedTo(b, f, n + 1) = AddedTo(b, f, n) \o Part(b, f, n, 0)
    BY <1>1, <1>6, AddedNext
  <2>3. Part(b, f, n, 0) \in Seq(Elems)
    BY <1>1 DEF Part
  <2>4. (ListedTo(b, f, n) \o AddedTo(b, f, n)) \o Part(b, f, n, 0)
          = ListedTo(b, f, n) \o (AddedTo(b, f, n) \o Part(b, f, n, 0))
    <3>1. \A x, y, z \in Seq(Elems) : (x \o y) \o z = x \o (y \o z)
      BY ConcatAssociative
    <3>2. ListedTo(b, f, n) \in Seq(Elems) /\ AddedTo(b, f, n) \in Seq(Elems)
      BY <1>3
    <3>3. PICK x \in Seq(Elems) : x = ListedTo(b, f, n)
      BY <3>2
    <3>4. PICK y \in Seq(Elems) : y = AddedTo(b, f, n)
      BY <3>2
    <3>5. PICK z \in Seq(Elems) : z = Part(b, f, n, 0)
      BY <2>3
    <3>6. (x \o y) \o z = x \o (y \o z)
      BY <3>1
    <3> QED
      BY <3>3, <3>4, <3>5, <3>6
  <2>5. n > 0
    BY <1>1
  <2> QED
    BY <1>2, <2>1, <2>2, <2>4, <2>5
<1>7. ASSUME n \in Deciding(b, f)
      PROVE  ListedTo(b, f, n + 1) \o AddedTo(b, f, n + 1) = Content(Opt.slice)
  <2>1. LastTo(b, f, n + 1) = n /\ AddedTo(b, f, n + 1) = <<>>
    BY <1>1, <1>7, LastToNext, AddedNext
  <2>2. ListedTo(b, f, n + 1) = Content(Opt.slice)
    BY <1>1, <2>1 DEF ListedTo
  <2> QED
    BY <1>3, <2>1, <2>2
<1>8. CASE NoSlice \/ f # Opt.field
  <2>1. t = s
    BY <1>1, <1>8, FormSlices DEF ApplyForm
  <2>2. grown = Content(s)
    BY <1>8, <2>1, SlicesStay
  <2>3. n \notin Deciding(b, f)
    BY <1>5, <1>8 DEF NoSlice, Taken, Copied
  <2>4. Part(b, f, n, 0) = <<>>
    BY <1>1, <1>8 DEF Part, NoSlice
  <2>5. Content(s) \in Seq(Elems)
    BY <1>1, ContentType
  <2>6. Content(s) \o <<>> = Content(s)
    BY <2>5
  <2>7. ListedTo(b, f, n + 1) \o AddedTo(b, f, n + 1) = Content(s) \o <<>>
    BY <1>6, <2>3, <2>4
  <2> QED
    BY <1>4, <2>2, <2>6, <2>7
<1>9. CASE Taken /\ f = Opt.field
  <2>1. t = Opt.slice /\ memory' = memory
    BY <1>9, FormSlices DEF Taken
  <2> QED
    BY <1>4, <1>5, <1>7, <1>9, <2>1 DEF Content
<1>10. ASSUME NEW items_1 \in Seq(Elems), Owning(items_1), f = Opt.field PROVE grown = items_1
  <2>1. t = OwnSlice(f, items_1)
    BY <1>10, FormSlices
  <2>2. memory'[<<b, f>>] = items_1
    BY <1>1, <1>10 DEF Owning, OwnMemory, Cells, Own
  <2> QED
    BY <2>1, <2>2, SubSeqFull DEF OwnSlice
<1>11. CASE Copied /\ f = Opt.field
  <2>1. grown = Content(Opt.slice)
    BY <1>10, <1>11, OptTypes DEF Copied
  <2> QED
    BY <1>4, <1>5, <1>7, <1>11, <2>1
<1>12. ASSUME Regrown \/ Extended, f = Opt.field
       PROVE  ListedTo(b, f, n + 1)' \o AddedTo(b, f, n + 1) = Content(s) \o items
  <2>1. Part(b, f, n, 0) = items
    <3>1. Opt.op \in {"globs", "sources"} /\ Opt.field = f
      BY <1>12 DEF Regrown, Extended
    <3>2. n > 0
      BY <1>1
    <3> QED
      BY <1>1, <3>1, <3>2 DEF Part
  <2>2. n \notin Deciding(b, f)
    BY <1>5, <1>12 DEF Taken, Copied, Regrown, Extended
  <2> QED
    BY <1>4, <1>6, <2>1, <2>2
<1>13. CASE Regrown /\ f = Opt.field
  <2>1. Content(s) \o items \in Seq(Elems) /\ Owning(Content(s) \o items)
    BY <1>1, <1>13, GrownType DEF Regrown
  <2>2. grown = Content(s) \o items
    BY <1>10, <1>13, <2>1
  <2> QED
    BY <1>12, <1>13, <2>2
<1>14. CASE Extended /\ f = Opt.field
  <2>1. t.cell = s.cell /\ t.len = s.len + Len(items)
    BY <1>1, <1>14, FormSlices
  <2> DEFINE a == s.cell
  <2>2. a \in Cells /\ memory[a] \in Seq(Elems) /\ memory'[a] \in Seq(Elems)
    BY <1>1, ApplyMemory DEF Slice
  <2>3. s.len + Len(items) <= Len(memory[a])
    BY <1>1, <1>14 DEF Extended, HasRoom
  <2>4. memory'[a] = [q \in DOMAIN memory[a] |->
                        IF q \in (s.len + 1)..(s.len + Len(items)) THEN items[q - s.len]
                                                                   ELSE memory[a][q]]
    BY <1>1, <1>14, <2>2 DEF Extended
  <2>5. DOMAIN memory[a] = 1..Len(memory[a]) /\ DOMAIN memory'[a] = 1..Len(memory'[a])
        /\ Len(memory[a]) \in Nat /\ Len(memory'[a]) \in Nat
    <3>1. \A q \in Seq(Elems) : DOMAIN q = 1..Len(q) /\ Len(q) \in Nat
      OBVIOUS
    <3> QED
      BY <2>2, <3>1, Zenon
  <2> HIDE DEF s, t, items, a
  <2>6. /\ Len(memory'[a]) = Len(memory[a])
        /\ \A q \in 1..Len(memory[a]) :
             memory'[a][q] = IF q \in (s.len + 1)..(s.len + Len(items)) THEN items[q - s.len]
                                                                       ELSE memory[a][q]
    <3>1. DOMAIN memory'[a] = DOMAIN memory[a]
      BY <2>4, Zenon
    <3>2. Len(memory'[a]) = Len(memory[a])
      BY <2>5, <3>1
    <3> QED
      BY <2>4, <2>5, <3>2, Zenon
  <2>7. ASSUME NEW m, NEW p, m = memory[a], p = memory'[a]
        PROVE  SubSeq(p, 1, s.len + Len(items)) = SubSeq(m, 1, s.len) \o items
    <3>1. s.len \in Nat /\ s.len <= Len(memory[a]) /\ items \in Seq(Elems)
      BY <1>1 DEF a
    <3>2. m \in Seq(Elems) /\ p \in Seq(Elems) /\ Len(p) = Len(m)
          /\ s.len + Len(items) <= Len(m) /\ s.len <= Len(m)
      BY <2>2, <2>3, <2>6, <2>7, <3>1
    <3>3. \A q \in 1..Len(m) :
            p[q] = IF q \in (s.len + 1)..(s.len + Len(items)) THEN items[q - s.len] ELSE m[q]
      BY <2>6, <2>7, Zenon
    <3>4. Extending(p, m, s.len, items)
      BY <3>2, <3>3 DEF Extending
    <3> QED
      BY ONLY <3>1, <3>2, <3>4, ExtendedContent
  <2>8. grown = Content(s) \o items
    BY <2>1, <2>7 DEF Content, a
  <2>9. ListedTo(b, f, n + 1)' \o AddedTo(b, f, n + 1) = Content(s) \o items
    BY <1>12, <1>14
  <2> QED
    BY <2>8, <2>9 DEF t
<1> QED
  BY <1>8, <1>9, <1>11, <1>13, <1>14 DEF ApplyForm

\* What depends on the options given and on what the arrays hold.
LEMMA SlicesSame ==
  ASSUME NEW b \in Loaders, NEW n \in Nat, UNCHANGED <<given, memory>>, opts'[b] = opts[b]
  PROVE  SlicesTo(b, n)' <=> SlicesTo(b, n)
BY DEF SlicesTo, ListedTo, AddedTo, Parts, Part, LastTo, DecidingTo, Deciding, OptionsOf, Content

LEMMA SlicesNext ==
  StateInv /\ KeptInv /\ UnbuiltInv /\ SlicesInv /\ [OptionsNext]_optionVars => SlicesInv'
<1> SUFFICES ASSUME StateInv, KeptInv, UnbuiltInv, SlicesInv, [OptionsNext]_optionVars
             PROVE  SlicesInv'
  OBVIOUS
<1>0. at' \in [Loaders -> Nat]
  BY StateNext DEF StateInv, OptionsTypeOK
<1> SUFFICES ASSUME NEW b \in Loaders, NEW n \in Nat, n = at'[b], n # 0, Steady(b)'
             PROVE  SlicesTo(b, n)'
  BY <1>0 DEF SlicesInv
<1>1. /\ at \in [Loaders -> Nat] /\ opts \in [Loaders -> OptionsRecord]
      /\ latest \in Loaders \cup {Blank} /\ writes \in Nat
  BY BoundAssumption DEF StateInv, OptionsTypeOK
<1>2. at[b] # 0 /\ Steady(b) => SlicesTo(b, at[b])
  BY DEF SlicesInv
<1>3. CASE UNCHANGED optionVars
  <2>1. Steady(b)
    <3>1. UNCHANGED <<given, latest, memory, writes>>
      BY <1>3 DEF optionVars
    <3>2. Steady(b)' = Steady(b)
      BY ONLY <3>1 DEF Steady, NoGlobs, Aliased, SlicesOf, OptionsOf
    <3> QED
      BY <3>2
  <2> QED
    BY <1>2, <1>3, <2>1, SlicesSame DEF optionVars
<1>4. ASSUME NEW c \in Loaders, New(c), c # b PROVE SlicesTo(b, n)'
  <2>1. n = at[b] /\ UNCHANGED <<given, opts, memory, writes>> /\ latest' = c
    BY <1>1, <1>4 DEF New
  <2>2. Steady(b)
    BY <1>4, <2>1 DEF Steady, NoGlobs, OptionsOf
  <2> QED
    BY <1>2, <2>1, <2>2, SlicesSame
<1>5. CASE New(b)
  <2>1. at[b] = 0 /\ n = 1 /\ UNCHANGED <<given, opts, memory, writes>>
    BY <1>1, <1>5 DEF New
  <2>2. opts[b] = NewOptions(b) /\ \A f \in SliceFields : memory[<<b, f>>] = OwnDefault(f)
    BY <2>1 DEF UnbuiltInv
  <2>3. ASSUME NEW f \in SliceFields
        PROVE  Content(opts[b].slices[f]) = ListedTo(b, f, 1) \o AddedTo(b, f, 1)
    <3>1. DecidingTo(b, f, 1) = {}
      BY DecidingType DEF DecidingTo
    <3>2. LastTo(b, f, 1) = 0
      BY <3>1, LastToIs
    <3>3. ListedTo(b, f, 1) = OwnDefault(f) /\ OwnDefault(f) \in Seq(Elems)
      BY <3>2, DefaultAssumption DEF ListedTo, OwnDefault
    <3>4. AddedTo(b, f, 1) = <<>>
      <4>1. 1 \in 1..(Len(given[b]) + 1) /\ 1 - 1 = 0
        BY GivenTypes DEF StateInv
      <4>2. /\ Parts(b, f, 1) \in Seq(Seq(Elems)) /\ Len(Parts(b, f, 1)) = 0
        BY <4>1, PartsType
      <4>3. \A i \in 1..0 : Parts(b, f, 1)[i] = <<>>
        OBVIOUS
      <4> QED
        BY <4>2, <4>3, FlattenEmpty DEF AddedTo
    <3>5. Content(opts[b].slices[f]) = OwnDefault(f)
      BY <2>2, <3>3, SubSeqFull DEF NewOptions, Content
    <3> QED
      BY <3>3, <3>4, <3>5
  <2>4. SlicesTo(b, 1)
    BY <2>3 DEF SlicesTo
  <2> QED
    BY <2>1, <2>4, SlicesSame
<1>6. CASE ApplyOption
  <2>1. Busy /\ ApplyForm /\ latest \in Loaders /\ at[latest] \in 1..Len(given[latest])
    BY <1>6, ApplyForms, OptTypes
  <2>2. Steady(b) /\ given' = given
    BY <2>1, SteadyBefore DEF ApplyForm
  <2>3. CASE b = latest
    <3>1. PICK m \in Nat : m = at[b]
      BY <1>1
    <3>2. n = m + 1 /\ m # 0
      BY <1>1, <2>1, <2>3, <3>1 DEF ApplyForm
    <3>3. SlicesTo(b, m)
      BY <1>2, <2>2, <3>1, <3>2
    <3>4. \A f \in SliceFields :
            SubSeq(memory'[opts'[b].slices[f].cell], 1, opts'[b].slices[f].len)
              = ListedTo(b, f, n)' \o AddedTo(b, f, n)
      BY <2>1, <2>2, <2>3, <3>1, <3>2, <3>3, SlicesForm
    <3>5. \A f \in SliceFields : AddedTo(b, f, n)' = AddedTo(b, f, n)
      BY <2>2 DEF AddedTo, Parts, Part, LastTo, DecidingTo, Deciding, OptionsOf
    <3> QED
      BY <3>4, <3>5 DEF SlicesTo, Content
  <2>4. CASE b # latest
    <3>1. n = at[b] /\ opts'[b] = opts[b]
      BY <1>1, <2>1, <2>4 DEF ApplyForm
    <3>2. SlicesTo(b, n)
      BY <1>2, <2>2, <3>1
    <3>3. \A f \in SliceFields : /\ ListedTo(b, f, n)' = ListedTo(b, f, n)
                                 /\ AddedTo(b, f, n)' = AddedTo(b, f, n)
      BY <2>1, <2>2, ListedStays
         DEF AddedTo, Parts, Part, LastTo, DecidingTo, Deciding, OptionsOf
    <3>4. \A f \in SliceFields :
            SubSeq(memory'[opts[b].slices[f].cell], 1, opts[b].slices[f].len)
              = Content(opts[b].slices[f])
      BY <2>1, <2>2, <2>4, SlicesStay
    <3> QED
      BY <3>1, <3>2, <3>3, <3>4 DEF SlicesTo, Content
  <2> QED
    BY <2>3, <2>4
<1>7. CASE CallerStep
  <2>1. latest' = Blank /\ writes' = writes + 1
    BY <1>7 DEF CallerStep, CallerWrites
  <2>2. writes' # 0 /\ latest' # b
    BY <1>1, <2>1, BlankAssumption
  <2> QED
    BY <2>2 DEF Steady
<1> QED
  BY <1>3, <1>4, <1>5, <1>6, <1>7 DEF OptionsNext

LEMMA SlicesInvariant == OptionsSpec => [](StateInv /\ SlicesInv)
<1>1. OptionsInit => StateInv /\ KeptInv /\ UnbuiltInv /\ SlicesInv
  <2> SUFFICES ASSUME OptionsInit PROVE KeptInv /\ UnbuiltInv /\ SlicesInv
    BY StateInit
  <2>1. \A b \in Loaders : at[b] = 0 /\ opts[b] = NewOptions(b)
    BY DEF OptionsInit
  <2>2. \A b \in Loaders, f \in SliceFields : memory[<<b, f>>] = OwnDefault(f)
    <3> SUFFICES ASSUME NEW b \in Loaders, NEW f \in SliceFields
                 PROVE  memory[<<b, f>>] = OwnDefault(f)
      OBVIOUS
    <3>1. <<b, f>> \in Cells /\ <<b, f>> \notin Arrays /\ <<b, f>>[2] = f
      BY ArrayAssumption DEF Cells, Own
    <3> QED
      BY <3>1 DEF OptionsInit
  <2>3. KeptInv
    BY DEF OptionsInit, KeptInv, NewOptions
  <2> QED
    BY <2>1, <2>2, <2>3 DEF UnbuiltInv, SlicesInv
<1>2. /\ StateInv /\ KeptInv /\ UnbuiltInv /\ SlicesInv /\ [OptionsNext]_optionVars
      => (StateInv /\ KeptInv /\ UnbuiltInv /\ SlicesInv)'
  BY StateNext, KeptNext, UnbuiltNext, SlicesNext
<1> QED
  BY <1>1, <1>2, PTL DEF OptionsSpec
-----------------------------------------------------------------------------
(* What New makes.                                                           *)

\* A loader that is built and steady is as its options say.
LEMMA BuiltIsExpected ==
  ASSUME StateInv, ValuesInv, SlicesInv, NEW b \in Loaders, Built(b), Steady(b)
  PROVE  Settings(b) = Expected(b)
<1>1. at[b] # 0 /\ opts[b] \in OptionsRecord
  <2>1. at[b] > Len(given[b]) /\ Len(given[b]) \in Nat /\ at[b] \in Nat
    BY GivenTypes DEF Built, StateInv, OptionsTypeOK
  <2> QED
    BY <2>1 DEF StateInv, OptionsTypeOK
<1>2. ValuesTo(b, opts[b], at[b]) /\ SlicesTo(b, at[b])
  BY <1>1 DEF ValuesInv, SlicesInv
<1>3. \A f : LastTo(b, f, at[b]) = Decided(b, f) /\ AddedTo(b, f, at[b]) = Added(b, f)
  BY LastToBuilt, AddedBuilt
<1>4. /\ \A f, default : ValueTo(b, f, at[b], default) = SetTo(b, f, default)
      /\ \A f \in SliceFields : ListedTo(b, f, at[b]) = Listed(b, f)
  BY <1>3 DEF ValueTo, SetTo, ListedTo, Listed
<1> DEFINE S == Settings(b)
           X == Expected(b)
<1>5. /\ S.values = opts[b].values
      /\ S.slices = [f \in SliceFields |-> Content(opts[b].slices[f])]
      /\ S.hasDefaults = opts[b].hasDefaults
      /\ S.typedDefaults = opts[b].typedDefaults
      /\ S.typedDefaultsErr = opts[b].typedDefaultsErr
      /\ S.fileParsers = opts[b].fileParsers
      /\ S = [values |-> S.values, slices |-> S.slices, hasDefaults |-> S.hasDefaults,
              typedDefaults |-> S.typedDefaults, typedDefaultsErr |-> S.typedDefaultsErr,
              fileParsers |-> S.fileParsers]
  BY <1>1 DEF Settings, OptionsRecord
<1>6. S.values = X.values
  <2>1. \A f \in Fields : opts[b].values[f] = SetTo(b, f, "default")
    BY <1>2, <1>4 DEF ValuesTo
  <2>2. opts[b].values \in [Fields -> Values \cup {Blank, "default"}]
    BY <1>1 DEF OptionsRecord
  <2> QED
    BY <1>5, <2>1, <2>2 DEF Expected
<1>7. S.slices = X.slices
  BY <1>2, <1>3, <1>4, <1>5 DEF SlicesTo, Expected
<1>8. S.hasDefaults = X.hasDefaults
  <2>1. opts[b].hasDefaults \in BOOLEAN
    BY <1>1 DEF OptionsRecord
  <2>2. opts[b].hasDefaults <=> Decided(b, "defaults") # 0
    BY <1>2, <1>3 DEF ValuesTo
  <2>3. X.hasDefaults = (Decided(b, "defaults") # 0)
    BY DEF Expected
  <2> QED
    BY <1>5, <2>1, <2>2, <2>3
<1>9. S.typedDefaults = X.typedDefaults
  BY <1>2, <1>4, <1>5 DEF ValuesTo, Expected
<1>10. S.typedDefaultsErr = X.typedDefaultsErr
  <2>1. opts[b].typedDefaultsErr \in BOOLEAN
    BY <1>1 DEF OptionsRecord
  <2>2. opts[b].typedDefaultsErr <=> /\ Decided(b, "typedDefaults") # 0
                                     /\ SetTo(b, "typedDefaults", Blank) = Blank
    BY <1>2, <1>3, <1>4 DEF ValuesTo
  <2>3. X.typedDefaultsErr = (/\ Decided(b, "typedDefaults") # 0
                              /\ SetTo(b, "typedDefaults", Blank) = Blank)
    BY DEF Expected
  <2> QED
    BY <1>5, <2>1, <2>2, <2>3
<1>11. S.fileParsers = X.fileParsers
  <2>1. \A e \in Extensions : opts[b].fileParsers[e] = SetTo(b, e, Blank)
    BY <1>2, <1>4 DEF ValuesTo
  <2>2. opts[b].fileParsers \in [Extensions -> Values \cup {Blank}]
    BY <1>1 DEF OptionsRecord
  <2> QED
    BY <1>5, <2>1, <2>2 DEF Expected
<1>12. X = [values |-> X.values, slices |-> X.slices, hasDefaults |-> X.hasDefaults,
            typedDefaults |-> X.typedDefaults, typedDefaultsErr |-> X.typedDefaultsErr,
            fileParsers |-> X.fileParsers]
  BY DEF Expected
<1> HIDE DEF S, X
<1>13. S = X
  BY <1>5, <1>6, <1>7, <1>8, <1>9, <1>10, <1>11, <1>12
<1> QED
  BY <1>13 DEF S, X

\* What New returns has of each field what the last option that passes
\* something for it made it, and then the matches and the sources that options
\* add, in order, for all options in any order and any arrays they share.
THEOREM OptionsBuildAsGiven == LoadSpec => []BuiltAsGiven
<1>1. StateInv /\ ValuesInv /\ SlicesInv => BuiltAsGiven
  <2> SUFFICES ASSUME StateInv, ValuesInv, SlicesInv, latest # Blank, Built(latest),
                      ~Aliased(latest)
               PROVE  Settings(latest) = Expected(latest)
    BY DEF BuiltAsGiven
  <2>1. latest \in Loaders /\ Steady(latest)
    BY DEF StateInv, OptionsTypeOK, Steady
  <2> QED
    BY <2>1, BuiltIsExpected
<1> QED
  BY <1>1, LoadIsOptions, ValuesInvariant, SlicesInvariant, PTL
-----------------------------------------------------------------------------
(* The order in which fx collects the options.                               *)

\* Every place of a sequence has in a rearrangement a place with the same.
LEMMA RearrangedOccurs ==
  ASSUME NEW E, NEW s \in Seq(E), NEW t \in Seq(E), Rearranged(s, t)
  PROVE  \A i \in 1..Len(s) : \E j \in 1..Len(t) : t[j] = s[i]
<1> SUFFICES ASSUME NEW i \in 1..Len(s), \A j \in 1..Len(t) : t[j] # s[i] PROVE FALSE
  OBVIOUS
<1>1. /\ DOMAIN s = 1..Len(s) /\ DOMAIN t = 1..Len(t)
      /\ Len(s) \in Nat
  OBVIOUS
<1>2. {j \in DOMAIN t : t[j] = s[i]} = {}
  BY <1>1
<1>3. Counts(t, s[i]) = 0
  BY <1>2, FS_EmptySet DEF Counts
<1>4. IsFiniteSet(1..Len(s))
  BY <1>1, FS_Interval
<1>5. IsFiniteSet({j \in DOMAIN s : s[j] = s[i]})
  BY <1>1, <1>4, FS_Subset
<1>6. {j \in DOMAIN s : s[j] = s[i]} # {}
  BY <1>1
<1> QED
  BY <1>1, <1>3, <1>5, <1>6, FS_EmptySet DEF Rearranged, Counts

\* And every place of the rearrangement is one of those.
LEMMA RearrangedCovers ==
  ASSUME NEW E, NEW s \in Seq(E), NEW t \in Seq(E), Rearranged(s, t)
  PROVE  \A j \in 1..Len(t) : \E i \in 1..Len(s) : s[i] = t[j]
<1>1. /\ DOMAIN s = 1..Len(s) /\ DOMAIN t = 1..Len(t) /\ Len(t) = Len(s)
      /\ Len(s) \in Nat
  BY DEF Rearranged
<1>2. IsFiniteSet(1..Len(s)) /\ Cardinality(1..Len(s)) = Len(s)
  <2>1. 1 \in Int /\ Len(s) \in Int
    BY <1>1
  <2>2. /\ IsFiniteSet(1..Len(s))
        /\ Cardinality(1..Len(s)) = IF 1 > Len(s) THEN 0 ELSE Len(s) - 1 + 1
    BY <2>1, FS_Interval
  <2> QED
    BY <1>1, <2>2
<1> DEFINE First(m) == {s[i] : i \in {h \in 1..Len(s) : h <= m}}
           Places(r, m) == {i \in 1..Len(s) : r[i] \in First(m)}
           Same(r, x) == {i \in 1..Len(s) : r[i] = x}
           S == {m \in Nat : Cardinality(Places(s, m)) = Cardinality(Places(t, m))}
<1>3. \A r, m : IsFiniteSet(Places(r, m)) /\ Places(r, m) \in SUBSET (1..Len(s))
  BY <1>2, FS_Subset
<1>4. \A r, x : IsFiniteSet(Same(r, x))
  BY <1>2, FS_Subset
<1>5. 0 \in S
  <2>1. First(0) = {}
    OBVIOUS
  <2>2. Places(s, 0) = {} /\ Places(t, 0) = {}
    BY <2>1
  <2> QED
    BY <2>2
<1>6. ASSUME NEW m \in Nat, m \in S PROVE m + 1 \in S
  <2>1. CASE m + 1 \notin 1..Len(s)
    <3>1. First(m + 1) = First(m)
      BY <1>1, <2>1
    <3>2. Places(s, m + 1) = Places(s, m) /\ Places(t, m + 1) = Places(t, m)
      BY <3>1
    <3> HIDE DEF Places
    <3> QED
      BY <1>6, <3>2
  <2>2. CASE m + 1 \in 1..Len(s)
    <3> DEFINE x == s[m + 1]
    <3>1. First(m + 1) = First(m) \cup {x}
      BY <1>1, <2>2
    <3>2. CASE x \in First(m)
      <4>1. First(m + 1) = First(m)
        BY <3>1, <3>2
      <4>2. Places(s, m + 1) = Places(s, m) /\ Places(t, m + 1) = Places(t, m)
        BY <4>1
      <4> HIDE DEF Places
      <4> QED
        BY <1>6, <4>2
    <3>3. CASE x \notin First(m)
      <4>1. ASSUME NEW r
            PROVE  Cardinality(Places(r, m + 1))
                     = Cardinality(Places(r, m)) + Cardinality(Same(r, x))
        <5>1. Places(r, m + 1) = Places(r, m) \cup Same(r, x)
          BY <3>1
        <5>2. Places(r, m) \cap Same(r, x) = {}
          BY <3>3
        <5> HIDE DEF Places, Same, x
        <5>3. Cardinality({}) = 0 /\ Cardinality(Places(r, m)) \in Nat
              /\ Cardinality(Same(r, x)) \in Nat
          BY <1>3, <1>4, FS_EmptySet, FS_CardinalityType, Zenon
        <5>4. IsFiniteSet(Places(r, m)) /\ IsFiniteSet(Same(r, x))
          BY <1>3, <1>4
        <5>5. Cardinality(Places(r, m) \cup Same(r, x))
                = Cardinality(Places(r, m)) + Cardinality(Same(r, x))
                    - Cardinality(Places(r, m) \cap Same(r, x))
          BY <5>4, FS_Union
        <5> QED
          <6>1. Cardinality(Places(r, m) \cap Same(r, x)) = 0
            BY <5>2, <5>3, Zenon
          <6>2. Cardinality(Places(r, m + 1)) = Cardinality(Places(r, m) \cup Same(r, x))
            BY <5>1, Zenon
          <6>3. \A a, b \in Nat : a + b - 0 = a + b
            OBVIOUS
          <6> QED
            BY <5>3, <5>5, <6>1, <6>2, <6>3
      <4>2. Cardinality(Same(s, x)) = Cardinality(Same(t, x))
        BY <1>1, <2>2 DEF Rearranged, Counts
      <4> HIDE DEF Places, Same, x
      <4> QED
        BY <1>6, <4>1, <4>2
    <3> QED
      BY <3>2, <3>3
  <2> QED
    BY <2>1, <2>2
<1>7. Len(s) \in S
  <2> HIDE DEF S
  <2>1. S \in SUBSET Nat
    BY DEF S
  <2> QED
    BY <1>1, <1>5, <1>6, <2>1, NatSetInduction
<1>8. Places(s, Len(s)) = 1..Len(s)
  BY <1>1
<1>9. Cardinality(Places(t, Len(s))) = Cardinality(1..Len(s))
  BY <1>7, <1>8
<1>10. Places(t, Len(s)) = 1..Len(s)
  <2> HIDE DEF Places
  <2> QED
    BY <1>2, <1>3, <1>9, FS_Subset
<1> QED
  BY <1>1, <1>10

\* Among independent options the one that decides about a field is alone.
LEMMA DecidesAlone ==
  ASSUME StateInv, NEW b \in Loaders, Built(b), Independent(b), NEW f
  PROVE  /\ \A i \in Deciding(b, f) : Decided(b, f) = i
         /\ Decided(b, f) # 0 => Decided(b, f) \in Deciding(b, f)
<1>1. at[b] = Len(given[b]) + 1 /\ Len(given[b]) \in Nat /\ at[b] \in Nat
      /\ DOMAIN given[b] = 1..Len(given[b])
  BY GivenTypes DEF StateInv, GivenInv, OptionsTypeOK, Built
<1>2. Decided(b, f) = LastTo(b, f, at[b])
  BY LastToBuilt
<1>3. Decided(b, f) # 0 => Decided(b, f) \in Deciding(b, f)
  BY <1>1, <1>2, LastToIs DEF DecidingTo
<1>4. ASSUME NEW i \in Deciding(b, f) PROVE Decided(b, f) = i
  <2>1. i \in DecidingTo(b, f, at[b]) /\ i \in Nat /\ i # 0 /\ i \in DOMAIN given[b]
        /\ given[b][i].field = f /\ given[b][i].op # "nil"
    <3>1. i \in 1..Len(given[b]) /\ i \in Nat /\ i # 0 /\ given[b][i].field = f
      BY DecidingType
    <3>2. given[b][i].op # "nil"
      BY DEF Deciding
    <3> QED
      BY <1>1, <3>1, <3>2 DEF DecidingTo
  <2>2. Decided(b, f) # 0
    <3>1. i <= Decided(b, f) /\ Decided(b, f) \in Nat
      BY <1>1, <1>2, <2>1, LastToIs
    <3> QED
      BY <2>1, <3>1
  <2>3. Decided(b, f) \in DOMAIN given[b] /\ given[b][Decided(b, f)].field = f
    BY <1>1, <1>3, <2>2, DecidingType
  <2> QED
    BY <2>1, <2>3 DEF Independent
<1> QED
  BY <1>3, <1>4

\* What the option that adds to a field adds is all, if they are independent.
Adds(b, f, k) == given[b][k].op \in {"globs", "sources"} /\ given[b][k].field = f
LEMMA AddsAlone ==
  ASSUME StateInv, NEW b \in Loaders, Built(b), Independent(b), NEW f
  PROVE  /\ \A k \in 1..Len(given[b]) :
              Adds(b, f, k) => Added(b, f) = NonNil(given[b][k].items)
         /\ (\A k \in 1..Len(given[b]) : ~Adds(b, f, k)) => Added(b, f) = <<>>
<1>1. /\ Len(given[b]) \in Nat /\ DOMAIN given[b] = 1..Len(given[b])
      /\ at[b] \in 1..(Len(given[b]) + 1) /\ at[b] - 1 = Len(given[b]) /\ at[b] \in Nat
  <2>1. given[b] \in Seq(Option) /\ at[b] = Len(given[b]) + 1
    BY GivenTypes DEF StateInv, GivenInv, OptionsTypeOK, Built
  <2> QED
    BY <2>1
<1> DEFINE P == Parts(b, f, at[b])
           m == LastTo(b, f, at[b])
<1>2. /\ P \in Seq(Seq(Elems)) /\ Len(P) = Len(given[b])
      /\ \A i \in 1..Len(given[b]) : P[i] = Part(b, f, i, m)
  BY <1>1, PartsType
<1>3. Added(b, f) = FlattenSeq(P)
  BY AddedBuilt DEF AddedTo
<1>4. ASSUME NEW k \in 1..Len(given[b]), Adds(b, f, k)
      PROVE  Added(b, f) = NonNil(given[b][k].items)
  <2>1. \A i \in 1..Len(given[b]) : i # k => given[b][i].field # f
    BY <1>1, <1>4 DEF Independent, Adds
  <2>2. k \notin Deciding(b, f)
    BY <1>4 DEF Deciding, Adds
  <2>3. Deciding(b, f) = {}
    BY <2>1, <2>2, DecidingType
  <2>4. m = 0
    BY <1>1, <2>3, LastToIs DEF DecidingTo
  <2> HIDE DEF P, m
  <2>5. \A i \in 1..Len(P) : i # k => P[i] = <<>>
    BY <1>2, <2>1 DEF Part
  <2>6. k > 0
    BY <1>1
  <2>7. P[k] = NonNil(given[b][k].items)
    BY <1>2, <1>4, <2>4, <2>6 DEF Part, Adds
  <2>8. FlattenSeq(P) = P[k]
    BY <1>2, <2>5, FlattenOne
  <2> QED
    BY <1>3, <2>7, <2>8
<1>5. ASSUME \A k \in 1..Len(given[b]) : ~Adds(b, f, k) PROVE Added(b, f) = <<>>
  <2> HIDE DEF P, m
  <2>1. \A i \in 1..Len(P) : P[i] = <<>>
    BY <1>2, <1>5 DEF Part, Adds
  <2> QED
    BY <1>2, <1>3, <2>1, FlattenEmpty
<1> QED
  BY <1>4, <1>5

\* Loaders of the same independent options are to be alike.
LEMMA ExpectedAlike ==
  ASSUME StateInv, NEW b \in Loaders, NEW c \in Loaders, Built(b), Built(c),
         Independent(b), Independent(c), Rearranged(given[b], given[c])
  PROVE  Expected(b) = Expected(c)
<1>1. given[b] \in Seq(Option) /\ given[c] \in Seq(Option)
  BY GivenTypes DEF StateInv
<1>2. \A i \in 1..Len(given[b]) : \E j \in 1..Len(given[c]) : given[c][j] = given[b][i]
  BY <1>1, RearrangedOccurs
<1>3. \A j \in 1..Len(given[c]) : \E i \in 1..Len(given[b]) : given[b][i] = given[c][j]
  BY <1>1, RearrangedCovers
<1>4. ASSUME NEW d \in Loaders, NEW e \in Loaders, Built(d), Built(e),
             Independent(d), Independent(e), NEW f,
             \A i \in 1..Len(given[d]) : \E j \in 1..Len(given[e]) : given[e][j] = given[d][i],
             Decided(d, f) # 0
      PROVE  Decided(e, f) # 0 /\ given[e][Decided(e, f)] = given[d][Decided(d, f)]
  <2>1. Decided(d, f) \in Deciding(d, f) /\ Decided(d, f) \in 1..Len(given[d])
    BY <1>4, DecidesAlone, DecidingType
  <2>2. PICK j \in 1..Len(given[e]) : given[e][j] = given[d][Decided(d, f)]
    BY <1>4, <2>1
  <2>3. j \in Deciding(e, f)
    <3>1. DOMAIN given[e] = 1..Len(given[e])
      BY GivenTypes DEF StateInv
    <3> QED
      BY <2>1, <2>2, <3>1 DEF Deciding, OptionsOf
  <2> QED
    BY <1>4, <2>2, <2>3, DecidesAlone, DecidingType
<1>5. ASSUME NEW f
      PROVE  /\ Decided(b, f) = 0 <=> Decided(c, f) = 0
             /\ Decided(b, f) # 0 => given[b][Decided(b, f)] = given[c][Decided(c, f)]
  BY <1>2, <1>3, <1>4
<1>6. ASSUME NEW f PROVE Added(b, f) = Added(c, f)
  <2>1. CASE \E k \in 1..Len(given[b]) : Adds(b, f, k)
    <3>1. PICK k \in 1..Len(given[b]) : Adds(b, f, k)
      BY <2>1
    <3>2. PICK j \in 1..Len(given[c]) : given[c][j] = given[b][k]
      BY <1>2
    <3>3. Adds(c, f, j)
      BY <3>1, <3>2 DEF Adds
    <3> QED
      BY <3>1, <3>2, <3>3, AddsAlone
  <2>2. CASE ~ \E k \in 1..Len(given[b]) : Adds(b, f, k)
    <3>1. \A j \in 1..Len(given[c]) : ~Adds(c, f, j)
      BY <1>3, <2>2 DEF Adds
    <3> QED
      BY <2>2, <3>1, AddsAlone
  <2> QED
    BY <2>1, <2>2
<1>7. /\ \A f, default : SetTo(b, f, default) = SetTo(c, f, default)
      /\ \A f \in SliceFields : Listed(b, f) \o Added(b, f) = Listed(c, f) \o Added(c, f)
      /\ \A f : (Decided(b, f) # 0) = (Decided(c, f) # 0)
  BY <1>5, <1>6 DEF SetTo, Listed
<1>8. [values |-> [f \in Fields |-> SetTo(b, f, "default")],
       slices |-> [f \in SliceFields |-> Listed(b, f) \o Added(b, f)],
       hasDefaults |-> Decided(b, "defaults") # 0,
       typedDefaults |-> SetTo(b, "typedDefaults", Blank),
       typedDefaultsErr |->
         Decided(b, "typedDefaults") # 0 /\ SetTo(b, "typedDefaults", Blank) = Blank,
       fileParsers |-> [e \in Extensions |-> SetTo(b, e, Blank)]]
     = [values |-> [f \in Fields |-> SetTo(c, f, "default")],
        slices |-> [f \in SliceFields |-> Listed(c, f) \o Added(c, f)],
        hasDefaults |-> Decided(c, "defaults") # 0,
        typedDefaults |-> SetTo(c, "typedDefaults", Blank),
        typedDefaultsErr |->
          Decided(c, "typedDefaults") # 0 /\ SetTo(c, "typedDefaults", Blank) = Blank,
        fileParsers |-> [e \in Extensions |-> SetTo(c, e, Blank)]]
  BY <1>7
<1> QED
  BY <1>8 DEF Expected

\* Two loaders of the same options in any two orders are the same, whatever the
\* options are, if no two of them are about one field and nobody writes.
THEOREM FxOrderIsImmaterial == LoadSpec => []FxOrderDoesNotMatter
<1>1. StateInv /\ ValuesInv /\ SlicesInv => FxOrderDoesNotMatter
  <2> SUFFICES ASSUME StateInv, ValuesInv, SlicesInv, NEW b \in Loaders, NEW c \in Loaders,
                      Built(b), Built(c), writes = 0, Rearranged(given[b], given[c]),
                      \A d \in Loaders : Independent(d)
               PROVE  Settings(b) = Settings(c)
    BY DEF FxOrderDoesNotMatter
  <2>1. NoGlobs
    BY DEF NoGlobs, OptionsOf, Independent
  <2>2. Settings(b) = Expected(b) /\ Settings(c) = Expected(c)
    BY <2>1, BuiltIsExpected DEF Steady
  <2> QED
    BY <2>2, ExpectedAlike
<1> QED
  BY <1>1, LoadIsOptions, ValuesInvariant, SlicesInvariant, PTL
=============================================================================
