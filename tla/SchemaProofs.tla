---------------------------- MODULE SchemaProofs -----------------------------
(* Theorems about Schema and SchemaFlags: for any struct types, any tags and *)
(* overrides, any flag set, names and normalize function, and any operations *)
(* on the flags.                                                             *)
EXTENDS SchemaFlags, DataLemmas, FiniteSetTheorems, TLAPS
-----------------------------------------------------------------------------
(* The walk.                                                                 *)

\* The bindings are a sequence; their paths are those seen, each once.
PathsInv ==
  /\ \E S : bindings \in Seq(S)
  /\ \A n \in 1..Len(bindings) :
       bindings[n].path \in seen /\ bindings[n].load \in seenLoad
  /\ \A m, n \in 1..Len(bindings) :
       bindings[m].path = bindings[n].path \/ bindings[m].load = bindings[n].load => m = n

\* The types that are being walked are those of the calls, each once.
StackInv ==
  /\ types \in [Types -> Seq(Field)]
  /\ pc \in {"walk", "check"} \cup Results
  /\ stack \in Seq(Frame) /\ (pc = "walk" => stack # <<>>)
  /\ visiting = {stack[i].type : i \in 1..Len(stack)}
  /\ \A i, j \in 1..Len(stack) : stack[i].type = stack[j].type => i = j

LEMMA NewBindingPaths ==
  /\ Zeroed(Overridden(NewBinding)).path = PathHere
  /\ Zeroed(Overridden(NewBinding)).load = LoadHere
BY DEF Zeroed, Overridden, NewBinding

LEMMA AppendIs ==
  ASSUME NEW S, NEW s \in Seq(S), NEW x
  PROVE  /\ Append(s, x) \in Seq(S \cup {x})
         /\ Len(Append(s, x)) = Len(s) + 1 /\ Len(s) \in Nat
         /\ \A i \in 1..Len(s) : Append(s, x)[i] = s[i]
         /\ Append(s, x)[Len(s) + 1] = x
<1>1. s \in Seq(S \cup {x})
  OBVIOUS
<1> QED
  BY <1>1

LEMMA PathsNext == PathsInv /\ [Next]_schemaVars => PathsInv'
<1> SUFFICES ASSUME PathsInv, [Next]_schemaVars PROVE PathsInv'
  OBVIOUS
<1>1. CASE UNCHANGED <<bindings, seen, seenLoad>>
  BY <1>1 DEF PathsInv
<1>2. CASE AddLeaf
  <2> DEFINE b == Zeroed(Overridden(NewBinding))
  <2>1. PICK S : bindings \in Seq(S)
    BY DEF PathsInv
  <2>2. /\ bindings' = Append(bindings, b)
        /\ seen' = seen \cup {PathHere} /\ seenLoad' = seenLoad \cup {LoadHere}
        /\ PathHere \notin seen /\ LoadHere \notin seenLoad
    BY <1>2 DEF AddLeaf, LeafAccepted, NewPaths
  <2>3. b.path = PathHere /\ b.load = LoadHere
    BY NewBindingPaths
  <2> HIDE DEF b
  <2>4. /\ bindings' \in Seq(S \cup {b}) /\ Len(bindings') = Len(bindings) + 1
        /\ Len(bindings) \in Nat
        /\ \A i \in 1..Len(bindings) : bindings'[i] = bindings[i]
        /\ bindings'[Len(bindings) + 1] = b
    BY <2>1, <2>2, AppendIs
  <2>5. \A n \in 1..Len(bindings') : n \in 1..Len(bindings) \/ n = Len(bindings) + 1
    BY <2>4
  <2>6. \A n \in 1..Len(bindings') :
          bindings'[n].path \in seen' /\ bindings'[n].load \in seenLoad'
    BY <2>2, <2>3, <2>4, <2>5 DEF PathsInv
  <2>7. \A m, n \in 1..Len(bindings') :
          bindings'[m].path = bindings'[n].path \/ bindings'[m].load = bindings'[n].load
          => m = n
    BY <2>2, <2>3, <2>4, <2>5 DEF PathsInv
  <2> QED
    BY <2>4, <2>6, <2>7 DEF PathsInv
<1> QED
  BY <1>1, <1>2
     DEF Next, SkipField, BadMetadata, EnterStruct, Recursion, LeaveStruct, RejectLeaf,
         CheckOverrides, Result, schemaVars

\* What the call on top is at, and how the stack goes on.
LEMMA FieldType ==
  ASSUME StackInv, pc = "walk"
  PROVE  /\ Len(stack) \in Nat \ {0} /\ Top = stack[Len(stack)] /\ Top \in Frame
         /\ Passed \in Seq(Frame) /\ Len(Passed) = Len(stack)
         /\ \A i \in 1..Len(stack) : Passed[i].type = stack[i].type
         /\ ~AtEnd => F \in Field
<1>1. /\ stack \in Seq(Frame) /\ stack # <<>>
  BY DEF StackInv
<1>2. Len(stack) \in Nat \ {0} /\ Top = stack[Len(stack)] /\ Top \in Frame
  BY <1>1 DEF Top, Last
<1>3. Passed = [i \in 1..Len(stack) |->
                  IF i = Len(stack) THEN [stack[i] EXCEPT !.next = @ + 1] ELSE stack[i]]
  BY <1>1 DEF Passed
<1>4. \A i \in 1..Len(stack) : /\ stack[i] \in Frame
                               /\ [stack[i] EXCEPT !.next = @ + 1] \in Frame
                               /\ [stack[i] EXCEPT !.next = @ + 1].type = stack[i].type
  <2>1. \A f \in Frame : /\ [f EXCEPT !.next = @ + 1] \in Frame
                         /\ [f EXCEPT !.next = @ + 1].type = f.type
    BY DEF Frame
  <2>2. \A i \in 1..Len(stack) : stack[i] \in Frame
    BY <1>1
  <2> QED
    BY <2>1, <2>2
<1>5. /\ Passed \in Seq(Frame) /\ Len(Passed) = Len(stack)
      /\ \A i \in 1..Len(stack) : Passed[i].type = stack[i].type
  BY <1>1, <1>2, <1>3, <1>4
<1>6. ~AtEnd => F \in Field
  <2>1. Top.type \in Types /\ Top.next \in Nat \ {0}
    BY <1>2 DEF Frame
  <2>2. types[Top.type] \in Seq(Field)
    BY <2>1 DEF StackInv
  <2> QED
    BY <2>1, <2>2 DEF AtEnd, F
<1> QED
  BY <1>2, <1>5, <1>6

LEMMA StackNext == StackInv /\ [Next]_schemaVars => StackInv'
<1> SUFFICES ASSUME StackInv, [Next]_schemaVars PROVE StackInv'
  OBVIOUS
<1>1. CASE UNCHANGED <<types, pc, stack, visiting>>
  BY <1>1 DEF StackInv
<1>2. ASSUME NEW r \in {"done", "recursive", "rejected"}, Result(r) PROVE StackInv'
  BY <1>2 DEF StackInv, Result, Results
<1>3. CASE stack' = Passed /\ pc = "walk" /\ UNCHANGED <<types, pc, visiting>>
  BY <1>3, FieldType DEF StackInv
<1>4. CASE EnterStruct
  <2> DEFINE f == NewFrame(F.type, PathHere, LoadHere, Wanted)
             n == Len(stack)
  <2>1. pc = "walk" /\ ~AtEnd /\ F.type \notin visiting /\ visiting' = visiting \cup {F.type}
        /\ stack' = Append(Passed, f) /\ UNCHANGED <<types, pc>>
    BY <1>4 DEF EnterStruct, AtField
  <2>2. n \in Nat \ {0} /\ Top \in Frame /\ Passed \in Seq(Frame) /\ Len(Passed) = n
        /\ (\A i \in 1..n : Passed[i].type = stack[i].type) /\ F \in Field
    BY <2>1, FieldType
  <2>3. f \in Frame /\ f.type = F.type
    BY <2>2 DEF NewFrame, Frame, Field, PathHere, LoadHere, Wanted, Path
  <2> HIDE DEF f, n
  <2>4. /\ stack' \in Seq(Frame) /\ Len(stack') = n + 1 /\ stack' # <<>>
        /\ \A i \in 1..n : stack'[i].type = stack[i].type
        /\ stack'[n + 1].type = F.type
    BY <2>1, <2>2, <2>3
  <2>5. \A i \in 1..(n + 1) : i \in 1..n \/ i = n + 1
    BY <2>2
  <2>6. /\ visiting = {stack[i].type : i \in 1..n}
        /\ \A i, j \in 1..n : stack[i].type = stack[j].type => i = j
    BY DEF StackInv, n
  <2>7. visiting' = {stack'[i].type : i \in 1..(n + 1)}
    BY <2>1, <2>2, <2>4, <2>5, <2>6
  <2>8. \A i, j \in 1..(n + 1) : stack'[i].type = stack'[j].type => i = j
    BY <2>1, <2>4, <2>5, <2>6
  <2> QED
    BY <2>1, <2>4, <2>7, <2>8 DEF StackInv
<1>5. CASE LeaveStruct
  <2> DEFINE n == Len(stack)
  <2>1. /\ pc = "walk" /\ visiting' = visiting \ {Top.type} /\ stack' = Front(stack)
        /\ pc' = (IF n = 1 THEN "check" ELSE "walk") /\ types' = types
    BY <1>5 DEF LeaveStruct, Unvisit
  <2>2. n \in Nat \ {0} /\ Top = stack[n] /\ stack \in Seq(Frame)
    BY <2>1, FieldType DEF StackInv
  <2>3. /\ stack' \in Seq(Frame) /\ Len(stack') = n - 1
        /\ \A i \in 1..(n - 1) : stack'[i] = stack[i]
    <3>1. n - 1 \in Nat /\ n - 1 <= Len(stack)
      BY <2>2
    <3>2. /\ SubSeq(stack, 1, n - 1) \in Seq(Frame) /\ Len(SubSeq(stack, 1, n - 1)) = n - 1
          /\ \A i \in 1..(n - 1) : SubSeq(stack, 1, n - 1)[i] = stack[i]
      BY <2>2, <3>1, PrefixType
    <3>3. stack' = SubSeq(stack, 1, n - 1)
      BY <2>1 DEF Front
    <3> HIDE DEF n
    <3> QED
      BY <3>2, <3>3
  <2> HIDE DEF n
  <2>4. /\ visiting = {stack[i].type : i \in 1..n}
        /\ \A i, j \in 1..n : stack[i].type = stack[j].type => i = j
    BY DEF StackInv, n
  <2>5. visiting' = {stack'[i].type : i \in 1..(n - 1)}
    <3>1. \A i \in 1..n : i \in 1..(n - 1) \/ i = n
      BY <2>2
    <3>2. \A i \in 1..(n - 1) : i \in 1..n /\ i # n
      BY <2>2
    <3>3. stack[n].type = Top.type /\ n \in 1..n
      BY <2>2
    <3>4. \A i \in 1..(n - 1) : stack[i].type # Top.type
      BY <2>4, <3>2, <3>3
    <3>5. {stack[i].type : i \in 1..n} \ {Top.type} = {stack[i].type : i \in 1..(n - 1)}
      BY ONLY <3>1, <3>2, <3>3, <3>4
    <3>6. {stack'[i].type : i \in 1..(n - 1)} = {stack[i].type : i \in 1..(n - 1)}
      BY ONLY <2>3
    <3> QED
      BY <2>1, <2>4, <3>5, <3>6, Zenon
  <2>6. \A i, j \in 1..(n - 1) : stack'[i].type = stack'[j].type => i = j
    BY <2>2, <2>3, <2>4
  <2>7. pc' = "walk" => stack' # <<>>
    BY <2>1, <2>2, <2>3
  <2> QED
    BY <2>1, <2>3, <2>5, <2>6, <2>7 DEF StackInv
<1> QED
  BY <1>1, <1>2, <1>3, <1>4, <1>5
     DEF Next, SkipField, BadMetadata, Recursion, AddLeaf, RejectLeaf, CheckOverrides,
         AtField, schemaVars

LEMMA WalkInit == ASSUME NEW in \in Inputs, InitWith(in) PROVE PathsInv /\ StackInv
<1>1. types \in [Types -> Seq(Field)] /\ Root \in Types
  BY InputAssumption, RootAssumption DEF InitWith
<1>2. NewFrame(Root, <<>>, <<>>, TRUE) \in Frame /\ NewFrame(Root, <<>>, <<>>, TRUE).type = Root
  BY <1>1 DEF NewFrame, Frame, Path
<1>3. stack = <<NewFrame(Root, <<>>, <<>>, TRUE)>> /\ visiting = {Root} /\ pc = "walk"
      /\ bindings = <<>>
  BY DEF InitWith
<1>4. StackInv
  <2> DEFINE f == NewFrame(Root, <<>>, <<>>, TRUE)
  <2> HIDE DEF f
  <2>1. /\ stack \in Seq(Frame) /\ stack # <<>> /\ Len(stack) = 1 /\ stack[1].type = Root
    <3>1. f \in Frame /\ f.type = Root /\ stack = <<f>>
      BY <1>2, <1>3 DEF f
    <3> QED
      BY <3>1
  <2>2. visiting = {stack[i].type : i \in 1..Len(stack)}
    <3>1. \A i : i \in 1..Len(stack) <=> i = 1
      BY <2>1
    <3>2. visiting = {Root}
      BY <1>3
    <3> QED
      BY <2>1, <3>1, <3>2
  <2>3. \A i, j \in 1..Len(stack) : i = j
    BY <2>1
  <2> QED
    BY <1>1, <1>3, <2>1, <2>2, <2>3 DEF StackInv
<1>5. bindings \in Seq({})
  BY <1>3
<1> QED
  BY <1>3, <1>4, <1>5 DEF PathsInv
-----------------------------------------------------------------------------
(* The routes gone.                                                          *)

Kinds  == {"leaf", "struct", "skipped", "badMetadata"}
Routes == RoutesTo(Kinds)

\* The field that the i-th call of walk is at, or inside which the next call is.
Place(i)  == <<stack[i].type, stack[i].next - IF i = Len(stack) THEN 0 ELSE 1>>
Before(i) == [j \in 1..(i - 1) |-> Place(j)]

\* What a call was passed is what the fields around it come to.
Spelt(i) ==
  /\ stack[i].path = FlattenSeq([j \in 1..(i - 1) |-> FieldAt(Place(j)).path])
  /\ stack[i].load = FlattenSeq([j \in 1..(i - 1) |-> FieldAt(Place(j)).load])
  /\ stack[i].cli <=> \A j \in 1..(i - 1) : FieldAt(Place(j)).cli
Linked(i) ==
  /\ Place(i)[2] \in 1..Len(types[stack[i].type])
  /\ FieldAt(Place(i)).kind = "struct" /\ FieldAt(Place(i)).type = stack[i + 1].type

FramesInv ==
  /\ pc \in {"check", "done"} => stack = <<>>
  /\ stack # <<>> => stack[1].type = Root
  /\ \A i \in 1..Len(stack) : Spelt(i) /\ stack[i].cli \in BOOLEAN
  /\ \A i \in 1..(Len(stack) - 1) : Linked(i)

SameCall(i) == /\ stack'[i].type = stack[i].type /\ stack'[i].path = stack[i].path
               /\ stack'[i].load = stack[i].load /\ stack'[i].cli = stack[i].cli

\* The calls further out are where they were.
LEMMA PassKeeps ==
  ASSUME NEW n, n = Len(stack), StackInv, pc = "walk", stack' = Passed
  PROVE  /\ Len(stack') = n /\ n \in Nat \ {0}
         /\ \A i \in 1..n : SameCall(i)
         /\ \A i \in 1..(n - 1) : Place(i)' = Place(i)
         /\ Place(n) = <<Top.type, Top.next>>
         /\ Place(n)' = <<Top.type, Top.next + 1>>
<1>1. n \in Nat \ {0} /\ Top = stack[n] /\ Len(Passed) = n
  BY FieldType
<1>2. \A i \in 1..n : Passed[i] = IF i = n THEN [stack[i] EXCEPT !.next = @ + 1] ELSE stack[i]
  BY DEF Passed, StackInv
<1>3. \A i \in 1..n : stack[i] \in Frame
  BY DEF StackInv
<1>4. \A f \in Frame : LET g == [f EXCEPT !.next = @ + 1]
                       IN  /\ g.type = f.type /\ g.path = f.path /\ g.load = f.load
                           /\ g.cli = f.cli /\ g.next = f.next + 1 /\ f.next \in Nat
  BY DEF Frame
<1>5. Len(stack') = n
  BY <1>1
<1>6. \A i \in 1..n : SameCall(i)
  BY <1>2, <1>3, <1>4 DEF SameCall
<1>7. \A i \in 1..(n - 1) : i \in 1..n /\ i # n
  BY <1>1
<1>8. \A i \in 1..(n - 1) : Place(i)' = Place(i)
  BY <1>2, <1>5, <1>7 DEF Place
<1>9. n \in 1..n /\ Top.next \in Nat
  BY <1>1, <1>3, <1>4
<1>10. Place(n) = <<Top.type, Top.next>>
  BY <1>1, <1>9 DEF Place
<1>11. stack'[n].type = Top.type /\ stack'[n].next = Top.next + 1
  BY <1>1, <1>2, <1>3, <1>4, <1>9
<1>12. Place(n)' = <<Top.type, Top.next + 1>>
  BY <1>5, <1>9, <1>11 DEF Place
<1> QED
  BY <1>1, <1>5, <1>6, <1>8, <1>10, <1>12

LEMMA EnterKeeps ==
  ASSUME NEW n, n = Len(stack), StackInv, pc = "walk", NEW f, stack' = Append(Passed, f)
  PROVE  /\ Len(stack') = n + 1 /\ n \in Nat \ {0}
         /\ \A i \in 1..n : SameCall(i) /\ Place(i)' = Place(i)
         /\ Place(n) = <<Top.type, Top.next>>
         /\ stack'[n + 1] = f
<1>1. n \in Nat \ {0} /\ Top = stack[n] /\ Len(Passed) = n /\ Passed \in Seq(Frame)
  BY FieldType
<1>2. \A i \in 1..n : Passed[i] = IF i = n THEN [stack[i] EXCEPT !.next = @ + 1] ELSE stack[i]
  BY DEF Passed, StackInv
<1>3. \A i \in 1..n : stack[i] \in Frame
  BY DEF StackInv
<1>4. \A g \in Frame : LET h == [g EXCEPT !.next = @ + 1]
                       IN  /\ h.type = g.type /\ h.path = g.path /\ h.load = g.load
                           /\ h.cli = g.cli /\ h.next = g.next + 1 /\ g.next \in Nat
  BY DEF Frame
<1>5. /\ Len(stack') = n + 1 /\ stack'[n + 1] = f
      /\ \A i \in 1..n : stack'[i] = Passed[i]
  BY <1>1, AppendIs
<1>6. \A i \in 1..n : SameCall(i)
  <2> SUFFICES ASSUME NEW i \in 1..n PROVE SameCall(i)
    OBVIOUS
  <2>1. CASE i = n
    <3>1. stack[i] \in Frame /\ stack'[i] = [stack[i] EXCEPT !.next = @ + 1]
      BY <1>2, <1>3, <1>5, <2>1
    <3> QED
      BY <1>4, <3>1 DEF SameCall
  <2>2. CASE i # n
    BY <1>2, <1>5, <2>2 DEF SameCall
  <2> QED
    BY <2>1, <2>2
<1>7. \A i \in 1..n : i # n + 1
  BY <1>1
<1>8. ASSUME NEW i \in 1..n PROVE Place(i)' = Place(i)
  <2>1. Place(i)' = <<stack'[i].type, stack'[i].next - 1>>
    BY <1>5, <1>7 DEF Place
  <2>2. CASE i = n
    <3>1. stack'[i].type = stack[i].type /\ stack'[i].next = stack[i].next + 1
          /\ stack[i].next \in Nat
      <4>1. stack[i] \in Frame /\ stack'[i] = [stack[i] EXCEPT !.next = @ + 1]
        BY <1>2, <1>3, <1>5, <2>2
      <4> QED
        BY <1>4, <4>1
    <3>2. Place(i) = <<stack[i].type, stack[i].next - 0>>
      BY <2>2 DEF Place
    <3> QED
      BY <2>1, <3>1, <3>2
  <2>3. CASE i # n
    <3>1. stack'[i] = stack[i]
      BY <1>2, <1>5, <2>3
    <3>2. Place(i) = <<stack[i].type, stack[i].next - 1>>
      BY <2>3 DEF Place
    <3> QED
      BY <2>1, <3>1, <3>2
  <2> QED
    BY <2>2, <2>3
<1>9. n \in 1..n /\ Top.next \in Nat
  BY <1>1, <1>3, <1>4
<1>10. Place(n) = <<Top.type, Top.next>>
  BY <1>1, <1>9 DEF Place
<1> QED
  BY <1>1, <1>5, <1>6, <1>8, <1>10

LEMMA LeaveKeeps ==
  ASSUME NEW n, n = Len(stack), StackInv, pc = "walk", stack' = Front(stack)
  PROVE  /\ Len(stack') = n - 1 /\ n \in Nat \ {0}
         /\ \A i \in 1..(n - 1) : SameCall(i)
         /\ \A i \in 1..(n - 2) : Place(i)' = Place(i)
         /\ n > 1 => LET p == Place(n - 1)
                              IN  /\ p[2] \in Nat
                                  /\ Place(n - 1)' = <<p[1], p[2] + 1>>
<1>1. n \in Nat \ {0} /\ stack \in Seq(Frame)
  BY FieldType DEF StackInv
<1>2. n - 1 \in Nat /\ n - 1 <= n
  BY <1>1
<1>3. /\ Len(SubSeq(stack, 1, n - 1)) = n - 1
      /\ \A i \in 1..(n - 1) : SubSeq(stack, 1, n - 1)[i] = stack[i]
  BY <1>1, <1>2, PrefixType
<1>4. Len(stack') = n - 1 /\ \A i \in 1..(n - 1) : stack'[i] = stack[i]
  BY <1>3 DEF Front
<1>5. \A i \in 1..(n - 1) : SameCall(i)
  BY <1>4 DEF SameCall
<1>6. \A i \in 1..(n - 2) : i \in 1..(n - 1) /\ i # n - 1 /\ i # n
  BY <1>1
<1>7. \A i \in 1..(n - 2) : Place(i)' = Place(i)
  BY <1>4, <1>6 DEF Place
<1>8. ASSUME n > 1
      PROVE  LET p == Place(n - 1) IN p[2] \in Nat /\ Place(n - 1)' = <<p[1], p[2] + 1>>
  <2>1. n - 1 \in 1..(n - 1) /\ n - 1 # n /\ n - 1 \in 1..n
    BY <1>1, <1>8
  <2>2. stack[n - 1] \in Frame
    BY <1>1, <2>1
  <2>3. stack[n - 1].next \in Nat \ {0}
    BY <2>2 DEF Frame
  <2>4. Place(n - 1) = <<stack[n - 1].type, stack[n - 1].next - 1>>
    BY <2>1 DEF Place
  <2>5. Place(n - 1)' = <<stack[n - 1].type, stack[n - 1].next - 0>>
    BY <1>4, <2>1 DEF Place
  <2> QED
    BY <2>3, <2>4, <2>5
<1> QED
  BY <1>1, <1>4, <1>5, <1>7, <1>8

\* The paths of the fields on the way are paths.
LEMMA PlaceType ==
  ASSUME StackInv, FramesInv, NEW n, n = Len(stack), NEW i \in 1..n,
         i # n \/ (pc = "walk" /\ ~AtEnd)
  PROVE  /\ Place(i) \in Steps /\ Place(i)[1] = stack[i].type
         /\ FieldAt(Place(i)) \in Field
         /\ i = n => FieldAt(Place(i)) = F
<1>1. n \in Nat /\ stack[i] \in Frame
  BY DEF StackInv
<1>2. /\ stack[i].type \in Types /\ types[stack[i].type] \in Seq(Field)
      /\ stack[i].next \in Nat \ {0}
  BY <1>1 DEF Frame, StackInv
<1>3. Place(i)[1] = stack[i].type
  BY DEF Place
<1>4. Place(i)[2] \in 1..Len(types[stack[i].type])
  <2>1. CASE i # n
    <3>1. i \in 1..(Len(stack) - 1)
      BY <1>1, <2>1
    <3> QED
      BY <3>1 DEF FramesInv, Linked
  <2>2. CASE i = n
    <3>1. Top = stack[i] /\ Place(i)[2] = stack[i].next
      BY <1>2, <2>2 DEF Top, Last, Place
    <3>2. ~(stack[i].next > Len(types[stack[i].type]))
      BY <2>2, <3>1 DEF AtEnd
    <3> QED
      BY <1>2, <3>1, <3>2
  <2> QED
    BY <2>1, <2>2
<1>5. Place(i) \in {stack[i].type} \X (1..Len(types[stack[i].type]))
  BY <1>3, <1>4 DEF Place
<1>6. Place(i) \in Steps
  BY <1>2, <1>5 DEF Steps
<1>7. FieldAt(Place(i)) = types[stack[i].type][Place(i)[2]]
  BY <1>3 DEF FieldAt
<1>8. FieldAt(Place(i)) \in Field
  BY <1>2, <1>4, <1>7
<1>9. ASSUME i = n PROVE FieldAt(Place(i)) = F
  <2>1. Top = stack[i] /\ Place(i)[2] = stack[i].next
    BY <1>2, <1>9 DEF Top, Last, Place
  <2> QED
    BY <1>7, <2>1 DEF F
<1> QED
  BY <1>3, <1>6, <1>8, <1>9

\* A field further in has one more on its way.
LEMMA OneFurther ==
  ASSUME StackInv, FramesInv, NEW n, n = Len(stack), pc = "walk", ~AtEnd
  PROVE  /\ PathHere = FlattenSeq([j \in 1..n |-> FieldAt(Place(j)).path])
         /\ LoadHere = FlattenSeq([j \in 1..n |-> FieldAt(Place(j)).load])
         /\ Wanted <=> \A j \in 1..n : FieldAt(Place(j)).cli
<1>1. n \in Nat \ {0} /\ Top = stack[n] /\ n \in 1..n
  BY FieldType
<1>2. \A j \in 1..n : FieldAt(Place(j)) \in Field /\ (j = n => FieldAt(Place(j)) = F)
  BY PlaceType
<1>3. Spelt(n)
  BY <1>1 DEF FramesInv
<1>4. \A j \in 1..(n - 1) : j \in 1..n /\ j # n
  BY <1>1
<1>5. \A j \in 1..n : j \in 1..(n - 1) \/ j = n
  BY <1>1
<1>6. \A f \in Field : f.path \in Seq(Segments) /\ f.load \in Seq(Segments)
  BY DEF Field, Path
<1>7. PathHere = FlattenSeq([j \in 1..n |-> FieldAt(Place(j)).path])
  <2> DEFINE s == [j \in 1..(n - 1) |-> FieldAt(Place(j)).path]
  <2>1. /\ s \in Seq(Seq(Segments)) /\ Len(s) = n - 1
        /\ \A j \in 1..(n - 1) : s[j] = FieldAt(Place(j)).path
    BY <1>1, <1>2, <1>4, <1>6
  <2>2. F.path \in Seq(Segments) /\ FieldAt(Place(n)) = F
    BY <1>1, <1>2, <1>6
  <2>3. Append(s, F.path) = [j \in 1..n |-> FieldAt(Place(j)).path]
    <3> HIDE DEF s
    <3>1. /\ Append(s, F.path) \in Seq(Seq(Segments)) /\ Len(Append(s, F.path)) = n
          /\ \A j \in 1..n : Append(s, F.path)[j] = FieldAt(Place(j)).path
      BY <1>1, <1>5, <2>1, <2>2
    <3> QED
      BY <1>1, <3>1
  <2>4. FlattenSeq(Append(s, F.path)) = FlattenSeq(s) \o F.path
    BY <2>1, <2>2, FlattenAppend
  <2>5. Top.path = FlattenSeq(s)
    BY <1>1, <1>3 DEF Spelt
  <2> QED
    BY <2>3, <2>4, <2>5 DEF PathHere
<1>8. LoadHere = FlattenSeq([j \in 1..n |-> FieldAt(Place(j)).load])
  <2> DEFINE s == [j \in 1..(n - 1) |-> FieldAt(Place(j)).load]
  <2>1. /\ s \in Seq(Seq(Segments)) /\ Len(s) = n - 1
        /\ \A j \in 1..(n - 1) : s[j] = FieldAt(Place(j)).load
    BY <1>1, <1>2, <1>4, <1>6
  <2>2. F.load \in Seq(Segments) /\ FieldAt(Place(n)) = F
    BY <1>1, <1>2, <1>6
  <2>3. Append(s, F.load) = [j \in 1..n |-> FieldAt(Place(j)).load]
    <3> HIDE DEF s
    <3>1. /\ Append(s, F.load) \in Seq(Seq(Segments)) /\ Len(Append(s, F.load)) = n
          /\ \A j \in 1..n : Append(s, F.load)[j] = FieldAt(Place(j)).load
      BY <1>1, <1>5, <2>1, <2>2
    <3> QED
      BY <1>1, <3>1
  <2>4. FlattenSeq(Append(s, F.load)) = FlattenSeq(s) \o F.load
    BY <2>1, <2>2, FlattenAppend
  <2>5. Top.load = FlattenSeq(s)
    BY <1>1, <1>3 DEF Spelt
  <2> QED
    BY <2>3, <2>4, <2>5 DEF LoadHere
<1>9. Wanted <=> \A j \in 1..n : FieldAt(Place(j)).cli
  BY <1>1, <1>2, <1>3, <1>4, <1>5 DEF Wanted, Spelt
<1> QED
  BY <1>7, <1>8, <1>9

\* Calls that are where they were are still spelt and linked.
LEMMA StillSpelt ==
  ASSUME FramesInv, types' = types, NEW m \in Nat, m <= Len(stack), Len(stack) \in Nat,
         \A i \in 1..m : SameCall(i), \A i \in 1..(m - 1) : Place(i)' = Place(i)
  PROVE  /\ \A i \in 1..m : Spelt(i)' /\ stack'[i].cli \in BOOLEAN
         /\ \A i \in 1..(m - 1) : Linked(i)'
<1>1. ASSUME NEW i \in 1..m PROVE Spelt(i)' /\ stack'[i].cli \in BOOLEAN
  <2>1. \A j \in 1..(i - 1) : FieldAt(Place(j))' = FieldAt(Place(j))
    <3>1. \A j \in 1..(i - 1) : Place(j)' = Place(j)
      OBVIOUS
    <3> QED
      BY <3>1 DEF FieldAt
  <2>2. Spelt(i) /\ stack[i].cli \in BOOLEAN
    BY DEF FramesInv
  <2>3. SameCall(i)
    OBVIOUS
  <2>4. /\ [j \in 1..(i - 1) |-> FieldAt(Place(j))'.path]
             = [j \in 1..(i - 1) |-> FieldAt(Place(j)).path]
        /\ [j \in 1..(i - 1) |-> FieldAt(Place(j))'.load]
             = [j \in 1..(i - 1) |-> FieldAt(Place(j)).load]
    BY <2>1
  <2>5. /\ stack'[i].path = FlattenSeq([j \in 1..(i - 1) |-> FieldAt(Place(j))'.path])
        /\ stack'[i].load = FlattenSeq([j \in 1..(i - 1) |-> FieldAt(Place(j))'.load])
        /\ stack'[i].cli <=> \A j \in 1..(i - 1) : FieldAt(Place(j))'.cli
    BY <2>1, <2>2, <2>3, <2>4 DEF Spelt, SameCall
  <2> QED
    BY <2>2, <2>3, <2>5 DEF Spelt, SameCall
<1>2. ASSUME NEW i \in 1..(m - 1) PROVE Linked(i)'
  <2>1. i \in 1..(Len(stack) - 1) /\ i \in 1..m /\ i + 1 \in 1..m
    OBVIOUS
  <2>2. Linked(i) /\ Place(i)' = Place(i) /\ SameCall(i) /\ SameCall(i + 1)
    BY <2>1 DEF FramesInv
  <2> QED
    BY <2>2 DEF Linked, FieldAt, SameCall
<1> QED
  BY <1>1, <1>2

LEMMA FramesNext == StackInv /\ FramesInv /\ [Next]_schemaVars => FramesInv'
<1> SUFFICES ASSUME StackInv, FramesInv, [Next]_schemaVars PROVE FramesInv'
  OBVIOUS
<1>a. types' = types
  BY DEF Next, SkipField, BadMetadata, EnterStruct, Recursion, LeaveStruct, AddLeaf,
         RejectLeaf, CheckOverrides, Result, schemaVars
<1>1. CASE stack' = stack /\ (pc' \in {"check", "done"} => pc \in {"check", "done"})
  <2>1. Len(stack) \in Nat
    BY DEF StackInv
  <2>2. /\ \A i \in 1..Len(stack) : SameCall(i)
        /\ \A i \in 1..(Len(stack) - 1) : Place(i)' = Place(i)
    BY <1>1 DEF SameCall, Place
  <2>3. /\ \A i \in 1..Len(stack) : Spelt(i)' /\ stack'[i].cli \in BOOLEAN
        /\ \A i \in 1..(Len(stack) - 1) : Linked(i)'
    BY <1>a, <2>1, <2>2, StillSpelt
  <2> QED
    BY <1>1, <2>3 DEF FramesInv
<1> PICK n : n = Len(stack)
  OBVIOUS
<1>2. CASE pc = "walk" /\ stack' = Passed /\ pc' = pc
  <2>1. /\ Len(stack') = n /\ n \in Nat \ {0}
        /\ \A i \in 1..n : SameCall(i)
        /\ \A i \in 1..(n - 1) : Place(i)' = Place(i)
    BY <1>2, PassKeeps
  <2>2. /\ \A i \in 1..n : Spelt(i)' /\ stack'[i].cli \in BOOLEAN
        /\ \A i \in 1..(n - 1) : Linked(i)'
    BY <1>a, <2>1, StillSpelt
  <2>3. stack'[1].type = Root
    BY <2>1 DEF FramesInv, SameCall
  <2> QED
    BY <1>2, <2>1, <2>2, <2>3 DEF FramesInv
<1>3. CASE EnterStruct
  <2> DEFINE f == NewFrame(F.type, PathHere, LoadHere, Wanted)
  <2>1. pc = "walk" /\ ~AtEnd /\ F.kind = "struct" /\ stack' = Append(Passed, f) /\ pc' = pc
    BY <1>3 DEF EnterStruct, AtField
  <2>2. /\ f.type = F.type /\ f.path = PathHere /\ f.load = LoadHere /\ f.cli = Wanted
        /\ f.cli \in BOOLEAN
    BY DEF NewFrame, Wanted
  <2> HIDE DEF f
  <2>3. /\ Len(stack') = n + 1 /\ n \in Nat \ {0} /\ stack'[n + 1] = f
        /\ \A i \in 1..n : SameCall(i) /\ Place(i)' = Place(i)
    BY <2>1, EnterKeeps
  <2>4. /\ \A i \in 1..n : Spelt(i)' /\ stack'[i].cli \in BOOLEAN
        /\ \A i \in 1..(n - 1) : Linked(i)'
    BY <1>a, <2>3, StillSpelt
  <2>5. /\ \A j \in 1..n : FieldAt(Place(j))' = FieldAt(Place(j))
    BY <1>a, <2>3 DEF FieldAt
  <2>6. Linked(n)'
    <3>1. Place(n) \in Steps /\ Place(n)[1] = stack[n].type /\ FieldAt(Place(n)) = F
      BY <2>1, <2>3, PlaceType
    <3>2. Place(n)[2] \in 1..Len(types[stack[n].type])
      <4>1. PICK t \in Types : Place(n) \in {t} \X (1..Len(types[t]))
        BY <3>1 DEF Steps
      <4> QED
        BY <3>1, <4>1
    <3>3. SameCall(n) /\ Place(n)' = Place(n) /\ FieldAt(Place(n))' = F
      BY <2>3, <2>5, <3>1
    <3> QED
      BY <1>a, <2>1, <2>2, <2>3, <3>2, <3>3 DEF Linked, SameCall
  <2>7. Spelt(n + 1)' /\ stack'[n + 1].cli \in BOOLEAN
    <3>1. /\ PathHere = FlattenSeq([j \in 1..n |-> FieldAt(Place(j)).path])
          /\ LoadHere = FlattenSeq([j \in 1..n |-> FieldAt(Place(j)).load])
          /\ Wanted <=> \A j \in 1..n : FieldAt(Place(j)).cli
      BY <2>1, OneFurther
    <3>2. /\ [j \in 1..n |-> FieldAt(Place(j))'.path] = [j \in 1..n |-> FieldAt(Place(j)).path]
          /\ [j \in 1..n |-> FieldAt(Place(j))'.load] = [j \in 1..n |-> FieldAt(Place(j)).load]
      BY <2>5
    <3>3. 1..(n + 1 - 1) = 1..n
      BY <2>3
    <3>4. /\ stack'[n + 1].path = FlattenSeq([j \in 1..(n + 1 - 1) |-> FieldAt(Place(j))'.path])
          /\ stack'[n + 1].load = FlattenSeq([j \in 1..(n + 1 - 1) |-> FieldAt(Place(j))'.load])
          /\ stack'[n + 1].cli <=> \A j \in 1..(n + 1 - 1) : FieldAt(Place(j))'.cli
      <4>1. (\A j \in 1..n : FieldAt(Place(j)).cli) <=> \A j \in 1..n : FieldAt(Place(j))'.cli
        BY <2>5
      <4> QED
        BY <2>2, <2>3, <3>1, <3>2, <3>3, <4>1
    <3> QED
      BY <2>2, <2>3, <3>4 DEF Spelt
  <2>8. stack'[1].type = Root
    BY <2>3 DEF FramesInv, SameCall
  <2>9. \A i \in 1..(n + 1) : i \in 1..n \/ i = n + 1
    BY <2>3
  <2>10. \A i \in 1..n : i \in 1..(n - 1) \/ i = n
    BY <2>3
  <2>11. \A i \in 1..Len(stack') : Spelt(i)' /\ stack'[i].cli \in BOOLEAN
    BY <2>3, <2>4, <2>7, <2>9
  <2>12. \A i \in 1..(Len(stack') - 1) : Linked(i)'
    BY <2>3, <2>4, <2>6, <2>10
  <2> QED
    BY <2>1, <2>8, <2>11, <2>12 DEF FramesInv
<1>4. CASE LeaveStruct
  <2>1. pc = "walk" /\ stack' = Front(stack) /\ pc' = (IF n = 1 THEN "check" ELSE "walk")
    BY <1>4 DEF LeaveStruct
  <2>2. /\ Len(stack') = n - 1 /\ n \in Nat \ {0}
        /\ \A i \in 1..(n - 1) : SameCall(i)
        /\ \A i \in 1..(n - 2) : Place(i)' = Place(i)
    BY <2>1, LeaveKeeps
  <2>3. n - 1 \in Nat /\ n - 1 <= Len(stack) /\ n - 1 - 1 = n - 2
    BY <2>2
  <2>4. /\ \A i \in 1..(n - 1) : Spelt(i)' /\ stack'[i].cli \in BOOLEAN
        /\ \A i \in 1..(n - 2) : Linked(i)'
    BY <1>a, <2>2, <2>3, StillSpelt
  <2>5. n # 1 => stack'[1].type = Root
    BY <2>2 DEF FramesInv, SameCall
  <2>6. stack' \in Seq(Frame)
    BY StackNext DEF StackInv
  <2>7. n = 1 <=> stack' = <<>>
    BY <2>2, <2>6
  <2> QED
    BY <2>1, <2>2, <2>3, <2>4, <2>5, <2>7 DEF FramesInv
<1> QED
  BY <1>1, <1>2, <1>3, <1>4
     DEF Next, SkipField, BadMetadata, Recursion, AddLeaf, RejectLeaf, CheckOverrides,
         Result, AtField, schemaVars

\* A route is gone when the walk, which takes fields in their order, is past it.
Behind(r) == \E i \in 1..Len(stack) : /\ i <= Len(r)
                                      /\ \A j \in 1..(i - 1) : r[j] = Place(j)
                                      /\ r[i][2] < Place(i)[2]
Gone == IF stack = <<>> THEN Routes ELSE {r \in Routes : Behind(r)}

LEMMA RouteIs ==
  ASSUME types \in [Types -> Seq(Field)], NEW r
  PROVE  r \in Routes <=>
           /\ \E n \in 1..Cardinality(Types) : r \in [1..n -> Steps] /\ Len(r) = n
           /\ Starts(r)
<1>1. Cardinality(Types) \in Nat
  BY RootAssumption, FS_CardinalityType
<1>2. \A s \in Steps : FieldAt(s) \in Field
  <2> TAKE s \in Steps
  <2>1. PICK t \in Types : s \in {t} \X (1..Len(types[t]))
    BY DEF Steps
  <2>2. s[1] = t /\ s[2] \in 1..Len(types[t]) /\ types[t] \in Seq(Field)
    BY <2>1
  <2> QED
    BY <2>2 DEF FieldAt
<1>3. \A n \in 1..Cardinality(Types) : \A q \in [1..n -> Steps] :
        Len(q) = n /\ Last(q) = q[n] /\ q[n] \in Steps
  BY <1>1 DEF Last
<1>4. \A f \in Field : f.kind \in Kinds
  BY DEF Field, Kinds
<1>5. \A n \in 1..Cardinality(Types) : \A q \in [1..n -> Steps] :
        FieldAt(Last(q)).kind \in Kinds
  BY <1>2, <1>3, <1>4
<1> QED
  BY <1>3, <1>5 DEF Routes, RoutesTo

LEMMA RouteType ==
  ASSUME types \in [Types -> Seq(Field)], NEW r \in Routes
  PROVE  /\ Len(r) \in Nat \ {0} /\ Last(r) = r[Len(r)] /\ r \in [1..Len(r) -> Steps]
         /\ \A i \in 1..Len(r) : /\ r[i] \in Steps /\ r[i] = <<r[i][1], r[i][2]>>
                                 /\ r[i][1] \in Types
                                 /\ r[i][2] \in 1..Len(types[r[i][1]])
         /\ r[1][1] = Root
         /\ \A i \in 1..(Len(r) - 1) : /\ FieldAt(r[i]).kind = "struct"
                                       /\ FieldAt(r[i]).type = r[i + 1][1]
<1>1. Cardinality(Types) \in Nat
  BY RootAssumption, FS_CardinalityType
<1>2. PICK n \in 1..Cardinality(Types) : r \in [1..n -> Steps] /\ Len(r) = n
  BY RouteIs
<1>3. \A s \in Steps : /\ s = <<s[1], s[2]>> /\ s[1] \in Types
                       /\ s[2] \in 1..Len(types[s[1]])
  BY DEF Steps
<1>4. Starts(r)
  BY RouteIs
<1> QED
  BY <1>1, <1>2, <1>3, <1>4 DEF Starts, Last

\* The fields that the calls are at are a route, and so are those further out.
LEMMA BeforeRoute ==
  ASSUME StackInv, FramesInv, NEW n, n = Len(stack), NEW m \in 1..n,
         m # n \/ (pc = "walk" /\ ~AtEnd), NEW p, p = [j \in 1..m |-> Place(j)]
  PROVE  p \in Routes /\ Len(p) = m
<1>1. n \in Nat /\ Cardinality(Types) \in Nat
  BY RootAssumption, FS_CardinalityType DEF StackInv
<1>2. n <= Cardinality(Types)
  <2> DEFINE f == [i \in 1..n |-> stack[i].type]
  <2>1. \A i \in 1..n : stack[i] \in Frame /\ stack[i].type \in Types
    <3>1. \A i \in 1..n : stack[i] \in Frame
      BY DEF StackInv
    <3> QED
      BY <3>1 DEF Frame
  <2>2. f \in Injection(1..n, Types)
    BY <2>1 DEF StackInv, Injection, IsInjective
  <2>3. Cardinality(1..n) <= Cardinality(Types)
    <3> HIDE DEF f
    <3> QED
      BY <2>2, RootAssumption, FS_Injection
  <2>4. Cardinality(1..n) = n
    <3>1. 1 \in Int /\ n \in Int
      BY <1>1
    <3>2. Cardinality(1..n) = IF 1 > n THEN 0 ELSE n - 1 + 1
      BY <3>1, FS_Interval
    <3> QED
      BY <1>1, <3>2
  <2> QED
    BY <2>3, <2>4
<1>3. \A j \in 1..m : Place(j) \in Steps /\ Place(j)[1] = stack[j].type
  BY <1>1, PlaceType
<1>4. m \in 1..Cardinality(Types) /\ p \in [1..m -> Steps] /\ Len(p) = m
  BY <1>1, <1>2, <1>3
<1>5. Starts(p)
  <2>1. p[1][1] = Root
    <3>1. 1 \in 1..m /\ stack # <<>>
      BY <1>1
    <3> QED
      BY <1>3, <3>1 DEF FramesInv
  <2>2. ASSUME NEW i \in 1..(m - 1)
        PROVE  FieldAt(p[i]).kind = "struct" /\ FieldAt(p[i]).type = p[i + 1][1]
    <3>1. i \in 1..(Len(stack) - 1) /\ i \in 1..m /\ i + 1 \in 1..m
      BY <1>1
    <3>2. Linked(i) /\ p[i] = Place(i) /\ p[i + 1] = Place(i + 1)
      BY <3>1 DEF FramesInv
    <3> QED
      BY <1>3, <3>1, <3>2 DEF Linked
  <2> QED
    BY <1>4, <2>1, <2>2 DEF Starts
<1> QED
  BY <1>4, <1>5, RouteIs DEF StackInv

\* A route that goes where the first i - 1 calls are goes through the struct
\* that the i-th is in.
LEMMA SameStruct ==
  ASSUME StackInv, FramesInv, NEW r \in Routes, NEW i \in 1..Len(stack), i <= Len(r),
         \A j \in 1..(i - 1) : r[j] = Place(j)
  PROVE  r[i][1] = stack[i].type /\ Place(i)[1] = stack[i].type
<1>0. types \in [Types -> Seq(Field)] /\ Len(stack) \in Nat
  BY DEF StackInv
<1>1. CASE i = 1
  BY <1>0, <1>1, RouteType DEF FramesInv, Place
<1>2. CASE i # 1
  <2>1. i - 1 \in 1..(i - 1) /\ i - 1 \in 1..(Len(stack) - 1) /\ i - 1 \in 1..(Len(r) - 1)
        /\ i - 1 + 1 = i
    BY <1>0, <1>2, RouteType
  <2>2. FieldAt(r[i - 1]).type = r[i][1]
    BY <1>0, <2>1, RouteType
  <2>3. FieldAt(Place(i - 1)).type = stack[i].type
    BY <2>1 DEF FramesInv, Linked
  <2> QED
    BY <2>1, <2>2, <2>3 DEF Place
<1> QED
  BY <1>1, <1>2

\* Two routes to the same place are one.
LEMMA SameRoute ==
  ASSUME types \in [Types -> Seq(Field)], NEW q \in Routes, NEW r \in Routes,
         Len(q) = Len(r), \A j \in 1..Len(r) : q[j] = r[j]
  PROVE  q = r
<1>1. q \in [1..Len(r) -> Steps] /\ r \in [1..Len(r) -> Steps]
  BY RouteType
<1> QED
  BY <1>1

LEMMA RoutesKept ==
  ASSUME types' = types
  PROVE  Routes' = Routes
BY DEF Routes, RoutesTo, Starts, FieldAt, Steps

\* Past a field that is no struct, one more route is gone.
LEMMA GonePass ==
  ASSUME StackInv, FramesInv, NEW n, n = Len(stack), NEW h, h = [j \in 1..n |-> Place(j)],
         pc = "walk", ~AtEnd, F.kind # "struct", stack' = Passed, types' = types
  PROVE  /\ Gone' = Gone \cup {h} /\ h \notin Gone /\ h \in Routes
         /\ Len(h) = n /\ FieldAt(Last(h)) = F
<1>1. /\ Len(stack') = n /\ n \in Nat \ {0}
      /\ \A i \in 1..(n - 1) : Place(i)' = Place(i)
      /\ Place(n) = <<Top.type, Top.next>> /\ Place(n)' = <<Top.type, Top.next + 1>>
  BY PassKeeps
<1>2. Top.next \in Nat
  <2>1. Top \in Frame
    BY FieldType
  <2> QED
    BY <2>1 DEF Frame
<1>3. n \in 1..n
  BY <1>1
<1>4. h \in Routes /\ Len(h) = n /\ \A j \in 1..n : h[j] = Place(j)
  BY <1>3, BeforeRoute
<1>5. types \in [Types -> Seq(Field)]
  BY DEF StackInv
<1>6. Last(h) = Place(n) /\ FieldAt(Last(h)) = F
  <2>1. Last(h) = h[n]
    BY <1>4, <1>5, RouteType
  <2>2. FieldAt(Place(n)) = F
    BY <1>3, PlaceType
  <2> QED
    BY <1>3, <1>4, <2>1, <2>2
<1>7. stack # <<>> /\ stack' # <<>>
  BY <1>1
<1>8. Gone = {r \in Routes : Behind(r)} /\ Gone' = {r \in Routes : Behind(r)'}
  <2>1. Routes' = Routes
    BY RoutesKept
  <2> QED
    BY <1>7, <2>1 DEF Gone
<1>9. ~Behind(h)
  <2> SUFFICES ASSUME NEW i \in 1..n, h[i][2] < Place(i)[2] PROVE FALSE
    BY DEF Behind
  <2>1. Place(i)[2] \in 1..Len(types[Place(i)[1]])
    BY <1>4, <1>5, RouteType
  <2> QED
    BY <1>4, <2>1
<1>10. ASSUME NEW r \in Routes, Behind(r) PROVE Behind(r)'
  <2>1. PICK i \in 1..n : /\ i <= Len(r) /\ \A j \in 1..(i - 1) : r[j] = Place(j)
                          /\ r[i][2] < Place(i)[2]
    BY <1>10 DEF Behind
  <2>2. \A j \in 1..(i - 1) : r[j] = Place(j)'
    BY <1>1, <2>1
  <2>3. r[i][2] < Place(i)'[2]
    <3>1. CASE i = n
      <4>1. r[i][2] \in Nat
        BY <1>1, <1>5, <2>1, RouteType
      <4> QED
        BY <1>1, <1>2, <2>1, <3>1, <4>1
    <3>2. CASE i # n
      BY <1>1, <2>1, <3>2
    <3> QED
      BY <3>1, <3>2
  <2> QED
    BY <1>1, <2>1, <2>2, <2>3 DEF Behind
<1>11. Behind(h)'
  <2>1. h[n][2] < Place(n)'[2] /\ n <= Len(h) /\ \A j \in 1..(n - 1) : h[j] = Place(j)'
    BY <1>1, <1>2, <1>3, <1>4
  <2> QED
    BY <1>1, <1>3, <2>1 DEF Behind
<1>12. ASSUME NEW r \in Routes, Behind(r)', ~Behind(r) PROVE r = h
  <2>1. PICK i \in 1..n : /\ i <= Len(r) /\ \A j \in 1..(i - 1) : r[j] = Place(j)'
                          /\ r[i][2] < Place(i)'[2]
    BY <1>1, <1>12 DEF Behind
  <2>2. \A j \in 1..(i - 1) : r[j] = Place(j)
    BY <1>1, <2>1
  <2>a. ~(r[i][2] < Place(i)[2])
    <3>1. i \in 1..Len(stack) /\ i <= Len(r)
      BY <2>1
    <3> QED
      BY <1>12, <2>2, <3>1 DEF Behind
  <2>3. i = n
    <3>1. i # n => i \in 1..(n - 1)
      BY <1>1
    <3> QED
      BY <1>1, <2>1, <2>a, <3>1
  <2>4. r[n][1] = Place(n)[1]
    BY <2>1, <2>2, <2>3, SameStruct
  <2>5. Len(r) \in Nat /\ r[n][2] \in Nat /\ r[n] = <<r[n][1], r[n][2]>>
    BY <1>1, <1>5, <2>1, <2>3, RouteType
  <2>6. r[n][2] = Top.next
    BY <1>1, <1>2, <2>1, <2>a, <2>3, <2>5
  <2>7. r[n] = Place(n)
    BY <1>1, <2>4, <2>5, <2>6
  <2>8. Len(r) = n
    <3>1. ASSUME Len(r) # n PROVE FALSE
      <4>1. n \in 1..(Len(r) - 1)
        BY <1>1, <2>1, <2>3, <2>5, <3>1
      <4>2. FieldAt(r[n]).kind = "struct"
        BY <1>5, <4>1, RouteType
      <4> QED
        BY <1>3, <2>7, <4>2, PlaceType
    <3> QED
      BY <3>1
  <2>9. \A j \in 1..n : r[j] = h[j]
    <3>1. \A j \in 1..n : j \in 1..(n - 1) \/ j = n
      BY <1>1
    <3> QED
      BY <1>4, <2>2, <2>3, <2>7, <3>1
  <2> QED
    BY <1>4, <1>5, <2>8, <2>9, SameRoute
<1> QED
  BY <1>4, <1>6, <1>8, <1>9, <1>10, <1>11, <1>12

\* Into a struct, none is.
LEMMA GoneEnter ==
  ASSUME StackInv, FramesInv, NEW f, f.next = 1, pc = "walk", stack' = Append(Passed, f),
         types' = types
  PROVE  Gone' = Gone
<1> PICK n : n = Len(stack)
  OBVIOUS
<1>1. /\ Len(stack') = n + 1 /\ n \in Nat \ {0} /\ stack'[n + 1] = f
      /\ \A i \in 1..n : Place(i)' = Place(i)
  BY EnterKeeps
<1>2. types \in [Types -> Seq(Field)] /\ stack # <<>> /\ stack' # <<>>
  BY <1>1 DEF StackInv
<1>3. Gone = {r \in Routes : Behind(r)} /\ Gone' = {r \in Routes : Behind(r)'}
  <2>1. Routes' = Routes
    BY RoutesKept
  <2> QED
    BY <1>2, <2>1 DEF Gone
<1>4. \A i \in 1..(n + 1) : i \in 1..n \/ i = n + 1
  BY <1>1
<1>5. Place(n + 1)'[2] = 1
  BY <1>1 DEF Place
<1>6. ASSUME NEW r \in Routes PROVE Behind(r)' <=> Behind(r)
  <2>1. \A i \in 1..n : \A j \in 1..(i - 1) : j \in 1..n
    BY <1>1
  <2>2. ASSUME NEW i \in 1..n
        PROVE  /\ (\A j \in 1..(i - 1) : r[j] = Place(j)')
                    <=> (\A j \in 1..(i - 1) : r[j] = Place(j))
               /\ r[i][2] < Place(i)'[2] <=> r[i][2] < Place(i)[2]
    BY <1>1, <2>1
  <2>3. ~(n + 1 <= Len(r) /\ r[n + 1][2] < Place(n + 1)'[2])
    <3>1. n + 1 <= Len(r) => r[n + 1][2] \in Nat \ {0}
      BY <1>1, <1>2, RouteType
    <3> QED
      BY <1>5, <3>1
  <2>4. Behind(r)' => Behind(r)
    <3> SUFFICES ASSUME Behind(r)' PROVE Behind(r)
      OBVIOUS
    <3>1. PICK i \in 1..(n + 1) : /\ i <= Len(r) /\ \A j \in 1..(i - 1) : r[j] = Place(j)'
                                  /\ r[i][2] < Place(i)'[2]
      BY <1>1 DEF Behind
    <3>2. i \in 1..n
      BY <1>4, <2>3, <3>1
    <3> QED
      BY <2>2, <3>1, <3>2 DEF Behind
  <2>5. Behind(r) => Behind(r)'
    <3> SUFFICES ASSUME Behind(r) PROVE Behind(r)'
      OBVIOUS
    <3>1. PICK i \in 1..n : /\ i <= Len(r) /\ \A j \in 1..(i - 1) : r[j] = Place(j)
                            /\ r[i][2] < Place(i)[2]
      BY DEF Behind
    <3>2. i \in 1..Len(stack')
      BY <1>1
    <3> QED
      BY <2>2, <3>1, <3>2 DEF Behind
  <2> QED
    BY <2>4, <2>5
<1> QED
  BY <1>3, <1>6

\* Out of a struct, the route to it is gone, for all that are through it are.
LEMMA GoneLeave ==
  ASSUME StackInv, FramesInv, NEW n, n = Len(stack), n > 1,
         NEW p, p = [j \in 1..(n - 1) |-> Place(j)],
         pc = "walk", AtEnd, stack' = Front(stack), types' = types
  PROVE  /\ Gone' = Gone \cup {p} /\ p \in Routes
         /\ Len(p) = n - 1 /\ \A j \in 1..(n - 1) : p[j][1] = stack[j].type
         /\ FieldAt(Last(p)).kind = "struct" /\ FieldAt(Last(p)).type = stack[n].type
<1> DEFINE m == n - 1
<1>1. /\ Len(stack') = m /\ n \in Nat \ {0} /\ m \in Nat \ {0}
      /\ \A i \in 1..(m - 1) : Place(i)' = Place(i)
      /\ Place(m)[2] \in Nat /\ Place(m)' = <<Place(m)[1], Place(m)[2] + 1>>
  <2>1. n - 2 = m - 1
    BY LeaveKeeps
  <2> QED
    BY <2>1, LeaveKeeps
<1>2. types \in [Types -> Seq(Field)] /\ stack # <<>> /\ stack' # <<>>
  BY <1>1 DEF StackInv
<1>3. Gone = {r \in Routes : Behind(r)} /\ Gone' = {r \in Routes : Behind(r)'}
  <2>1. Routes' = Routes
    BY RoutesKept
  <2> QED
    BY <1>2, <2>1 DEF Gone
<1>4. m \in 1..m /\ m \in 1..n /\ m # n /\ n \in 1..n
  BY <1>1
<1>5. p \in Routes /\ Len(p) = m /\ \A j \in 1..m : p[j] = Place(j)
  <2> HIDE DEF m
  <2>1. p = [j \in 1..m |-> Place(j)]
    BY DEF m
  <2>2. p \in Routes /\ Len(p) = m
    BY <1>4, <2>1, BeforeRoute
  <2>3. \A j \in 1..m : p[j] = Place(j)
    BY <2>1
  <2> QED
    BY <2>2, <2>3
<1>6. Linked(m) /\ m + 1 = n
  BY <1>1 DEF FramesInv
<1>7. Last(p) = Place(m)
  BY <1>2, <1>4, <1>5, RouteType
<1>8. FieldAt(Last(p)).kind = "struct" /\ FieldAt(Last(p)).type = stack[n].type
  BY <1>6, <1>7 DEF Linked
<1>9. \A j \in 1..m : p[j][1] = stack[j].type
  BY <1>5 DEF Place
<1>10. Top = stack[n] /\ stack[n].type \in Types /\ Place(n) = <<stack[n].type, stack[n].next>>
       /\ stack[n].next \in Nat /\ stack[n].next > Len(types[stack[n].type])
       /\ Len(types[stack[n].type]) \in Nat
  <2>1. Top = stack[n] /\ Top \in Frame
    BY FieldType
  <2>2. stack[n].type \in Types /\ stack[n].next \in Nat
    BY <2>1 DEF Frame
  <2>3. Place(n) = <<stack[n].type, stack[n].next>>
    BY <2>2 DEF Place
  <2> QED
    BY <1>2, <2>1, <2>2, <2>3 DEF AtEnd
<1> HIDE DEF m
<1>11. ASSUME NEW r \in Routes, Behind(r) PROVE Behind(r)'
  <2>1. PICK i \in 1..n : /\ i <= Len(r) /\ \A j \in 1..(i - 1) : r[j] = Place(j)
                          /\ r[i][2] < Place(i)[2]
    BY <1>11 DEF Behind
  <2>2. CASE i \in 1..(m - 1)
    <3>1. i \in 1..m /\ \A j \in 1..(i - 1) : j \in 1..(m - 1)
      BY <1>1, <2>2
    <3>2. r[i][2] < Place(i)'[2] /\ \A j \in 1..(i - 1) : r[j] = Place(j)'
      BY <1>1, <2>1, <2>2, <3>1
    <3> QED
      BY <1>1, <2>1, <3>1, <3>2 DEF Behind
  <2>3. CASE i = m \/ i = n
    <3>1. Len(r) \in Nat /\ m <= Len(r) /\ \A j \in 1..(m - 1) : r[j] = Place(j)'
      <4>1. Len(r) \in Nat
        BY <1>2, RouteType
      <4>2. \A j \in 1..(m - 1) : j \in 1..(i - 1)
        BY <1>1, <1>6, <2>3
      <4> QED
        BY <1>1, <1>6, <2>1, <2>3, <4>1, <4>2
    <3>2. r[m][2] \in Nat
      BY <1>1, <1>2, <3>1, RouteType
    <3>3. r[m][2] <= Place(m)[2]
      <4>1. CASE i = m
        BY <1>1, <2>1, <3>2, <4>1
      <4>2. CASE i = n
        <5>1. m \in 1..(i - 1)
          BY <1>1, <1>6, <4>2
        <5> QED
          BY <1>1, <2>1, <5>1
      <4> QED
        BY <2>3, <4>1, <4>2
    <3>4. r[m][2] < Place(m)'[2]
      BY <1>1, <3>2, <3>3
    <3> QED
      BY <1>1, <1>4, <3>1, <3>4 DEF Behind
  <2> QED
    BY <1>1, <1>6, <2>2, <2>3
<1>12. Behind(p)'
  <2>1. \A j \in 1..(m - 1) : j \in 1..m
    BY <1>1
  <2>2. m <= Len(p) /\ (\A j \in 1..(m - 1) : p[j] = Place(j)') /\ p[m][2] < Place(m)'[2]
    BY <1>1, <1>4, <1>5, <2>1
  <2> QED
    BY <1>1, <1>4, <2>2 DEF Behind
<1>13. ASSUME NEW r \in Routes, Behind(r)', ~Behind(r) PROVE r = p
  <2>1. PICK i \in 1..m : /\ i <= Len(r) /\ \A j \in 1..(i - 1) : r[j] = Place(j)'
                          /\ r[i][2] < Place(i)'[2]
    BY <1>1, <1>13 DEF Behind
  <2>2. \A j \in 1..(i - 1) : r[j] = Place(j)
    <3>1. \A j \in 1..(i - 1) : j \in 1..(m - 1)
      BY <1>1
    <3> QED
      BY <1>1, <2>1, <3>1
  <2>3. i \in 1..Len(stack) /\ Len(r) \in Nat
    BY <1>1, <1>2, <1>6, <2>1, RouteType
  <2>4. ~(r[i][2] < Place(i)[2])
    BY <1>13, <2>1, <2>2, <2>3 DEF Behind
  <2>5. i = m
    <3>1. i # m => i \in 1..(m - 1)
      BY <1>1
    <3> QED
      BY <1>1, <2>1, <2>4, <3>1
  <2>6. r[m][1] = Place(m)[1]
    BY <2>1, <2>2, <2>3, <2>5, SameStruct
  <2>7. r[m][2] \in Nat /\ r[m] = <<r[m][1], r[m][2]>>
    BY <1>1, <1>2, <2>1, <2>3, <2>5, RouteType
  <2>8. r[m][2] = Place(m)[2]
    BY <1>1, <2>1, <2>4, <2>5, <2>7
  <2>9. r[m] = Place(m)
    BY <2>6, <2>7, <2>8 DEF Place
  <2>10. \A j \in 1..m : r[j] = Place(j)
    <3>1. \A j \in 1..m : j \in 1..(m - 1) \/ j = m
      BY <1>1
    <3> QED
      BY <2>2, <2>5, <2>9, <3>1
  <2>11. Len(r) = m
    <3> SUFFICES ASSUME Len(r) # m PROVE FALSE
      OBVIOUS
    <3>1. n <= Len(r) /\ n \in 1..Len(r)
      BY <1>1, <1>6, <2>1, <2>3, <2>5
    <3>2. \A j \in 1..(n - 1) : r[j] = Place(j)
      BY <1>6, <1>1, <2>10
    <3>3. r[n][1] = stack[n].type
      BY <1>4, <3>1, <3>2, SameStruct
    <3>4. r[n][2] \in 1..Len(types[stack[n].type])
      BY <1>2, <3>1, <3>3, RouteType
    <3>5. r[n][2] < Place(n)[2]
      BY <1>10, <3>4
    <3> QED
      BY <1>4, <1>13, <3>1, <3>2, <3>5 DEF Behind
  <2> QED
    BY <1>2, <1>5, <2>10, <2>11, SameRoute
<1> QED
  BY <1>3, <1>5, <1>8, <1>9, <1>11, <1>12, <1>13 DEF m

\* Out of the struct given to SchemaOf, all routes are gone.
LEMMA GoneLast ==
  ASSUME StackInv, FramesInv, Len(stack) = 1, pc = "walk", AtEnd, stack' = <<>>,
         types' = types
  PROVE  Gone' = Gone
<1>1. types \in [Types -> Seq(Field)] /\ stack # <<>> /\ 1 \in 1..Len(stack)
  BY DEF StackInv
<1>2. Top = stack[1] /\ Top \in Frame /\ stack[1].type = Root
  BY FieldType DEF FramesInv
<1>3. Place(1)[2] = Top.next /\ Top.next \in Nat /\ Len(types[Root]) \in Nat
  <2>1. Top.next \in Nat /\ Top.type \in Types
    BY <1>2 DEF Frame
  <2> QED
    BY <1>1, <1>2, <2>1 DEF Place
<1>4. Top.next > Len(types[Root])
  BY <1>2 DEF AtEnd
<1>5. ASSUME NEW r \in Routes PROVE Behind(r)
  <2>1. Len(r) \in Nat \ {0} /\ 1 <= Len(r) /\ r[1][2] \in 1..Len(types[Root])
    BY <1>1, RouteType
  <2>2. r[1][2] < Place(1)[2]
    BY <1>3, <1>4, <2>1
  <2> QED
    BY <1>1, <2>1, <2>2 DEF Behind
<1> QED
  BY <1>1, <1>5, RoutesKept DEF Gone
-----------------------------------------------------------------------------
(* What the schema has of them.                                              *)

KindOf(r)  == FieldAt(Last(r)).kind
LeavesGone == {r \in Gone : KindOf(r) = "leaf"}

\* No struct that is gone was of a type it is in.
StructsInv ==
  \A r \in Gone : /\ KindOf(r) # "badMetadata"
                  /\ KindOf(r) = "struct" =>
                       \A i \in 1..Len(r) : r[i][1] # FieldAt(Last(r)).type

Sound(r) == /\ SchemaKind(FieldAt(Last(r)).holds) # "unsupported"
            /\ PathOf(r) # <<>> /\ ~EmptyFlag(PathOf(r))

\* The leaves that are gone are those the schema has, each by paths of its own.
LeavesInv ==
  /\ \A r \in LeavesGone : Sound(r)
  /\ \A q, r \in LeavesGone : PathOf(q) = PathOf(r) \/ LoadOf(q) = LoadOf(r) => q = r
  /\ seen = {PathOf(r) : r \in LeavesGone} /\ seenLoad = {LoadOf(r) : r \in LeavesGone}
  /\ matched = seen \cap DOMAIN overrides
  /\ \A r \in LeavesGone : \E n \in 1..Len(bindings) : Binds(bindings[n], r)
  /\ \A n \in 1..Len(bindings) : \E r \in LeavesGone : Binds(bindings[n], r)
  /\ IsFiniteSet(LeavesGone) /\ Cardinality(LeavesGone) = Len(bindings)

VerdictInv ==
  /\ pc = "recursive" => Recursive
  /\ pc = "rejected" => Faulty
  /\ pc = "done" => AllMatched

LEMMA GivenKept ==
  ASSUME types' = types, overrides' = overrides
  PROVE  /\ Routes' = Routes /\ Recursive' = Recursive /\ Faulty' = Faulty
         /\ \A r : /\ PathOf(r)' = PathOf(r) /\ LoadOf(r)' = LoadOf(r)
                   /\ FieldAt(Last(r))' = FieldAt(Last(r)) /\ KindOf(r)' = KindOf(r)
                   /\ Sound(r)' <=> Sound(r)
         /\ \A b, r : Binds(b, r)' <=> Binds(b, r)
<1>1. Routes' = Routes /\ Recursive' = Recursive
  BY DEF Routes, Recursive, RoutesTo, Starts, FieldAt, Steps
<1>2. \A r : /\ PathOf(r)' = PathOf(r) /\ LoadOf(r)' = LoadOf(r)
             /\ FieldAt(Last(r))' = FieldAt(Last(r)) /\ KindOf(r)' = KindOf(r)
             /\ Sound(r)' <=> Sound(r)
  BY DEF PathOf, LoadOf, FieldAt, KindOf, Sound, EmptyFlag, Last
<1>3. Faulty' = Faulty
  BY DEF Faulty, Leaves, PathOf, LoadOf, EmptyFlag, RoutesTo, Starts, FieldAt, Steps
<1>4. \A b, r : Binds(b, r)' <=> Binds(b, r)
  BY DEF Binds, PathOf, LoadOf, CLIOf, RedactOf, FieldAt, Last
<1> QED
  BY <1>1, <1>2, <1>3, <1>4

\* The route to the field under way is spelt like it.
LEMMA HereIs ==
  ASSUME StackInv, FramesInv, NEW n, n = Len(stack), NEW h, h = [j \in 1..n |-> Place(j)],
         Len(h) = n, pc = "walk", ~AtEnd
  PROVE  /\ PathOf(h) = PathHere /\ LoadOf(h) = LoadHere
         /\ Wanted <=> \A i \in 1..Len(h) : FieldAt(h[i]).cli
<1>1. \A j \in 1..n : h[j] = Place(j)
  OBVIOUS
<1>2. /\ [j \in 1..n |-> FieldAt(h[j]).path] = [j \in 1..n |-> FieldAt(Place(j)).path]
      /\ [j \in 1..n |-> FieldAt(h[j]).load] = [j \in 1..n |-> FieldAt(Place(j)).load]
  BY <1>1
<1>3. /\ PathHere = FlattenSeq([j \in 1..n |-> FieldAt(Place(j)).path])
      /\ LoadHere = FlattenSeq([j \in 1..n |-> FieldAt(Place(j)).load])
      /\ Wanted <=> \A j \in 1..n : FieldAt(Place(j)).cli
  BY OneFurther
<1> QED
  BY <1>1, <1>2, <1>3 DEF PathOf, LoadOf

LEMMA NewBindingBinds ==
  ASSUME NEW h, PathOf(h) = PathHere, LoadOf(h) = LoadHere, FieldAt(Last(h)) = F,
         Wanted <=> \A i \in 1..Len(h) : FieldAt(h[i]).cli
  PROVE  Binds(Zeroed(Overridden(NewBinding)), h)
<1> DEFINE tagged == \A i \in 1..Len(h) : FieldAt(h[i]).cli
           o      == overrides[PathHere]
<1>1. Wanted \in BOOLEAN /\ tagged \in BOOLEAN /\ Wanted = tagged
  BY DEF Wanted
<1>2. CASE PathHere \notin DOMAIN overrides
  <2>1. Overridden(NewBinding) = NewBinding
    BY <1>2 DEF Overridden, NewBinding
  <2>2. CLIOf(h) = tagged /\ RedactOf(h) = F.redact
    BY <1>2 DEF CLIOf, RedactOf
  <2> DEFINE b == NewBinding
  <2>3. /\ b.path = PathHere /\ b.load = LoadHere /\ b.holds = F.holds
        /\ b.default = F.default /\ b.cli = Wanted
        /\ b.redacted = F.redact /\ b.shown = Shown(F.redact)
        /\ DOMAIN b = {"path", "load", "holds", "flag", "cli", "redacted", "default", "shown",
                       "parser"}
    BY DEF NewBinding
  <2> HIDE DEF b, tagged
  <2>4. /\ Zeroed(b).path = b.path /\ Zeroed(b).load = b.load /\ Zeroed(b).cli = b.cli
        /\ Zeroed(b).redacted = b.redacted /\ Zeroed(b).shown = b.shown
        /\ Zeroed(b).default = IF b.redacted THEN ZeroValue(b.holds) ELSE b.default
    BY <2>3 DEF Zeroed
  <2>5. b.cli = CLIOf(h) /\ b.redacted = RedactOf(h)
    BY <1>1, <2>2, <2>3
  <2>6. b.shown = IF b.redacted THEN Redacted ELSE Format(F.default, F.holds)
    BY <2>3 DEF Shown
  <2>7. Binds(Zeroed(b), h)
    BY <2>3, <2>4, <2>5, <2>6 DEF Binds
  <2> QED
    BY <2>1, <2>7 DEF b
<1>3. CASE PathHere \in DOMAIN overrides
  <2> DEFINE b == Overridden(NewBinding)
  <2>1. /\ b.path = PathHere /\ b.load = LoadHere /\ b.holds = F.holds
        /\ b.default = F.default /\ b.cli = Switched(o.cli, Wanted)
        /\ b.redacted = Switched(o.redact, F.redact)
        /\ b.shown = Shown(Switched(o.redact, F.redact))
        /\ DOMAIN b = {"path", "load", "holds", "flag", "cli", "redacted", "default", "shown",
                       "parser"}
    BY <1>3 DEF Overridden, NewBinding
  <2>2. CLIOf(h) = Switched(o.cli, tagged) /\ RedactOf(h) = Switched(o.redact, F.redact)
    BY <1>3 DEF CLIOf, RedactOf
  <2> HIDE DEF b, o, tagged
  <2>3. /\ Zeroed(b).path = b.path /\ Zeroed(b).load = b.load /\ Zeroed(b).cli = b.cli
        /\ Zeroed(b).redacted = b.redacted /\ Zeroed(b).shown = b.shown
        /\ Zeroed(b).default = IF b.redacted THEN ZeroValue(b.holds) ELSE b.default
    BY <2>1 DEF Zeroed
  <2>4. b.cli = CLIOf(h) /\ b.redacted = RedactOf(h)
    BY <1>1, <2>1, <2>2
  <2>5. b.shown = IF b.redacted THEN Redacted ELSE Format(F.default, F.holds)
    BY <2>1 DEF Shown
  <2>6. Binds(Zeroed(b), h)
    BY <2>1, <2>3, <2>4, <2>5 DEF Binds
  <2> QED
    BY <2>6 DEF b
<1> QED
  BY <1>2, <1>3

SchemaInv == StackInv /\ FramesInv /\ StructsInv /\ LeavesInv /\ VerdictInv

LEMMA LeavesAre == Leaves = {r \in Routes : KindOf(r) = "leaf"}
BY DEF Leaves, Routes, RoutesTo, Kinds, KindOf

LEMMA GoneRoutes == Gone \subseteq Routes /\ LeavesGone \subseteq Leaves
BY LeavesAre DEF Gone, LeavesGone

\* A step without a leaf leaves what there is of them.
LEMMA LeavesKept ==
  ASSUME LeavesInv, types' = types, overrides' = overrides, LeavesGone' = LeavesGone,
         UNCHANGED <<seen, seenLoad, matched, bindings>>
  PROVE  LeavesInv'
<1>1. /\ \A r \in LeavesGone' : Sound(r)'
      /\ \A q, r \in LeavesGone' : PathOf(q)' = PathOf(r)' \/ LoadOf(q)' = LoadOf(r)' => q = r
  BY GivenKept DEF LeavesInv
<1>2. /\ seen' = {PathOf(r)' : r \in LeavesGone'}
      /\ seenLoad' = {LoadOf(r)' : r \in LeavesGone'}
      /\ matched' = seen' \cap DOMAIN overrides'
  <2>1. /\ {PathOf(r)' : r \in LeavesGone'} = {PathOf(r) : r \in LeavesGone}
        /\ {LoadOf(r)' : r \in LeavesGone'} = {LoadOf(r) : r \in LeavesGone}
    BY GivenKept
  <2> QED
    BY <2>1 DEF LeavesInv
<1>3. /\ \A r \in LeavesGone' : \E n \in 1..Len(bindings') : Binds(bindings[n], r)'
      /\ \A n \in 1..Len(bindings') : \E r \in LeavesGone' : Binds(bindings[n], r)'
  <2>1. \A n, r : Binds(bindings[n], r)' <=> Binds(bindings[n], r)
    BY DEF Binds, PathOf, LoadOf, CLIOf, RedactOf, FieldAt, Last
  <2> QED
    BY <2>1 DEF LeavesInv
<1>4. IsFiniteSet(LeavesGone') /\ Cardinality(LeavesGone') = Len(bindings')
  BY DEF LeavesInv
<1> QED
  BY <1>1, <1>2, <1>3, <1>4 DEF LeavesInv

LEMMA StructsKept ==
  ASSUME StructsInv, types' = types, overrides' = overrides,
         \A r \in Gone' : \/ r \in Gone
                          \/ KindOf(r) \in {"leaf", "skipped"}
                          \/ KindOf(r) = "struct"
                             /\ \A i \in 1..Len(r) : r[i][1] # FieldAt(Last(r)).type
  PROVE  StructsInv'
<1>1. \A r \in Gone' : /\ KindOf(r) # "badMetadata"
                       /\ KindOf(r) = "struct" =>
                            \A i \in 1..Len(r) : r[i][1] # FieldAt(Last(r)).type
  BY DEF StructsInv
<1> QED
  BY <1>1, GivenKept DEF StructsInv

LEMMA VerdictKept ==
  ASSUME VerdictInv, types' = types, overrides' = overrides, matched' = matched,
         pc' = pc \/ pc' \notin Results
  PROVE  VerdictInv'
<1>1. Recursive' = Recursive /\ Faulty' = Faulty
  BY GivenKept
<1> QED
  BY <1>1 DEF VerdictInv, AllMatched, Results

LEMMA LeafNext ==
  ASSUME LeavesInv, types' = types, overrides' = overrides,
         \E S : bindings \in Seq(S),
         NEW b, bindings' = Append(bindings, b), NEW h, Binds(b, h), Sound(h),
         LeavesGone' = LeavesGone \cup {h}, h \notin LeavesGone,
         PathOf(h) \notin seen, LoadOf(h) \notin seenLoad,
         seen' = seen \cup {PathOf(h)}, seenLoad' = seenLoad \cup {LoadOf(h)},
         matched' = matched \cup ({PathOf(h)} \cap DOMAIN overrides)
  PROVE  LeavesInv'
<1> DEFINE n == Len(bindings)
<1>1. PICK S : bindings \in Seq(S)
  OBVIOUS
<1>2. /\ Len(bindings') = n + 1 /\ n \in Nat /\ bindings'[n + 1] = b
      /\ \A i \in 1..n : bindings'[i] = bindings[i]
  BY <1>1, AppendIs
<1> HIDE DEF n
<1>3. \A i \in 1..(n + 1) : i \in 1..n \/ i = n + 1
  BY <1>2
<1>4. \A i \in 1..n : i \in 1..(n + 1)
  BY <1>2
<1>5. /\ \A r \in LeavesGone' : Sound(r)'
      /\ \A q, r \in LeavesGone' : PathOf(q)' = PathOf(r)' \/ LoadOf(q)' = LoadOf(r)' => q = r
  <2>1. \A r \in LeavesGone : PathOf(r) # PathOf(h) /\ LoadOf(r) # LoadOf(h)
    BY DEF LeavesInv
  <2>2. \A r \in LeavesGone' : r \in LeavesGone \/ r = h
    OBVIOUS
  <2>3. \A r \in LeavesGone' : Sound(r)
    BY <2>2 DEF LeavesInv
  <2>4. \A q, r \in LeavesGone' : PathOf(q) = PathOf(r) \/ LoadOf(q) = LoadOf(r) => q = r
    BY <2>1, <2>2 DEF LeavesInv
  <2> QED
    BY <2>3, <2>4, GivenKept
<1>6. /\ seen' = {PathOf(r)' : r \in LeavesGone'}
      /\ seenLoad' = {LoadOf(r)' : r \in LeavesGone'}
      /\ matched' = seen' \cap DOMAIN overrides'
  <2>1. /\ {PathOf(r)' : r \in LeavesGone'} = {PathOf(r) : r \in LeavesGone} \cup {PathOf(h)}
        /\ {LoadOf(r)' : r \in LeavesGone'} = {LoadOf(r) : r \in LeavesGone} \cup {LoadOf(h)}
    BY GivenKept
  <2> QED
    BY <2>1 DEF LeavesInv
<1>7. \A i, r : Binds(bindings[i], r)' <=> Binds(bindings'[i], r)
  <2>1. ASSUME NEW r
        PROVE  /\ PathOf(r)' = PathOf(r) /\ LoadOf(r)' = LoadOf(r) /\ CLIOf(r)' = CLIOf(r)
               /\ RedactOf(r)' = RedactOf(r) /\ FieldAt(Last(r))' = FieldAt(Last(r))
    BY DEF PathOf, LoadOf, CLIOf, RedactOf, FieldAt, Last
  <2> QED
    BY <2>1, Zenon DEF Binds
<1>8. \A r \in LeavesGone' : \E i \in 1..Len(bindings') : Binds(bindings[i], r)'
  <2> SUFFICES ASSUME NEW r \in LeavesGone'
               PROVE  \E i \in 1..(n + 1) : Binds(bindings'[i], r)
    BY <1>2, <1>7
  <2>1. CASE r = h
    BY <1>2, <2>1
  <2>2. CASE r \in LeavesGone
    <3>1. PICK i \in 1..n : Binds(bindings[i], r)
      BY <2>2 DEF LeavesInv, n
    <3> QED
      BY <1>2, <1>4, <3>1
  <2> QED
    BY <2>1, <2>2
<1>9. \A i \in 1..Len(bindings') : \E r \in LeavesGone' : Binds(bindings[i], r)'
  <2> SUFFICES ASSUME NEW i \in 1..(n + 1) PROVE \E r \in LeavesGone' : Binds(bindings'[i], r)
    BY <1>2, <1>7
  <2>1. CASE i = n + 1
    BY <1>2, <2>1
  <2>2. CASE i \in 1..n
    BY <1>2, <2>2 DEF LeavesInv, n
  <2> QED
    BY <1>3, <2>1, <2>2
<1>10. IsFiniteSet(LeavesGone') /\ Cardinality(LeavesGone') = Len(bindings')
  <2>1. IsFiniteSet(LeavesGone) /\ Cardinality(LeavesGone) = n
    BY DEF LeavesInv, n
  <2>2. /\ IsFiniteSet(LeavesGone \cup {h})
        /\ Cardinality(LeavesGone \cup {h}) = IF h \in LeavesGone THEN Cardinality(LeavesGone)
                                              ELSE Cardinality(LeavesGone) + 1
    BY <2>1, FS_AddElement
  <2> QED
    BY <1>2, <2>1, <2>2
<1> QED
  BY <1>5, <1>6, <1>8, <1>9, <1>10 DEF LeavesInv

\* The field under way is at the end of a route that is not gone.
LEMMA HereRoute ==
  ASSUME StackInv, FramesInv, NEW n, n = Len(stack), NEW h, h = [j \in 1..n |-> Place(j)],
         pc = "walk", ~AtEnd
  PROVE  /\ h \in Routes /\ h \notin Gone /\ Len(h) = n /\ n \in Nat \ {0}
         /\ FieldAt(Last(h)) = F /\ KindOf(h) = F.kind
         /\ \A j \in 1..n : h[j][1] = stack[j].type
<1>1. n \in Nat \ {0} /\ n \in 1..n /\ stack # <<>>
  BY FieldType DEF StackInv
<1>2. h \in Routes /\ Len(h) = n /\ \A j \in 1..n : h[j] = Place(j)
  BY <1>1, BeforeRoute
<1>3. types \in [Types -> Seq(Field)]
  BY DEF StackInv
<1>4. FieldAt(Last(h)) = F
  <2>1. Last(h) = Place(n)
    BY <1>1, <1>2, <1>3, RouteType
  <2> QED
    BY <1>1, <2>1, PlaceType
<1>5. ~Behind(h)
  <2> SUFFICES ASSUME NEW i \in 1..n, h[i][2] < Place(i)[2] PROVE FALSE
    BY DEF Behind
  <2>1. Place(i)[2] \in 1..Len(types[Place(i)[1]])
    BY <1>2, <1>3, RouteType
  <2> QED
    BY <1>2, <2>1
<1>6. h \notin Gone
  BY <1>1, <1>5 DEF Gone
<1>7. \A j \in 1..n : h[j][1] = stack[j].type
  BY <1>2 DEF Place
<1> QED
  BY <1>1, <1>2, <1>4, <1>6, <1>7 DEF KindOf

LEMMA RejectedLeaf ==
  ASSUME StackInv, FramesInv, LeavesInv, pc = "walk", ~AtEnd, F.kind = "leaf",
         ~LeafAccepted
  PROVE  Faulty
<1> PICK n, h : n = Len(stack) /\ h = [j \in 1..n |-> Place(j)]
  OBVIOUS
<1>1. /\ h \in Routes /\ h \notin Gone /\ Len(h) = n /\ FieldAt(Last(h)) = F
      /\ KindOf(h) = "leaf"
  BY HereRoute
<1>2. PathOf(h) = PathHere /\ LoadOf(h) = LoadHere
  BY <1>1, HereIs
<1>3. h \in Leaves /\ h \notin LeavesGone /\ LeavesGone \subseteq Leaves
  BY <1>1, LeavesAre, GoneRoutes DEF LeavesGone
<1>4. ASSUME PathHere = <<>> PROVE Faulty
  BY <1>2, <1>3, <1>4 DEF Faulty
<1>5. ASSUME PathHere \in seen \/ LoadHere \in seenLoad PROVE Faulty
  <2>1. PICK r \in LeavesGone : PathOf(r) = PathHere \/ LoadOf(r) = LoadHere
    BY <1>5 DEF LeavesInv
  <2>2. r \in Leaves /\ r # h /\ (PathOf(r) = PathOf(h) \/ LoadOf(r) = LoadOf(h))
    BY <1>2, <1>3, <2>1
  <2> QED
    BY <1>3, <2>2 DEF Faulty
<1>6. ASSUME SchemaKind(F.holds) = "unsupported" PROVE Faulty
  BY <1>1, <1>3, <1>6 DEF Faulty
<1>7. ASSUME EmptyFlag(PathHere) PROVE Faulty
  BY <1>7 DEF Faulty, EmptyFlag
<1> QED
  BY <1>4, <1>5, <1>6, <1>7 DEF LeafAccepted, PathNotEmpty, NewPaths

LEMMA SchemaNext ==
  PathsInv /\ SchemaInv /\ [Next]_schemaVars => SchemaInv'
<1> SUFFICES ASSUME PathsInv, StackInv, FramesInv, StructsInv, LeavesInv, VerdictInv,
                    [Next]_schemaVars
             PROVE  SchemaInv'
  BY DEF SchemaInv
<1>1. StackInv' /\ FramesInv'
  BY StackNext, FramesNext
<1>2. types' = types /\ overrides' = overrides
  BY DEF Next, SkipField, BadMetadata, EnterStruct, Recursion, LeaveStruct, AddLeaf,
         RejectLeaf, CheckOverrides, Result, schemaVars
<1>3. ASSUME Gone' = Gone, UNCHANGED <<seen, seenLoad, matched, bindings>>
      PROVE  StructsInv' /\ LeavesInv'
  <2>1. LeavesGone' = LeavesGone
    BY <1>2, <1>3, GivenKept DEF LeavesGone
  <2> QED
    BY <1>2, <1>3, <2>1, LeavesKept, StructsKept
<1>4. ASSUME stack' = stack PROVE Gone' = Gone
  <2>1. \A i : Place(i)' = Place(i)
    BY <1>4 DEF Place
  <2>2. \A r : Behind(r)' <=> Behind(r)
    BY <1>4, <2>1 DEF Behind
  <2> QED
    BY <1>2, <1>4, <2>2, RoutesKept DEF Gone
<1> PICK n, h : n = Len(stack) /\ h = [j \in 1..n |-> Place(j)]
  OBVIOUS
<1>5. Faulty' = Faulty /\ Recursive' = Recursive
  BY <1>2, GivenKept
<1>6. CASE UNCHANGED schemaVars
  BY <1>1, <1>2, <1>3, <1>4, <1>6, VerdictKept DEF SchemaInv, schemaVars
<1>7. ASSUME NEW r, Result(r), r = "recursive" => Recursive, r = "rejected" => Faulty,
             r = "done" => AllMatched
      PROVE  SchemaInv'
  <2>1. VerdictInv'
    BY <1>2, <1>5, <1>7 DEF Result, VerdictInv, AllMatched
  <2> QED
    BY <1>1, <1>3, <1>4, <1>7, <2>1 DEF Result, SchemaInv
<1>8. CASE SkipField
  <2>1. /\ pc = "walk" /\ ~AtEnd /\ F.kind = "skipped" /\ stack' = Passed
        /\ UNCHANGED <<pc, seen, seenLoad, matched, bindings>>
    BY <1>8 DEF SkipField, AtField
  <2>2. Gone' = Gone \cup {h} /\ FieldAt(Last(h)) = F
    BY <1>2, <2>1, GonePass
  <2>3. KindOf(h) = "skipped"
    BY <2>1, <2>2 DEF KindOf
  <2>4. LeavesGone' = LeavesGone
    BY <1>2, <2>2, <2>3, GivenKept DEF LeavesGone
  <2>5. StructsInv' /\ LeavesInv'
    BY <1>2, <2>1, <2>2, <2>3, <2>4, LeavesKept, StructsKept
  <2> QED
    BY <1>1, <1>2, <2>1, <2>5, VerdictKept DEF SchemaInv
<1>9. CASE BadMetadata
  <2>1. pc = "walk" /\ ~AtEnd /\ F.kind = "badMetadata" /\ Result("rejected")
    BY <1>9 DEF BadMetadata, AtField
  <2>2. h \in Routes /\ KindOf(h) = "badMetadata"
    BY <2>1, HereRoute
  <2>3. h \in RoutesTo({"badMetadata"})
    BY <2>2 DEF Routes, RoutesTo, KindOf
  <2> QED
    BY <1>7, <2>1, <2>3 DEF Faulty
<1>10. CASE EnterStruct
  <2> DEFINE f == NewFrame(F.type, PathHere, LoadHere, Wanted)
  <2>1. /\ pc = "walk" /\ stack' = Append(Passed, f) /\ f.next = 1
        /\ UNCHANGED <<pc, seen, seenLoad, matched, bindings>>
    BY <1>10 DEF EnterStruct, AtField, NewFrame
  <2> HIDE DEF f
  <2>2. Gone' = Gone
    BY <1>2, <2>1, GoneEnter
  <2> QED
    BY <1>1, <1>2, <1>3, <2>1, <2>2, VerdictKept DEF SchemaInv
<1>11. CASE Recursion
  <2>1. pc = "walk" /\ ~AtEnd /\ F.kind = "struct" /\ F.type \in visiting
        /\ Result("recursive")
    BY <1>11 DEF Recursion, AtField
  <2>2. /\ h \in Routes /\ KindOf(h) = "struct" /\ Len(h) = n /\ FieldAt(Last(h)) = F
        /\ \A j \in 1..n : h[j][1] = stack[j].type
    BY <2>1, HereRoute
  <2>3. PICK i \in 1..n : stack[i].type = F.type
    BY <2>1 DEF StackInv
  <2>4. h \in RoutesTo({"struct"})
    BY <2>2 DEF Routes, RoutesTo, KindOf
  <2>5. Recursive
    BY <2>2, <2>3, <2>4 DEF Recursive
  <2> QED
    BY <1>7, <2>1, <2>5
<1>12. CASE LeaveStruct
  <2>1. /\ pc = "walk" /\ AtEnd /\ stack' = Front(stack)
        /\ pc' = (IF n = 1 THEN "check" ELSE "walk")
        /\ UNCHANGED <<seen, seenLoad, matched, bindings>>
    BY <1>12 DEF LeaveStruct
  <2>2. VerdictInv'
    BY <1>2, <2>1, VerdictKept DEF Results
  <2>3. n \in Nat \ {0} /\ Len(stack') = n - 1
    BY <2>1, LeaveKeeps
  <2>4. CASE n = 1
    <3>1. stack' = <<>>
      BY <1>1, <2>3, <2>4 DEF StackInv
    <3>2. Gone' = Gone
      BY <1>2, <2>1, <2>4, <3>1, GoneLast
    <3> QED
      BY <1>1, <1>3, <2>1, <2>2, <3>2 DEF SchemaInv
  <2>5. CASE n > 1
    <3> PICK p : p = [j \in 1..(n - 1) |-> Place(j)]
      OBVIOUS
    <3>1. /\ Gone' = Gone \cup {p} /\ Len(p) = n - 1
          /\ \A j \in 1..(n - 1) : p[j][1] = stack[j].type
          /\ FieldAt(Last(p)).kind = "struct" /\ FieldAt(Last(p)).type = stack[n].type
      <4>1. /\ n = Len(stack) /\ n > 1 /\ p = [j \in 1..(n - 1) |-> Place(j)]
            /\ pc = "walk" /\ AtEnd /\ stack' = Front(stack) /\ types' = types
        BY <1>2, <2>1, <2>5
      <4> QED
        BY ONLY StackInv, FramesInv, <4>1, GoneLeave
    <3>2. \A j \in 1..(n - 1) : p[j][1] # stack[n].type
      <4>1. \A j \in 1..(n - 1) : j \in 1..n /\ j # n /\ n \in 1..n
        BY <2>3
      <4> QED
        BY <3>1, <4>1 DEF StackInv
    <3>3. LeavesGone' = LeavesGone
      BY <1>2, <3>1, GivenKept DEF LeavesGone, KindOf
    <3>4. \A r \in Gone' : \/ r \in Gone
                           \/ /\ KindOf(r) = "struct"
                              /\ \A i \in 1..Len(r) : r[i][1] # FieldAt(Last(r)).type
      BY <3>1, <3>2 DEF KindOf
    <3>5. StructsInv' /\ LeavesInv'
      BY <1>2, <2>1, <3>3, <3>4, LeavesKept, StructsKept
    <3> QED
      BY <1>1, <2>2, <3>5 DEF SchemaInv
  <2> QED
    BY <2>3, <2>4, <2>5
<1>13. CASE AddLeaf
  <2> DEFINE b == Zeroed(Overridden(NewBinding))
  <2>1. /\ pc = "walk" /\ ~AtEnd /\ F.kind = "leaf" /\ LeafAccepted /\ stack' = Passed
        /\ seen' = seen \cup {PathHere} /\ seenLoad' = seenLoad \cup {LoadHere}
        /\ matched' = matched \cup ({PathHere} \cap DOMAIN overrides)
        /\ bindings' = Append(bindings, b) /\ pc' = pc
    BY <1>13 DEF AddLeaf, AtField
  <2>2. /\ Gone' = Gone \cup {h} /\ h \notin Gone /\ Len(h) = n /\ FieldAt(Last(h)) = F
        /\ KindOf(h) = "leaf"
    <3>1. Gone' = Gone \cup {h} /\ h \notin Gone /\ Len(h) = n /\ FieldAt(Last(h)) = F
      BY <1>2, <2>1, GonePass
    <3> QED
      BY <2>1, <3>1 DEF KindOf
  <2>3. /\ PathOf(h) = PathHere /\ LoadOf(h) = LoadHere
        /\ Wanted <=> \A i \in 1..Len(h) : FieldAt(h[i]).cli
    BY <2>1, <2>2, HereIs
  <2>4. Binds(b, h)
    BY <2>2, <2>3, NewBindingBinds
  <2>5. Sound(h) /\ PathOf(h) \notin seen /\ LoadOf(h) \notin seenLoad
    BY <2>1, <2>2, <2>3 DEF Sound, LeafAccepted, PathNotEmpty, NewPaths
  <2>6. LeavesGone' = LeavesGone \cup {h} /\ h \notin LeavesGone
    BY <1>2, <2>2, GivenKept DEF LeavesGone
  <2> HIDE DEF b
  <2>7. LeavesInv'
    BY <1>2, <2>1, <2>3, <2>4, <2>5, <2>6, LeafNext DEF PathsInv
  <2>8. StructsInv'
    BY <1>2, <2>2, StructsKept
  <2>9. VerdictInv'
    BY <1>2, <1>5, <2>1 DEF VerdictInv
  <2> QED
    BY <1>1, <2>7, <2>8, <2>9 DEF SchemaInv
<1>14. CASE RejectLeaf
  BY <1>7, <1>14, RejectedLeaf DEF RejectLeaf, AtField
<1>15. CASE CheckOverrides
  <2>1. pc = "check" /\ stack = <<>> /\ Result(IF AllMatched THEN "done" ELSE "rejected")
    BY <1>15 DEF CheckOverrides, FramesInv
  <2>2. ASSUME ~AllMatched PROVE Faulty
    <3>1. PICK p \in DOMAIN overrides : p \notin matched
      BY <2>2 DEF AllMatched
    <3>2. LeavesGone = Leaves
      BY <2>1, LeavesAre DEF Gone, LeavesGone
    <3>3. \A r \in Leaves : PathOf(r) # p
      BY <3>1, <3>2 DEF LeavesInv
    <3> QED
      BY <3>1, <3>3 DEF Faulty
  <2> QED
    BY <1>7, <2>1, <2>2
<1> QED
  BY <1>6, <1>8, <1>9, <1>10, <1>11, <1>12, <1>13, <1>14, <1>15 DEF Next

LEMMA SchemaInit ==
  ASSUME NEW in \in Inputs, InitWith(in)
  PROVE  SchemaInv
<1>1. StackInv
  BY WalkInit
<1>2. /\ pc = "walk" /\ bindings = <<>> /\ seen = {} /\ seenLoad = {} /\ matched = {}
      /\ stack = <<NewFrame(Root, <<>>, <<>>, TRUE)>>
  BY DEF InitWith
<1>3. /\ Len(stack) = 1 /\ stack # <<>>
      /\ stack[1] = [type |-> Root, next |-> 1, path |-> <<>>, load |-> <<>>, cli |-> TRUE]
  BY <1>2 DEF NewFrame
<1>4. FramesInv
  <2>1. \A i \in 1..Len(stack) : i = 1
    BY <1>3
  <2>2. Spelt(1)
    <3> DEFINE p == [j \in 1..(1 - 1) |-> FieldAt(Place(j)).path]
               l == [j \in 1..(1 - 1) |-> FieldAt(Place(j)).load]
    <3>1. p = <<>> /\ l = <<>>
      OBVIOUS
    <3>2. <<>> \in Seq(Seq(Segments)) /\ \A i \in 1..Len(<<>>) : <<>>[i] = <<>>
      OBVIOUS
    <3>3. FlattenSeq(<<>>) = <<>>
      BY <3>2, FlattenEmpty
    <3>4. stack[1].path = <<>> /\ stack[1].load = <<>> /\ stack[1].cli
      BY <1>3
    <3> QED
      BY <3>1, <3>3, <3>4 DEF Spelt
  <2> QED
    <3>1. stack[1].type = Root /\ stack[1].cli \in BOOLEAN /\ 1..(Len(stack) - 1) = {}
      BY <1>3
    <3>2. \A i \in 1..Len(stack) : Spelt(i) /\ stack[i].cli \in BOOLEAN
      BY <2>1, <2>2, <3>1
    <3> QED
      BY <1>2, <3>1, <3>2 DEF FramesInv
<1>5. Gone = {} /\ LeavesGone = {}
  <2>1. types \in [Types -> Seq(Field)] /\ Place(1)[2] = 1
    BY <1>1, <1>3 DEF StackInv, Place
  <2>2. \A r \in Routes : r[1][2] \in Nat \ {0}
    <3>1. \A r \in Routes : 1 \in 1..Len(r) /\ r[1][2] \in 1..Len(types[r[1][1]])
      BY <2>1, RouteType
    <3> QED
      BY <3>1
  <2>3. \A r \in Routes : ~Behind(r)
    BY <1>3, <2>1, <2>2 DEF Behind
  <2> QED
    BY <1>3, <2>3 DEF Gone, LeavesGone
<1>6. LeavesInv
  BY <1>2, <1>5, FS_EmptySet DEF LeavesInv
<1> QED
  BY <1>1, <1>2, <1>4, <1>5, <1>6 DEF SchemaInv, StructsInv, VerdictInv

LEMMA SchemaInvariant == Spec => [](PathsInv /\ SchemaInv)
<1>1. Init => PathsInv /\ SchemaInv
  BY WalkInit, SchemaInit DEF Init
<1>2. PathsInv /\ SchemaInv /\ [Next]_schemaVars => (PathsInv /\ SchemaInv)'
  BY PathsNext, SchemaNext
<1> QED
  BY <1>1, <1>2, PTL DEF Spec

LEMMA AllLeavesGone ==
  ASSUME SchemaInv, pc = "done"
  PROVE  Gone = Routes /\ LeavesGone = Leaves
BY LeavesAre DEF SchemaInv, FramesInv, Gone, LeavesGone

LEMMA VerdictIsRight == SchemaInv => OnlyFaultsRejected
<1> SUFFICES ASSUME SchemaInv PROVE OnlyFaultsRejected
  OBVIOUS
<1>1. \A i, j \in 1..Len(stack) : stack[i].type = stack[j].type => i = j
  BY DEF SchemaInv, StackInv
<1>2. ASSUME pc = "done" PROVE ~Recursive
  <2> SUFFICES ASSUME NEW r \in RoutesTo({"struct"}),
                      NEW i \in 1..Len(r), r[i][1] = FieldAt(Last(r)).type
               PROVE  FALSE
    BY DEF Recursive
  <2>1. r \in Routes /\ KindOf(r) = "struct"
    BY DEF Routes, RoutesTo, Kinds, KindOf
  <2> QED
    BY <1>2, <2>1, AllLeavesGone DEF SchemaInv, StructsInv
<1>3. ASSUME pc = "done" PROVE ~Faulty
  <2>1. Gone = Routes /\ LeavesGone = Leaves
    BY <1>3, AllLeavesGone
  <2>2. RoutesTo({"badMetadata"}) = {}
    <3>1. \A r \in RoutesTo({"badMetadata"}) : r \in Routes /\ KindOf(r) = "badMetadata"
      BY DEF Routes, RoutesTo, Kinds, KindOf
    <3> QED
      BY <2>1, <3>1 DEF SchemaInv, StructsInv
  <2>3. \A r \in Leaves : /\ SchemaKind(FieldAt(Last(r)).holds) # "unsupported"
                          /\ PathOf(r) # <<>> /\ ~EmptyFlag(PathOf(r))
    BY <2>1 DEF SchemaInv, LeavesInv, Sound
  <2>4. \A q, r \in Leaves : PathOf(q) = PathOf(r) \/ LoadOf(q) = LoadOf(r) => q = r
    BY <2>1 DEF SchemaInv, LeavesInv
  <2>5. \A p \in DOMAIN overrides : \E r \in Leaves : PathOf(r) = p
    <3>1. DOMAIN overrides \subseteq matched /\ matched \subseteq seen
      BY <1>3 DEF SchemaInv, VerdictInv, AllMatched, LeavesInv
    <3>2. \A p \in seen : \E r \in Leaves : PathOf(r) = p
      BY <2>1 DEF SchemaInv, LeavesInv
    <3> QED
      BY <3>1, <3>2
  <2>6. \A p \in DOMAIN overrides : ~EmptyFlag(p)
    BY <2>3, <2>5
  <2> QED
    BY <2>2, <2>3, <2>4, <2>5, <2>6 DEF Faulty
<1>4. (pc = "recursive" => Recursive) /\ (pc = "rejected" => Faulty)
  BY DEF SchemaInv, VerdictInv
<1> QED
  BY <1>1, <1>2, <1>3, <1>4 DEF OnlyFaultsRejected

\* SchemaOf rejects a struct as recursive only if a type is inside itself, and
\* for another fault only if it has one: two leaves with one path or koanf path,
\* an empty path, bad metadata, a type without flags, an override for no leaf;
\* and a struct that has any of them gets no schema.  For any struct types, tags
\* and overrides.
THEOREM RejectsOnlyFaults == Spec => []OnlyFaultsRejected
BY SchemaInvariant, VerdictIsRight, PTL

LEMMA BindingsAre == PathsInv /\ SchemaInv => BindingsAreLeaves
<1> SUFFICES ASSUME PathsInv, SchemaInv, pc = "done"
             PROVE  /\ \A r \in Leaves : \E n \in DOMAIN bindings : Binds(bindings[n], r)
                    /\ Len(bindings) = Cardinality(Leaves)
  BY DEF BindingsAreLeaves
<1>1. LeavesGone = Leaves
  BY AllLeavesGone
<1>2. \A r \in Leaves : \E n \in 1..Len(bindings) : Binds(bindings[n], r)
  BY <1>1 DEF SchemaInv, LeavesInv
<1>3. Cardinality(Leaves) = Len(bindings)
  BY <1>1 DEF SchemaInv, LeavesInv
<1>4. DOMAIN bindings = 1..Len(bindings)
  BY DEF PathsInv
<1> QED
  BY <1>2, <1>3, <1>4

\* A schema has a binding for every leaf of the struct and no other, with the
\* paths, the nocli of the structs around it, the redaction and the default that
\* tags and overrides come to.
THEOREM SchemaHasEveryLeaf == Spec => []BindingsAreLeaves
BY SchemaInvariant, BindingsAre, PTL
-----------------------------------------------------------------------------
(* BindFlags.                                                                *)

\* The names of the bindings that want a flag, before the n-th.
NamedTo(n) == {m \in Wanting : m < n}
GoodNames ==
  /\ \A n \in DOMAIN names : /\ names[n] = NameOf(bindings[n]) /\ names[n] # NoName
                             /\ Normal(names[n]) \notin before
  /\ \A m, n \in DOMAIN names : Normal(names[m]) = Normal(names[n]) => m = n
BoundTo(n) ==
  /\ DOMAIN flags = NamedTo(n)
  /\ defined = before \cup {Normal(names[m]) : m \in NamedTo(n)}
FlagPaths ==
  \A n \in DOMAIN flags : /\ DOMAIN flags[n] = {"value", "set", "path"}
                          /\ flags[n].path = bindings[n].load

FlagsInv ==
  /\ phase \in {"idle", "preflight", "bind", "parse", "refused"}
  /\ phase # "idle" => pc \in Results
  /\ phase \notin {"idle", "refused"} => ~Misused
  /\ phase # "parse" => at \in 1..(Len(bindings) + 1)
  /\ phase \in {"idle", "preflight", "refused"} => flags = <<>> /\ defined = before
  /\ phase = "idle" => names = <<>> /\ at = 1
  /\ phase \in {"preflight", "refused"} => DOMAIN names = NamedTo(at)
  /\ phase \in {"bind", "parse"} => DOMAIN names = Wanting
  /\ phase = "bind" => BoundTo(at)
  /\ phase = "parse" => BoundTo(Len(bindings) + 1)
  /\ phase = "refused" => Misused \/ Conflicting
  /\ call \in Calls
  /\ GoodNames /\ FlagPaths

\* Only SchemaOf changes a schema.
LEMMA WalkStep == [FlagsNext]_vars => [Next]_schemaVars
BY DEF FlagsNext, SchemaStep, BindFlags, RefuseCall, SkipBinding, PreflightName, Refuse,
       LoopEnds, Register, UseFlag, FailToUse, vars, schemaVars

\* How BindFlags is called does not change, nor whether there is a schema once it
\* is called.
LEMMA CallKept ==
  /\ [FlagsNext]_vars => call' = call
  /\ [FlagsNext]_vars /\ pc \in Results => pc' = pc
<1>1. ASSUME SchemaStep PROVE call' = call /\ pc \notin Results
  BY <1>1 DEF SchemaStep, flagVars, Next, SkipField, BadMetadata, EnterStruct, Recursion,
              LeaveStruct, AddLeaf, RejectLeaf, CheckOverrides, AtField, Results
<1>2. ASSUME [FlagsNext]_vars, ~SchemaStep PROVE call' = call /\ pc' = pc
  BY <1>2 DEF FlagsNext, BindFlags, RefuseCall, SkipBinding, PreflightName, Refuse, LoopEnds,
              Register, UseFlag, FailToUse, vars, schemaVars, flagVars
<1> QED
  BY <1>1, <1>2

LEMMA FlagsInvNext == PathsInv /\ PathsInv' /\ FlagsInv /\ [FlagsNext]_vars => FlagsInv'
<1> SUFFICES ASSUME PathsInv, PathsInv', FlagsInv, [FlagsNext]_vars PROVE FlagsInv'
  OBVIOUS
<1>0. /\ call' = call /\ call' \in Calls
      /\ pc \in Results => pc' = pc /\ (Misused' <=> Misused)
  BY CallKept DEF FlagsInv, Misused
<1>1. Len(bindings) \in Nat /\ Len(bindings') \in Nat
  BY DEF PathsInv
<1>2. \A n : n \in Wanting <=> n \in 1..Len(bindings) /\ bindings[n].cli
  BY DEF Wanting
<1>3. CASE UNCHANGED vars
  BY <1>0, <1>3 DEF FlagsInv, NamedTo, Wanting, GoodNames, BoundTo, FlagPaths, Conflicting,
              Misused, vars, schemaVars, flagVars
<1>4. CASE SchemaStep
  <2>1. pc \notin Results /\ UNCHANGED flagVars
    BY <1>4 DEF SchemaStep, Next, SkipField, BadMetadata, EnterStruct, Recursion,
                LeaveStruct, AddLeaf, RejectLeaf, CheckOverrides, AtField, Results
  <2>2. phase = "idle" /\ flags = <<>> /\ defined = before /\ names = <<>> /\ at = 1
    BY <2>1 DEF FlagsInv
  <2>3. phase' = "idle" /\ flags' = <<>> /\ defined' = before' /\ names' = <<>> /\ at' = 1
    BY <2>1, <2>2 DEF flagVars
  <2>4. GoodNames' /\ FlagPaths'
    BY <2>3 DEF GoodNames, FlagPaths
  <2> QED
    BY <1>0, <1>1, <2>3, <2>4 DEF FlagsInv
<1>5. CASE BindFlags
  <2>1. phase = "idle" /\ phase' = "preflight" /\ pc \in Results /\ ~Misused
        /\ names = <<>> /\ at = 1
    BY <1>5 DEF BindFlags, FlagsInv
  <2>2. UNCHANGED <<pc, bindings, at, before, defined, names, flags>>
    BY <1>5 DEF BindFlags, schemaVars
  <2>3. DOMAIN names = NamedTo(at)
    BY <2>1, <1>1 DEF NamedTo, Wanting
  <2>4. (DOMAIN names = NamedTo(at))' /\ GoodNames' /\ FlagPaths'
    BY <2>2, <2>3 DEF NamedTo, Wanting, GoodNames, FlagPaths, FlagsInv
  <2> QED
    BY <1>0, <2>1, <2>2, <2>4 DEF FlagsInv
<1>13. CASE RefuseCall
  <2>1. /\ phase = "idle" /\ phase' = "refused" /\ pc \in Results /\ Misused
        /\ names = <<>> /\ at = 1
        /\ UNCHANGED <<pc, bindings, at, before, defined, names, flags>>
    BY <1>13 DEF RefuseCall, FlagsInv, schemaVars
  <2>2. DOMAIN names = NamedTo(at)
    BY <2>1, <1>1 DEF NamedTo, Wanting
  <2>3. (DOMAIN names = NamedTo(at))' /\ GoodNames' /\ FlagPaths'
    BY <2>1, <2>2 DEF NamedTo, Wanting, GoodNames, FlagPaths, FlagsInv
  <2> QED
    BY <1>0, <2>1, <2>3 DEF FlagsInv
<1>6. CASE SkipBinding
  <2>1. /\ phase \in {"preflight", "bind"} /\ at \in 1..Len(bindings) /\ at' = at + 1
        /\ at \notin Wanting
        /\ UNCHANGED <<pc, phase, bindings, before, defined, names, flags>>
    BY <1>1, <1>6 DEF SkipBinding, B, FlagsInv, Wanting, schemaVars
  <2>2. Wanting' = Wanting
    BY <2>1 DEF Wanting
  <2>3. NamedTo(at)' = NamedTo(at)
    BY <1>1, <1>2, <2>1, <2>2 DEF NamedTo
  <2>4. GoodNames' /\ FlagPaths'
    BY <2>1 DEF GoodNames, FlagPaths, FlagsInv
  <2>5. BoundTo(at) => BoundTo(at)'
    BY <2>1, <2>3 DEF BoundTo
  <2>6. at' \in 1..(Len(bindings') + 1)
    BY <1>1, <2>1
  <2> QED
    BY <1>0, <2>1, <2>2, <2>3, <2>4, <2>5, <2>6 DEF FlagsInv
<1>7. CASE PreflightName
  <2>1. /\ phase = "preflight" /\ at \in 1..Len(bindings) /\ at' = at + 1 /\ B.cli
        /\ B = bindings[at] /\ Name = NameOf(bindings[at]) /\ Acceptable(Name)
        /\ names' = [n \in DOMAIN names \cup {at} |-> IF n = at THEN Name ELSE names[n]]
        /\ UNCHANGED <<pc, phase, bindings, before, defined, flags>>
    BY <1>1, <1>7 DEF PreflightName, AtFlagOf, B, Name, FlagsInv, schemaVars
  <2>2. DOMAIN names = NamedTo(at) /\ flags = <<>> /\ defined = before /\ GoodNames
    BY <2>1 DEF FlagsInv
  <2>3. at \notin DOMAIN names
    BY <1>1, <2>1, <2>2 DEF NamedTo
  <2>4. DOMAIN names' = DOMAIN names \cup {at} /\ names'[at] = Name
        /\ \A n \in DOMAIN names : names'[n] = names[n]
    BY <2>1, <2>3
  <2>5. NamedTo(at)' = DOMAIN names'
    <3>1. Wanting' = Wanting /\ at \in Wanting
      BY <2>1 DEF Wanting
    <3> QED
      BY <1>1, <1>2, <2>1, <2>2, <2>4, <3>1 DEF NamedTo
  <2>6. /\ Name # NoName /\ Normal(Name) \notin before
        /\ \A n \in DOMAIN names : Normal(names[n]) # Normal(Name)
    BY <2>1, <2>2 DEF Acceptable, NotEmpty, NotSeen
  <2>7. GoodNames'
    <3>1. \A n \in DOMAIN names' :
            /\ names'[n] = NameOf(bindings[n]) /\ names'[n] # NoName
            /\ Normal(names'[n]) \notin before
      BY <2>1, <2>2, <2>4, <2>6 DEF GoodNames
    <3>2. \A m, n \in DOMAIN names' : Normal(names'[m]) = Normal(names'[n]) => m = n
      BY <2>2, <2>4, <2>6 DEF GoodNames
    <3> QED
      BY <2>1, <3>1, <3>2 DEF GoodNames
  <2>8. flags' = <<>> /\ defined' = before' /\ FlagPaths'
    BY <2>1, <2>2 DEF FlagPaths
  <2>9. at' \in 1..(Len(bindings') + 1) /\ phase' = "preflight"
    BY <1>1, <2>1 DEF FlagsInv
  <2> QED
    BY <1>0, <2>1, <2>5, <2>7, <2>8, <2>9 DEF FlagsInv
<1>8. CASE Refuse
  <2>1. /\ phase = "preflight" /\ phase' = "refused" /\ at \in 1..Len(bindings) /\ B.cli
        /\ B = bindings[at] /\ Name = NameOf(bindings[at]) /\ ~Acceptable(Name)
        /\ UNCHANGED <<pc, bindings, at, before, defined, names, flags>>
    BY <1>1, <1>8 DEF Refuse, AtFlagOf, B, Name, FlagsInv, schemaVars
  <2>2. DOMAIN names = NamedTo(at) /\ flags = <<>> /\ defined = before /\ GoodNames
    BY <2>1 DEF FlagsInv
  <2>3. at \in Wanting /\ \A n \in DOMAIN names : n \in Wanting \ {at}
    BY <1>1, <2>1, <2>2 DEF NamedTo, Wanting
  <2>4. Conflicting
    <3>1. \/ Name = NoName \/ Normal(Name) \in before
          \/ \E m \in DOMAIN names : Normal(names[m]) = Normal(Name)
      BY <2>1, <2>2 DEF Acceptable, NotEmpty, NotSeen
    <3>2. \A m \in DOMAIN names : names[m] = NameOf(bindings[m])
      BY <2>2 DEF GoodNames
    <3> QED
      BY <2>1, <2>3, <3>1, <3>2 DEF Conflicting
  <2>5. Conflicting' /\ GoodNames' /\ FlagPaths' /\ (DOMAIN names = NamedTo(at))'
    BY <2>1, <2>2, <2>4
       DEF Conflicting, GoodNames, FlagPaths, NamedTo, Wanting, FlagsInv
  <2>6. flags' = <<>> /\ defined' = before' /\ at' \in 1..(Len(bindings') + 1)
    BY <1>1, <2>1, <2>2
  <2> QED
    BY <1>0, <2>1, <2>5, <2>6 DEF FlagsInv
<1>9. CASE LoopEnds
  <2>1. /\ phase \in {"preflight", "bind"} /\ at = Len(bindings) + 1 /\ at' = 1
        /\ phase' = (IF phase = "preflight" THEN "bind" ELSE "parse")
        /\ UNCHANGED <<pc, bindings, before, defined, names, flags>>
    BY <1>1, <1>9 DEF LoopEnds, FlagsInv, schemaVars
  <2>2. NamedTo(Len(bindings) + 1) = Wanting /\ NamedTo(1) = {}
    BY <1>1, <1>2 DEF NamedTo
  <2>3. Wanting' = Wanting /\ NamedTo(1)' = NamedTo(1)
        /\ NamedTo(Len(bindings) + 1)' = NamedTo(Len(bindings) + 1)
    BY <2>1 DEF Wanting, NamedTo
  <2>4. GoodNames' /\ FlagPaths'  /\ at' \in 1..(Len(bindings') + 1)
    BY <1>1, <2>1 DEF GoodNames, FlagPaths, FlagsInv
  <2>5. CASE phase = "preflight"
    <3>1. flags = <<>> /\ defined = before /\ DOMAIN names = Wanting
      BY <2>1, <2>2, <2>5 DEF FlagsInv
    <3>2. BoundTo(at)'
      BY <2>1, <2>2, <2>3, <3>1 DEF BoundTo
    <3> QED
      BY <1>0, <2>1, <2>3, <2>4, <2>5, <3>1, <3>2 DEF FlagsInv
  <2>6. CASE phase = "bind"
    <3>1. BoundTo(at) /\ DOMAIN names = Wanting
      BY <2>6 DEF FlagsInv
    <3>2. BoundTo(Len(bindings) + 1)'
      BY <2>1, <2>3, <3>1 DEF BoundTo
    <3> QED
      BY <1>0, <2>1, <2>3, <2>4, <2>6, <3>1, <3>2 DEF FlagsInv
  <2> QED
    BY <2>1, <2>5, <2>6
<1>10. CASE Register
  <2>1. /\ phase = "bind" /\ at \in 1..Len(bindings) /\ at' = at + 1 /\ bindings[at].cli
        /\ phase' = (IF Normal(names[at]) \in defined THEN "panic" ELSE "bind")
        /\ defined' = defined \cup {Normal(names[at])}
        /\ flags' = [n \in DOMAIN flags \cup {at} |->
                       IF n = at THEN FlagOf(bindings[at]) ELSE flags[n]]
        /\ UNCHANGED <<pc, bindings, before, names>>
    BY <1>1, <1>10 DEF Register, AtFlagOf, B, FlagsInv, schemaVars
  <2>2. DOMAIN names = Wanting /\ GoodNames /\ DOMAIN flags = NamedTo(at)
        /\ defined = before \cup {Normal(names[m]) : m \in NamedTo(at)}
    BY <2>1 DEF FlagsInv, BoundTo
  <2>3. at \in Wanting /\ at \notin NamedTo(at) /\ NamedTo(at) \subseteq Wanting
    BY <1>1, <2>1 DEF Wanting, NamedTo
  <2>4. Normal(names[at]) \notin defined
    BY <2>2, <2>3 DEF GoodNames
  <2>5. NamedTo(at)' = NamedTo(at) \cup {at}
    <3>1. Wanting' = Wanting
      BY <2>1 DEF Wanting
    <3> QED
      BY <1>1, <1>2, <2>1, <2>3, <3>1 DEF NamedTo
  <2>6. BoundTo(at)'
    <3>1. DOMAIN flags' = NamedTo(at) \cup {at}
      BY <2>1, <2>2
    <3>2. defined' = before \cup {Normal(names[m]) : m \in NamedTo(at) \cup {at}}
      BY <2>1, <2>2
    <3> QED
      BY <2>1, <2>5, <3>1, <3>2 DEF BoundTo
  <2>7. FlagPaths'
    <3>1. /\ DOMAIN FlagOf(bindings[at]) = {"value", "set", "path"}
          /\ FlagOf(bindings[at]).path = bindings[at].load
      BY DEF FlagOf, NewFlag
    <3>2. \A n \in DOMAIN flags : /\ DOMAIN flags[n] = {"value", "set", "path"}
                                  /\ flags[n].path = bindings[n].load
      BY DEF FlagsInv, FlagPaths
    <3> HIDE DEF FlagOf
    <3> QED
      BY <2>1, <3>1, <3>2 DEF FlagPaths
  <2>8. GoodNames' /\ phase' = "bind" /\ at' \in 1..(Len(bindings') + 1)
        /\ Wanting' = Wanting
    BY <1>1, <2>1, <2>2, <2>4 DEF GoodNames, Wanting
  <2> QED
    BY <1>0, <2>1, <2>2, <2>6, <2>7, <2>8 DEF FlagsInv
<1>11. CASE UseFlag
  <2> DEFINE op == ops[at]
             k  == op.n
             To(v, old) == IF Adds(op) THEN Slice(ItemsOf(old) \o ItemsOf(v)) ELSE v
  <2>1. /\ k \in DOMAIN flags
        /\ \E v : flags' = [flags EXCEPT ![k].value = To(v, @), ![k].set = Marked(op, @)]
    BY <1>11 DEF UseFlag, Takes, CanTake
  <2> HIDE DEF k
  <2>2. phase = "parse" /\ UNCHANGED <<pc, phase, bindings, before, defined, names>>
    BY <1>11 DEF UseFlag, schemaVars
  <2>3. DOMAIN flags' = DOMAIN flags /\ FlagPaths'
    <3>1. \A n \in DOMAIN flags : /\ DOMAIN flags[n] = {"value", "set", "path"}
                                  /\ flags[n].path = bindings[n].load
      BY DEF FlagsInv, FlagPaths
    <3>2. DOMAIN flags' = DOMAIN flags
      BY <2>1
    <3>3. \A n \in DOMAIN flags : n # k => flags'[n] = flags[n]
      BY <2>1
    <3>4. PICK v : flags' = [flags EXCEPT ![k].value = To(v, @), ![k].set = Marked(op, @)]
      BY <2>1
    <3> HIDE DEF To, op
    <3>5. DOMAIN flags'[k] = DOMAIN flags[k] /\ flags'[k].path = flags[k].path
      BY <2>1, <3>1, <3>4
    <3> QED
      BY <2>1, <2>2, <3>1, <3>2, <3>3, <3>5 DEF FlagPaths
  <2>4. GoodNames' /\ (DOMAIN names = Wanting)' /\ BoundTo(Len(bindings) + 1)'
    BY <2>2, <2>3 DEF FlagsInv, GoodNames, BoundTo, NamedTo, Wanting
  <2> QED
    BY <1>0, <2>2, <2>3, <2>4 DEF FlagsInv
<1>12. CASE FailToUse
  <2>1. phase = "parse" /\ UNCHANGED <<pc, phase, bindings, before, defined, names, flags>>
    BY <1>12 DEF FailToUse, schemaVars
  <2> QED
    BY <1>0, <2>1 DEF FlagsInv, GoodNames, FlagPaths, BoundTo, NamedTo, Wanting
<1> QED
  BY <1>3, <1>4, <1>5, <1>6, <1>7, <1>8, <1>9, <1>10, <1>11, <1>12, <1>13 DEF FlagsNext

LEMMA FlagsInvariant == FlagsSpec => [](PathsInv /\ SchemaInv /\ FlagsInv)
<1>1. FlagsInit => PathsInv /\ SchemaInv /\ FlagsInv
  <2> SUFFICES ASSUME FlagsInit PROVE PathsInv /\ SchemaInv /\ FlagsInv
    OBVIOUS
  <2>1. PICK c \in Cases : InitWith(c.schema) /\ call = c.call
    BY DEF FlagsInit
  <2>2. c.schema \in Inputs /\ call \in Calls
    BY <2>1, CaseAssumption
  <2>3. PathsInv /\ SchemaInv
    BY <2>1, <2>2, WalkInit, SchemaInit
  <2>4. /\ phase = "idle" /\ at = 1 /\ before = defined /\ names = <<>> /\ flags = <<>>
        /\ bindings = <<>>
    BY <2>1 DEF FlagsInit, InitWith
  <2>5. GoodNames /\ FlagPaths
    BY <2>4 DEF GoodNames, FlagPaths
  <2> QED
    BY <2>2, <2>3, <2>4, <2>5 DEF FlagsInv
<1>2. PathsInv /\ SchemaInv /\ FlagsInv /\ [FlagsNext]_vars => (PathsInv /\ SchemaInv /\ FlagsInv)'
  <2> SUFFICES ASSUME PathsInv, SchemaInv, FlagsInv, [FlagsNext]_vars
               PROVE  (PathsInv /\ SchemaInv /\ FlagsInv)'
    OBVIOUS
  <2>1. [Next]_schemaVars
    BY WalkStep
  <2> QED
    BY <2>1, PathsNext, SchemaNext, FlagsInvNext
<1> QED
  BY <1>1, <1>2, PTL DEF FlagsSpec

\* BindFlags registers a flag for every binding that wants one, or refuses and
\* leaves the flag set as it was, and refuses only to be called without a schema,
\* a flag set or a separator, and names that are empty or that are one once
\* normalized; pflag never panics.  Preflight has gone past every
\* name before the first is registered, and each is free then: none of the
\* others, normalized, is the same, so that it is still free when its turn comes.
THEOREM BindsAllOrNothing == FlagsSpec => []BindAllOrNothing
<1>1. PathsInv /\ FlagsInv => BindAllOrNothing
  <2> SUFFICES ASSUME PathsInv, FlagsInv PROVE BindAllOrNothing
    OBVIOUS
  <2>1. /\ phase # "panic"
        /\ phase = "refused" =>
             (Misused \/ Conflicting) /\ defined = before /\ flags = <<>>
    BY DEF FlagsInv
  <2>2. ASSUME phase = "parse"
        PROVE  /\ ~Conflicting /\ DOMAIN flags = Wanting
               /\ defined \ before = {Normal(NameOf(bindings[n])) : n \in Wanting}
    <3>1. /\ DOMAIN names = Wanting /\ GoodNames /\ BoundTo(Len(bindings) + 1)
      BY <2>2 DEF FlagsInv
    <3>2. NamedTo(Len(bindings) + 1) = Wanting
      <4>1. Len(bindings) \in Nat
        BY DEF PathsInv
      <4> QED
        BY <4>1 DEF NamedTo, Wanting
    <3>3. \A n \in Wanting : /\ names[n] = NameOf(bindings[n]) /\ names[n] # NoName
                             /\ Normal(names[n]) \notin before
      BY <3>1 DEF GoodNames
    <3>4. ~Conflicting
      BY <3>1, <3>3 DEF Conflicting, GoodNames
    <3>5. DOMAIN flags = Wanting
          /\ defined = before \cup {Normal(names[n]) : n \in Wanting}
      BY <3>1, <3>2 DEF BoundTo
    <3>6. {Normal(names[n]) : n \in Wanting} = {Normal(NameOf(bindings[n])) : n \in Wanting}
      BY <3>3
    <3> QED
      BY <3>3, <3>4, <3>5, <3>6
  <2> QED
    BY <2>1, <2>2 DEF BindAllOrNothing, FlagsInv
<1> QED
  BY <1>1, FlagsInvariant, PTL

\* Each leaf that wants a flag has one, and that loads to the koanf path of the
\* leaf, whatever is done with the flags; no two load to one path, which
\* loadArgs would refuse.
THEOREM FlagsReach == FlagsSpec => []FlagsReachTheirFields
<1>1. PathsInv /\ SchemaInv /\ FlagsInv => FlagsReachTheirFields
  <2> SUFFICES ASSUME PathsInv, SchemaInv, FlagsInv, phase = "parse"
               PROVE  FlagsReachTheirFields
    BY DEF FlagsReachTheirFields
  <2>1. LeavesGone = Leaves
    BY AllLeavesGone DEF FlagsInv, Misused
  <2>2. /\ \A n \in DOMAIN flags : n \in 1..Len(bindings) /\ bindings[n].cli
        /\ \A n \in 1..Len(bindings) : bindings[n].cli => n \in DOMAIN flags
    <3>1. Len(bindings) \in Nat
      BY DEF PathsInv
    <3> QED
      BY <3>1 DEF FlagsInv, BoundTo, NamedTo, Wanting
  <2>3. \A n \in DOMAIN flags : flags[n].path = bindings[n].load
    BY DEF FlagsInv, FlagPaths
  <2>4. \A b, r : Binds(b, r) => b.load = LoadOf(r) /\ b.cli = CLIOf(r)
    BY DEF Binds
  <2>5. ASSUME NEW n \in DOMAIN flags
        PROVE  \E r \in {q \in Leaves : CLIOf(q)} : flags[n].path = LoadOf(r)
    <3>1. PICK r \in Leaves : Binds(bindings[n], r)
      BY <2>1, <2>2 DEF SchemaInv, LeavesInv
    <3>2. CLIOf(r) /\ bindings[n].load = LoadOf(r)
      BY <2>2, <2>4, <3>1
    <3> QED
      BY <2>3, <3>2
  <2>6. ASSUME NEW r \in Leaves, CLIOf(r)
        PROVE  \E n \in DOMAIN flags : flags[n].path = LoadOf(r)
    <3>1. PICK n \in 1..Len(bindings) : Binds(bindings[n], r)
      BY <2>1 DEF SchemaInv, LeavesInv
    <3>2. bindings[n].cli /\ bindings[n].load = LoadOf(r)
      BY <2>4, <2>6, <3>1
    <3> QED
      BY <2>2, <2>3, <3>2
  <2>7. {flags[n].path : n \in DOMAIN flags} = {LoadOf(r) : r \in {q \in Leaves : CLIOf(q)}}
    BY <2>5, <2>6
  <2>8. \A m, n \in DOMAIN flags : flags[m].path = flags[n].path => m = n
    BY <2>2, <2>3 DEF PathsInv
  <2> QED
    BY <2>7, <2>8 DEF FlagsReachTheirFields
<1> QED
  BY <1>1, FlagsInvariant, PTL

\* BindFlags and the flags change nothing of the schema: with them hidden, what
\* is left is SchemaOf.
THEOREM FlagsLeaveTheSchema == FlagsSpec => Spec
<1>1. FlagsInit => Init
  BY CaseAssumption DEF FlagsInit, Init
<1> QED
  BY <1>1, WalkStep, PTL DEF FlagsSpec, Spec
=============================================================================
