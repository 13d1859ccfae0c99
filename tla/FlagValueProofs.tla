--------------------------- MODULE FlagValueProofs ---------------------------
(* Theorems about the values of SchemaFlags: what is written of a value is   *)
(* read as that value, and a flag holds what the operations on it come to.   *)
(* For any types, defaults, overrides and names, and any operations with any *)
(* texts.                                                                    *)
EXTENDS SchemaProofs
-----------------------------------------------------------------------------
(* Where ReadCSV cuts a line.                                                *)
NoComma(f) == \A i \in DOMAIN f : f[i] # Comma

\* The places where a field of a text ends, and where the one that ends there begins.
EndsOf(t)    == {i \in DOMAIN t : t[i] = Comma} \cup {Len(t) + 1}
StartOf(t, i) == Max({0} \cup {j \in EndsOf(t) : j < i}) + 1
Cutting(t) == [i \in 1..(Len(t) + 1) |->
                 IF i \in EndsOf(t) THEN <<SubSeq(t, StartOf(t, i), i - 1)>> ELSE <<>>]

\* Cut looks at every place in turn.
LEMMA CutIs == ASSUME NEW t PROVE Cut(t) = FlattenSeq(Cutting(t))
BY DEF Cut, Cutting, StartOf, EndsOf

LEMMA StartIs ==
  ASSUME NEW E, NEW t \in Seq(E), NEW i \in 1..(Len(t) + 1)
  PROVE  /\ StartOf(t, i) \in 1..i
         /\ StartOf(t, i) # 1 => StartOf(t, i) - 1 \in EndsOf(t)
         /\ \A j \in EndsOf(t) : j < i => j < StartOf(t, i)
<1> DEFINE S == {0} \cup {j \in EndsOf(t) : j < i}
<1>1. EndsOf(t) \subseteq 1..(Len(t) + 1) /\ Len(t) \in Nat
  BY DEF EndsOf
<1>2. S \in SUBSET Nat /\ S # {} /\ i - 1 \in Nat /\ \A x \in S : x <= i - 1
  BY <1>1
<1>3. Max(S) \in S /\ \A x \in S : x <= Max(S)
  <2> HIDE DEF S
  <2> QED
    BY <1>2, MaxNat
<1>4. PICK m \in S : m = Max(S)
  BY <1>3
<1>5. StartOf(t, i) = m + 1
  BY <1>4 DEF StartOf
<1>6. m \in Nat /\ m <= i - 1 /\ \A x \in S : x <= m
  BY <1>2, <1>3, <1>4
<1>7. m # 0 => m \in EndsOf(t)
  OBVIOUS
<1>8. \A j \in EndsOf(t) : j \in Nat /\ (j < i => j \in S)
  BY <1>1
<1> HIDE DEF S
<1> QED
  BY <1>1, <1>5, <1>6, <1>7, <1>8

LEMMA CuttingType ==
  ASSUME NEW E, NEW t \in Seq(E)
  PROVE  /\ Cutting(t) \in Seq(Seq(Seq(E))) /\ Len(Cutting(t)) = Len(t) + 1
<1>1. ASSUME NEW i \in 1..(Len(t) + 1) PROVE Cutting(t)[i] \in Seq(Seq(E))
  <2>1. StartOf(t, i) \in 1..i /\ Len(t) \in Nat
    BY StartIs
  <2>2. \A j \in StartOf(t, i)..(i - 1) : t[j] \in E
    BY <2>1
  <2>3. SubSeq(t, StartOf(t, i), i - 1) \in Seq(E)
    BY <2>1, <2>2, SubSeqProperties
  <2> QED
    BY <2>3 DEF Cutting
<1>2. Len(t) + 1 \in Nat /\ Cutting(t) = [i \in 1..(Len(t) + 1) |-> Cutting(t)[i]]
  BY DEF Cutting
<1> HIDE DEF Cutting
<1> QED
  BY <1>1, <1>2

LEMMA CutType == ASSUME NEW E, NEW t \in Seq(E) PROVE Cut(t) \in Seq(Seq(E))
BY CutIs, CuttingType, FlattenType

\* A text without commas is one field.
LEMMA CutAlone ==
  ASSUME NEW E, NEW f \in Seq(E), NoComma(f)
  PROVE  Cut(f) = <<f>>
<1>1. Len(f) \in Nat /\ DOMAIN f = 1..Len(f) /\ EndsOf(f) = {Len(f) + 1}
  BY DEF EndsOf, NoComma
<1>2. StartOf(f, Len(f) + 1) = 1
  BY <1>1, StartIs
<1>3. /\ Cutting(f)[Len(f) + 1] = <<SubSeq(f, 1, Len(f))>>
      /\ \A i \in 1..(Len(f) + 1) : i # Len(f) + 1 => Cutting(f)[i] = <<>>
  <2>1. (Len(f) + 1) - 1 = Len(f) /\ Len(f) + 1 \in 1..(Len(f) + 1)
    BY <1>1
  <2> QED
    BY <1>1, <1>2, <2>1 DEF Cutting
<1>4. Len(f) + 1 \in 1..Len(Cutting(f)) /\ Cutting(f) \in Seq(Seq(Seq(E)))
      /\ Len(Cutting(f)) = Len(f) + 1
  BY <1>1, CuttingType
<1>5. FlattenSeq(Cutting(f)) = Cutting(f)[Len(f) + 1]
  BY <1>3, <1>4, FlattenOne
<1> QED
  BY <1>3, <1>5, CutIs, SubSeqFull

\* What is behind a comma is one field more.
LEMMA CutNext ==
  ASSUME NEW E, Comma \in E, NEW a \in Seq(E), NEW f \in Seq(E), NoComma(f)
  PROVE  Cut(a \o (<<Comma>> \o f)) = Append(Cut(a), f)
<1> DEFINE t == a \o (<<Comma>> \o f)
           n == Len(a) + 1
           r == [j \in 1..(Len(f) + 1) |-> IF j = Len(f) + 1 THEN <<f>> ELSE <<>>]
<1>1. /\ t \in Seq(E) /\ Len(t) = n + Len(f) /\ Len(a) \in Nat /\ Len(f) \in Nat /\ n \in Nat
      /\ \A i \in 1..Len(a) : t[i] = a[i]
      /\ t[n] = Comma /\ n = Len(a) + 1
      /\ \A i \in 1..Len(f) : t[n + i] = f[i]
  <2>1. PICK c \in Seq(E) : c = <<Comma>> \o f
    <3>1. <<Comma>> \in Seq(E)
      OBVIOUS
    <3> QED
      BY <3>1, ConcatProperties
  <2>2. Len(c) = 1 + Len(f) /\ c[1] = Comma /\ \A i \in 1..Len(f) : c[1 + i] = f[i]
    BY <2>1
  <2>3. t = a \o c /\ Len(t) = Len(a) + Len(c) /\ Len(a) \in Nat /\ t \in Seq(E)
    BY <2>1
  <2>4. \A i \in 1..Len(c) : t[Len(a) + i] = c[i]
    BY <2>3
  <2>5. \A i \in 1..Len(f) : n + i = Len(a) + (1 + i) /\ 1 + i \in 1..Len(c)
    BY <2>2, <2>3
  <2>6. n = Len(a) + 1 /\ 1 \in 1..Len(c) /\ Len(f) \in Nat /\ Len(t) = n + Len(f)
    BY <2>2, <2>3
  <2>7. \A i \in 1..Len(a) : t[i] = a[i]
    BY <2>3
  <2> HIDE DEF t
  <2> QED
    BY <2>2, <2>3, <2>4, <2>5, <2>6, <2>7
<1> HIDE DEF t, n
<1>2. EndsOf(t) = EndsOf(a) \cup {Len(t) + 1}
  <2>1. DOMAIN t = 1..Len(t) /\ DOMAIN a = 1..Len(a) /\ DOMAIN f = 1..Len(f)
    BY <1>1
  <2>2. \A i \in DOMAIN t : t[i] = Comma <=> i = n \/ (i \in 1..Len(a) /\ a[i] = Comma)
    <3> SUFFICES ASSUME NEW i \in 1..Len(t)
                 PROVE  t[i] = Comma <=> i = n \/ (i \in 1..Len(a) /\ a[i] = Comma)
      BY <2>1
    <3>1. CASE i <= Len(a)
      BY <1>1, <3>1
    <3>2. CASE i = n
      BY <1>1, <3>2
    <3>3. CASE i > n
      <4>1. i - n \in 1..Len(f) /\ i = n + (i - n)
        BY <1>1, <3>3
      <4> QED
        BY <1>1, <2>1, <3>3, <4>1 DEF NoComma
    <3> QED
      BY <1>1, <3>1, <3>2, <3>3
  <2>3. n \in 1..Len(t) /\ 1..Len(a) \subseteq 1..Len(t)
    BY <1>1
  <2>4. {i \in DOMAIN t : t[i] = Comma} = {i \in DOMAIN a : a[i] = Comma} \cup {n}
    BY <2>1, <2>2, <2>3
  <2> QED
    BY <1>1, <2>4 DEF EndsOf
<1>3. n \in EndsOf(a) /\ EndsOf(a) \subseteq 1..n
  BY <1>1 DEF EndsOf
<1>4. ASSUME NEW i \in 1..n PROVE Cutting(t)[i] = Cutting(a)[i]
  <2>1. /\ {j \in EndsOf(t) : j < i} = {j \in EndsOf(a) : j < i}
        /\ i \in EndsOf(t) <=> i \in EndsOf(a)
    BY <1>1, <1>2, <1>3
  <2>2. StartOf(t, i) = StartOf(a, i)
    BY <2>1 DEF StartOf
  <2>3. StartOf(t, i) \in 1..i /\ i \in 1..(Len(t) + 1)
    BY <1>1, StartIs
  <2>4. SubSeq(t, StartOf(t, i), i - 1) = SubSeq(a, StartOf(a, i), i - 1)
    <3>1. \A j \in StartOf(a, i)..(i - 1) : a[j] \in E /\ t[j] = a[j]
      BY <1>1, <2>2, <2>3
    <3> DEFINE u == SubSeq(t, StartOf(t, i), i - 1)
               v == SubSeq(a, StartOf(a, i), i - 1)
    <3>2. /\ u \in Seq(E) /\ v \in Seq(E) /\ Len(u) = Len(v)
          /\ \A k \in 1..Len(u) : u[k] = v[k]
      <4>1. StartOf(t, i) \in Int /\ StartOf(a, i) \in Int /\ i - 1 \in Int
        BY <2>2, <2>3
      <4>2. /\ u \in Seq(E)
            /\ Len(u) = IF StartOf(t, i) <= i - 1 THEN i - 1 - StartOf(t, i) + 1 ELSE 0
            /\ \A k \in 1..(i - 1 - StartOf(t, i) + 1) : u[k] = t[StartOf(t, i) + k - 1]
        BY <2>2, <3>1, <4>1, SubSeqProperties
      <4>3. /\ v \in Seq(E)
            /\ Len(v) = IF StartOf(a, i) <= i - 1 THEN i - 1 - StartOf(a, i) + 1 ELSE 0
            /\ \A k \in 1..(i - 1 - StartOf(a, i) + 1) : v[k] = a[StartOf(a, i) + k - 1]
        <5>1. PICK l, h \in Int : l = StartOf(a, i) /\ h = i - 1
          BY <4>1
        <5>2. \A j \in l..h : a[j] \in E
          BY <3>1, <5>1
        <5> HIDE DEF u, v
        <5>3. /\ SubSeq(a, l, h) \in Seq(E)
              /\ Len(SubSeq(a, l, h)) = IF l <= h THEN h - l + 1 ELSE 0
              /\ \A k \in 1..(h - l + 1) : SubSeq(a, l, h)[k] = a[l + k - 1]
          BY ONLY l \in Int, h \in Int, <5>2, SubSeqProperties
        <5>4. v = SubSeq(a, l, h)
          BY <5>1 DEF v
        <5> QED
          BY ONLY <5>1, <5>3, <5>4
      <4> HIDE DEF u, v
      <4>4. Len(u) = Len(v) /\ Len(u) = i - StartOf(t, i)
        BY <2>2, <2>3, <4>1, <4>2, <4>3
      <4>5. ASSUME NEW k \in 1..Len(u) PROVE u[k] = v[k]
        <5>1. /\ k \in 1..(i - 1 - StartOf(t, i) + 1)
              /\ StartOf(t, i) + k - 1 \in StartOf(t, i)..(i - 1)
          BY <2>2, <2>3, <4>1, <4>4
        <5> QED
          BY <2>2, <3>1, <4>2, <4>3, <5>1
      <4> QED
        BY <4>2, <4>3, <4>4, <4>5
    <3> HIDE DEF u, v
    <3>3. u = v
      BY <3>2, SeqEqual
    <3> QED
      BY <3>3 DEF u, v
  <2> QED
    BY <1>1, <2>1, <2>3, <2>4 DEF Cutting
<1>5. ASSUME NEW j \in 1..(Len(f) + 1) PROVE Cutting(t)[n + j] = r[j]
  <2>1. n + j \in 1..(Len(t) + 1) /\ Len(t) + 1 = n + (Len(f) + 1)
    BY <1>1
  <2>2. CASE j = Len(f) + 1
    <3>0. PICK k \in 1..(Len(t) + 1) : k = n + j
      BY <2>1
    <3>1. StartOf(t, k) = n + 1
      <4>1. /\ StartOf(t, k) \in 1..k
            /\ StartOf(t, k) # 1 => StartOf(t, k) - 1 \in EndsOf(t)
            /\ \A e \in EndsOf(t) : e < k => e < StartOf(t, k)
        BY <1>1, <3>0, StartIs
      <4>2. n < StartOf(t, k)
        BY <1>1, <1>2, <1>3, <2>2, <3>0, <4>1
      <4>3. StartOf(t, k) - 1 \in EndsOf(a)
        BY <1>1, <1>2, <2>1, <2>2, <3>0, <4>1, <4>2
      <4> QED
        BY <1>1, <1>3, <4>1, <4>2, <4>3
    <3>2. SubSeq(t, n + 1, n + Len(f)) = f
      <4>1. \A l \in (n + 1)..(n + Len(f)) : t[l] \in E
        BY <1>1
      <4> DEFINE u == SubSeq(t, n + 1, n + Len(f))
      <4>2. /\ u \in Seq(E)
            /\ Len(u) = IF n + 1 <= n + Len(f) THEN n + Len(f) - (n + 1) + 1 ELSE 0
            /\ \A l \in 1..(n + Len(f) - (n + 1) + 1) : u[l] = t[n + 1 + l - 1]
        BY <1>1, <4>1, SubSeqProperties
      <4> HIDE DEF u
      <4>3. Len(u) = Len(f) /\ n + Len(f) - (n + 1) + 1 = Len(f)
        BY <1>1, <4>2
      <4>4. \A l \in 1..Len(f) : n + 1 + l - 1 = n + l
        BY <1>1
      <4>5. \A l \in 1..Len(u) : u[l] = f[l]
        BY <1>1, <4>2, <4>3, <4>4
      <4>6. u = f
        BY <4>2, <4>3, <4>5, SeqEqual
      <4> QED
        BY <4>6 DEF u
    <3>3. k \in EndsOf(t) /\ k - 1 = n + Len(f)
      BY <1>1, <1>2, <2>1, <2>2, <3>0
    <3>4. Cutting(t)[k] = <<SubSeq(t, StartOf(t, k), k - 1)>>
      BY <3>3 DEF Cutting
    <3> QED
      BY <2>2, <3>0, <3>1, <3>2, <3>3, <3>4
  <2>3. CASE j # Len(f) + 1
    <3>1. n + j \notin EndsOf(t)
      BY <1>1, <1>2, <1>3, <2>3
    <3> QED
      BY <2>1, <2>3, <3>1 DEF Cutting
  <2> QED
    BY <2>2, <2>3
<1>6. /\ r \in Seq(Seq(Seq(E))) /\ Len(r) = Len(f) + 1 /\ r[Len(f) + 1] = <<f>>
      /\ \A j \in 1..Len(r) : j # Len(f) + 1 => r[j] = <<>>
  <2>1. \A j \in 1..(Len(f) + 1) : r[j] \in Seq(Seq(E))
    OBVIOUS
  <2>2. Len(f) + 1 \in Nat
    BY <1>1
  <2> QED
    BY <2>1, <2>2
<1>7. FlattenSeq(r) = <<f>>
  <2>1. Len(f) + 1 \in 1..Len(r)
    BY <1>1, <1>6
  <2> HIDE DEF r
  <2> QED
    BY <1>6, <2>1, FlattenOne
<1>8. Cutting(t) = Cutting(a) \o r
  <2>1. /\ Cutting(t) \in Seq(Seq(Seq(E))) /\ Len(Cutting(t)) = Len(t) + 1
        /\ Cutting(a) \in Seq(Seq(Seq(E))) /\ Len(Cutting(a)) = n
    BY <1>1, CuttingType
  <2> HIDE DEF r
  <2> DEFINE q == Cutting(a) \o r
  <2>2. /\ q \in Seq(Seq(Seq(E))) /\ Len(q) = n + (Len(f) + 1)
        /\ \A i \in 1..(n + (Len(f) + 1)) : q[i] = IF i <= n THEN Cutting(a)[i] ELSE r[i - n]
    <3>1. Len(Cutting(a)) + Len(r) = n + (Len(f) + 1)
      BY <1>6, <2>1
    <3>2. /\ q \in Seq(Seq(Seq(E))) /\ Len(q) = Len(Cutting(a)) + Len(r)
          /\ \A i \in 1..(Len(Cutting(a)) + Len(r)) :
               q[i] = IF i <= Len(Cutting(a)) THEN Cutting(a)[i] ELSE r[i - Len(Cutting(a))]
      BY <1>6, <2>1, ConcatProperties
    <3> HIDE DEF q
    <3> QED
      BY <2>1, <3>1, <3>2
  <2> HIDE DEF q
  <2>3. ASSUME NEW i \in 1..Len(q) PROVE Cutting(t)[i] = q[i]
    <3>1. CASE i <= n
      <4>1. i \in 1..n /\ i \in 1..(n + (Len(f) + 1))
        BY <1>1, <2>2, <3>1
      <4> QED
        BY <1>4, <2>2, <3>1, <4>1
    <3>2. CASE i > n
      <4>1. i - n \in 1..(Len(f) + 1) /\ n + (i - n) = i /\ ~(i <= n)
        BY <1>1, <2>2, <3>2
      <4> QED
        BY <1>5, <2>2, <4>1
    <3> QED
      BY <1>1, <2>2, <3>1, <3>2
  <2>4. Len(Cutting(t)) = Len(q)
    BY <1>1, <2>1, <2>2
  <2>5. Cutting(t) = q
    BY <2>1, <2>2, <2>3, <2>4, SeqEqual
  <2> QED
    BY <2>5 DEF q
<1>9. FlattenSeq(Cutting(t)) = FlattenSeq(Cutting(a)) \o <<f>>
  <2>1. Cutting(a) \in Seq(Seq(Seq(E)))
    BY CuttingType
  <2> HIDE DEF r
  <2> QED
    BY <1>6, <1>7, <1>8, <2>1, FlattenConcat
<1>10. Cut(t) = Cut(a) \o <<f>> /\ Cut(a) \in Seq(Seq(E))
  BY <1>9, CutIs, CutType
<1> QED
  BY <1>10, AppendIsConcat DEF t
-----------------------------------------------------------------------------
(* What FormatCSV writes, and what is read of it.                            *)
\* What a text of tokens is made of, when a list of texts S has been written to it.
Tokens(S) == Plain \cup Quoting(S)
Clean(S)  == Tokens(S) \ {LineEnd}

LEMMA TokenIs ==
  /\ Comma \in Plain /\ Comma # LineEnd
  /\ \A S : \A x \in S : Quoted(x) \in Quoting(S)
  /\ \A x : Quoted(x).is = "quoted" /\ Quoted(x).text = x
  /\ Comma.is = "char" /\ LineEnd.is = "char"
  /\ \A S : \A k \in Tokens(S) : k.is = "quoted" => k.text \in S
<1>1. \A c : Char(c).c = c /\ Char(c).is = "char"
  BY DEF Char, Token
<1>2. Comma \in Plain
  <2>1. \A c : Char(c) \in [is : {"char"}, c : {c}, n : {0}, text : {<<>>}]
    BY DEF Char, Token
  <2>2. PICK k : k = [is |-> "char", c |-> "comma", n |-> 0, text |-> <<>>]
    OBVIOUS
  <2>3. Comma = k
    BY <2>1, <2>2 DEF Comma
  <2>4. k \in Plain
    BY <2>2 DEF Plain
  <2> QED
    BY <2>3, <2>4
<1>3. Comma.is = "char" /\ LineEnd.is = "char" /\ Comma # LineEnd
  BY <1>1 DEF Comma, LineEnd
<1>4. \A S : \A x \in S : Quoted(x) \in Quoting(S)
  BY DEF Quoting, Quoted, Token
<1>5. \A x : Quoted(x).is = "quoted" /\ Quoted(x).text = x
  BY DEF Quoted, Token
<1>6. \A S : \A k \in Tokens(S) : k.is = "quoted" => k.text \in S
  BY DEF Plain, Quoting, Tokens
<1> QED
  BY <1>2, <1>3, <1>4, <1>5, <1>6, Zenon

LEMMA CleanTokens == \A S : \A t \in Seq(Clean(S)) : t \in Seq(Tokens(S))
<1>1. \A S : Clean(S) \subseteq Tokens(S)
  BY DEF Clean
<1> QED
  BY <1>1, SeqMonotonic

\* A field is written without line ends and, outside quotes, without commas, so
\* that it can be told where it ends; unquoted, it is what was written.
LEMMA FieldIs ==
  ASSUME NEW S, S \subseteq Seq(Tokens(S)), NEW x \in S
  PROVE  /\ CSVField(x) \in Seq(Clean(S)) /\ NoComma(CSVField(x))
         /\ Unquoted(CSVField(x)) = x
         /\ Has(CSVField(x), "quoted") => Len(CSVField(x)) = 1
         /\ CSVField(x) = <<>> <=> x = <<>>
<1>1. x \in Seq(Tokens(S)) /\ DOMAIN x = 1..Len(x)
  OBVIOUS
<1>2. CASE Contains(x, Comma) \/ Contains(x, LineEnd) \/ Has(x, "quoted")
  <2>1. CSVField(x) = <<Quoted(x)>>
    BY <1>2 DEF CSVField
  <2>2. Quoted(x) \in Clean(S) /\ Quoted(x) # Comma
    <3>1. Quoted(x) \in Tokens(S)
      BY TokenIs DEF Tokens
    <3>2. Quoted(x).is # Comma.is /\ Quoted(x).is # LineEnd.is
      BY TokenIs
    <3> QED
      BY <3>1, <3>2 DEF Clean
  <2>3. x # <<>>
    BY <1>2 DEF Contains, Has
  <2> DEFINE q == <<Quoted(x)>>
  <2>4. q \in Seq(Clean(S)) /\ Len(q) = 1 /\ DOMAIN q = {1} /\ q[1] = Quoted(x) /\ q # <<>>
    BY <2>2
  <2> HIDE DEF q
  <2>5. Has(q, "quoted") /\ NoComma(q)
    BY <2>2, <2>4, TokenIs DEF Has, NoComma
  <2>6. Unquoted(q) = x
    BY <2>4, <2>5, TokenIs DEF Unquoted
  <2> QED
    BY <2>1, <2>3, <2>4, <2>5, <2>6 DEF q
<1>3. CASE ~(Contains(x, Comma) \/ Contains(x, LineEnd) \/ Has(x, "quoted"))
  <2>1. CSVField(x) = x
    BY <1>3 DEF CSVField
  <2>2. \A i \in 1..Len(x) : x[i] # Comma /\ x[i] # LineEnd /\ x[i] \in Tokens(S)
    BY <1>1, <1>3 DEF Contains
  <2>3. NoComma(x) /\ x \in Seq(Clean(S))
    BY <1>1, <2>2 DEF NoComma, Clean
  <2>4. Unquoted(x) = x /\ ~Has(x, "quoted")
    BY <1>3 DEF Unquoted
  <2> QED
    BY <2>1, <2>3, <2>4
<1> QED
  BY <1>2, <1>3

FieldWritten(texts) == [i \in DOMAIN texts |->
  IF i = 1 THEN CSVField(texts[i]) ELSE <<Comma>> \o CSVField(texts[i])]

LEMMA FieldWrittenIs ==
  ASSUME NEW S, S \subseteq Seq(Tokens(S)), NEW texts \in Seq(S)
  PROVE  /\ FieldWritten(texts) \in Seq(Seq(Clean(S)))
         /\ Len(FieldWritten(texts)) = Len(texts)
         /\ FormatCSV(texts) = FlattenSeq(FieldWritten(texts))
<1>1. DOMAIN texts = 1..Len(texts) /\ Len(texts) \in Nat
  OBVIOUS
<1>2. <<Comma>> \in Seq(Clean(S))
  BY TokenIs DEF Clean, Tokens
<1>3. ASSUME NEW i \in 1..Len(texts) PROVE FieldWritten(texts)[i] \in Seq(Clean(S))
  <2>1. CSVField(texts[i]) \in Seq(Clean(S))
    BY FieldIs
  <2>2. <<Comma>> \o CSVField(texts[i]) \in Seq(Clean(S))
    BY <1>2, <2>1, ConcatProperties
  <2> QED
    BY <1>1, <2>1, <2>2 DEF FieldWritten
<1>4. FieldWritten(texts) = [i \in 1..Len(texts) |-> FieldWritten(texts)[i]]
  BY <1>1 DEF FieldWritten
<1>5. FormatCSV(texts) = FlattenSeq(FieldWritten(texts))
  BY DEF FormatCSV, FieldWritten
<1> HIDE DEF FieldWritten
<1> QED
  BY <1>1, <1>3, <1>4, <1>5

LEMMA FormatType ==
  ASSUME NEW S, S \subseteq Seq(Tokens(S)), NEW texts \in Seq(S)
  PROVE  FormatCSV(texts) \in Seq(Clean(S)) /\ FormatCSV(texts) \in Seq(Tokens(S))
<1>1. FormatCSV(texts) \in Seq(Clean(S))
  BY FieldWrittenIs, FlattenType
<1> QED
  BY <1>1, CleanTokens

\* The lists of none and of one, and of one more.
LEMMA FormatSteps ==
  ASSUME NEW S, S \subseteq Seq(Tokens(S)), NEW texts \in Seq(S), NEW x \in S
  PROVE  /\ FormatCSV(<<>>) = <<>>
         /\ FormatCSV(<<x>>) = CSVField(x)
         /\ texts # <<>> =>
              FormatCSV(Append(texts, x)) = FormatCSV(texts) \o (<<Comma>> \o CSVField(x))
<1>1. <<x>> \in Seq(S) /\ <<>> \in Seq(S) /\ Append(texts, x) \in Seq(S)
  OBVIOUS
<1>2. FormatCSV(<<>>) = <<>>
  <2>1. FieldWritten(<<>>) = <<>>
    BY DEF FieldWritten
  <2>2. FormatCSV(<<>>) = FlattenSeq(FieldWritten(<<>>))
    BY DEF FormatCSV, FieldWritten
  <2>3. FlattenSeq(<<>>) = <<>>
    BY DEF FlattenSeq
  <2> QED
    BY <2>1, <2>2, <2>3
<1>3. FormatCSV(<<x>>) = CSVField(x)
  <2>1. PICK w : w = FieldWritten(<<x>>)
    OBVIOUS
  <2>2. w \in Seq(Seq(Clean(S))) /\ Len(w) = 1
    <3>1. PICK u \in Seq(S) : u = <<x>> /\ Len(u) = 1
      BY <1>1
    <3>2. FieldWritten(u) \in Seq(Seq(Clean(S))) /\ Len(FieldWritten(u)) = 1
      BY <3>1, FieldWrittenIs
    <3>3. FieldWritten(u) = w
      BY <2>1, <3>1
    <3> QED
      BY <3>2, <3>3
  <2>3. FieldWritten(<<x>>)[1] = CSVField(x)
    BY DEF FieldWritten
  <2>4. 1 \in 1..Len(w) /\ \A i \in 1..Len(w) : i = 1
    BY <2>2
  <2>5. FlattenSeq(w) = w[1]
    BY <2>2, <2>4, FlattenOne
  <2>6. FormatCSV(<<x>>) = FlattenSeq(FieldWritten(<<x>>))
    BY DEF FormatCSV, FieldWritten
  <2> QED
    BY <2>1, <2>3, <2>5, <2>6
<1>4. ASSUME texts # <<>>
      PROVE  FormatCSV(Append(texts, x)) = FormatCSV(texts) \o (<<Comma>> \o CSVField(x))
  <2> DEFINE more == <<Comma>> \o CSVField(x)
  <2>1. more \in Seq(Clean(S))
    <3>1. <<Comma>> \in Seq(Clean(S))
      BY TokenIs DEF Clean, Tokens
    <3> QED
      BY <3>1, FieldIs, ConcatProperties
  <2>2. PICK u : u = Append(texts, x)
    OBVIOUS
  <2>3. /\ u \in Seq(S) /\ Len(u) = Len(texts) + 1 /\ Len(texts) \in Nat \ {0}
        /\ \A i \in 1..Len(texts) : u[i] = texts[i]
        /\ u[Len(texts) + 1] = x
        /\ DOMAIN u = 1..Len(u) /\ DOMAIN texts = 1..Len(texts)
    BY <1>4, <2>2
  <2>4. /\ FieldWritten(u) \in Seq(Seq(Clean(S))) /\ Len(FieldWritten(u)) = Len(u)
        /\ FieldWritten(texts) \in Seq(Seq(Clean(S)))
        /\ Len(FieldWritten(texts)) = Len(texts)
    BY <2>3, FieldWrittenIs
  <2>5. \A i \in 1..Len(texts) : FieldWritten(u)[i] = FieldWritten(texts)[i]
    <3>1. \A i \in 1..Len(texts) : i \in DOMAIN u /\ i \in DOMAIN texts
      BY <2>3
    <3> QED
      BY <2>3, <3>1 DEF FieldWritten
  <2>6. FieldWritten(u)[Len(u)] = more
    <3>1. Len(u) \in DOMAIN u /\ Len(u) # 1 /\ u[Len(u)] = x
      BY <2>3
    <3> QED
      BY <3>1 DEF FieldWritten
  <2> HIDE DEF more
  <2>7. FieldWritten(u) = Append(FieldWritten(texts), more)
    <3> DEFINE v == Append(FieldWritten(texts), more)
    <3>1. /\ v \in Seq(Seq(Clean(S))) /\ Len(v) = Len(u)
          /\ \A i \in 1..Len(texts) : v[i] = FieldWritten(texts)[i]
          /\ v[Len(u)] = more
      BY <2>1, <2>3, <2>4, AppendProperties
    <3> HIDE DEF v
    <3>2. \A i \in 1..Len(u) : i \in 1..Len(texts) \/ i = Len(u)
      BY <2>3
    <3>3. \A i \in 1..Len(u) : FieldWritten(u)[i] = v[i]
      BY <2>5, <2>6, <3>1, <3>2
    <3>4. FieldWritten(u) = v
      BY <2>4, <3>1, <3>3, SeqEqual
    <3> QED
      BY <3>4 DEF v
  <2>8. FlattenSeq(FieldWritten(u)) = FlattenSeq(FieldWritten(texts)) \o more
    BY <2>1, <2>4, <2>7, FlattenAppend
  <2> QED
    BY <2>2, <2>3, <2>8, FieldWrittenIs DEF more
<1> QED
  BY <1>2, <1>3, <1>4

\* The fields of what is written are the texts, as written.
LEMMA FormatThenCut ==
  ASSUME NEW S, S \subseteq Seq(Tokens(S)), NEW texts \in Seq(S), texts # <<>>
  PROVE  Cut(FormatCSV(texts)) = [i \in DOMAIN texts |-> CSVField(texts[i])]
<1> DEFINE Each(q) == [i \in DOMAIN q |-> CSVField(q[i])]
           G == {q \in Seq(S) : q # <<>> => Cut(FormatCSV(q)) = Each(q)}
<1>1. <<>> \in G
  <2>1. <<>> \in Seq(S)
    OBVIOUS
  <2> QED
    BY <2>1
<1>2. ASSUME NEW q \in G, NEW x \in S PROVE Append(q, x) \in G
  <2>1. q \in Seq(S) /\ (q # <<>> => Cut(FormatCSV(q)) = Each(q))
    OBVIOUS
  <2>2. Append(q, x) \in Seq(S)
    BY <2>1
  <2>3. CSVField(x) \in Seq(Tokens(S)) /\ NoComma(CSVField(x))
    BY FieldIs, CleanTokens
  <2>4. CASE q = <<>>
    <3>1. Cut(CSVField(x)) = <<CSVField(x)>>
      BY <2>3, CutAlone
    <3>2. FormatCSV(<<x>>) = CSVField(x) /\ Append(q, x) = <<x>>
      BY <2>1, <2>4, FormatSteps
    <3>3. Each(<<x>>) = <<CSVField(x)>>
      OBVIOUS
    <3> HIDE DEF Each
    <3> QED
      BY <2>2, <3>1, <3>2, <3>3
  <2>5. CASE q # <<>>
    <3>1. FormatCSV(Append(q, x)) = FormatCSV(q) \o (<<Comma>> \o CSVField(x))
      BY <2>1, <2>5, FormatSteps
    <3>2. FormatCSV(q) \in Seq(Tokens(S)) /\ Comma \in Tokens(S)
      BY <2>1, FormatType, TokenIs DEF Tokens
    <3>3. Cut(FormatCSV(Append(q, x))) = Append(Each(q), CSVField(x))
      BY <2>1, <2>3, <2>5, <3>1, <3>2, CutNext
    <3>4. Append(Each(q), CSVField(x)) = Each(Append(q, x))
      <4>1. DOMAIN q = 1..Len(q) /\ Len(q) \in Nat
        BY <2>1
      <4>2. PICK u \in Seq(S) : u = Append(q, x)
        BY <2>2
      <4>3. /\ Len(u) = Len(q) + 1 /\ DOMAIN u = 1..Len(u) /\ u[Len(q) + 1] = x
            /\ \A i \in 1..Len(q) : u[i] = q[i]
        BY <2>1, <4>2
      <4>4. \A v \in Seq(S) : Each(v) = [i \in 1..Len(v) |-> CSVField(v[i])] /\ Len(v) \in Nat
        OBVIOUS
      <4>5. PICK W : W = {CSVField(y) : y \in S}
        OBVIOUS
      <4>6. \A v \in Seq(S) : /\ Each(v) \in Seq(W) /\ Len(Each(v)) = Len(v)
                              /\ \A i \in 1..Len(v) : Each(v)[i] = CSVField(v[i])
        <5> SUFFICES ASSUME NEW v \in Seq(S)
                     PROVE  /\ Each(v) \in Seq(W) /\ Len(Each(v)) = Len(v)
                            /\ \A i \in 1..Len(v) : Each(v)[i] = CSVField(v[i])
          OBVIOUS
        <5>1. \A i \in 1..Len(v) : CSVField(v[i]) \in W
          BY <4>5, ElementOfSeq
        <5> HIDE DEF G
        <5>2. PICK w : w = Each(v)
          OBVIOUS
        <5>3. w = [i \in 1..Len(v) |-> CSVField(v[i])] /\ Len(v) \in Nat
          BY <4>4, <5>2
        <5> HIDE DEF Each
        <5>4. /\ w \in Seq(W) /\ Len(w) = Len(v)
              /\ \A i \in 1..Len(v) : w[i] = CSVField(v[i])
          BY <5>1, <5>3
        <5> QED
          BY <5>2, <5>4
      <4> DEFINE a == Append(Each(q), CSVField(x))
      <4> HIDE DEF Each, G
      <4>7. CSVField(x) \in W /\ Each(q) \in Seq(W) /\ Len(Each(q)) = Len(q)
        BY <2>1, <4>5, <4>6
      <4>8. /\ a \in Seq(W) /\ Len(a) = Len(q) + 1 /\ a[Len(q) + 1] = CSVField(x)
            /\ \A i \in 1..Len(q) : a[i] = Each(q)[i]
        BY <4>7, AppendProperties
      <4> HIDE DEF a
      <4>9. \A i \in 1..Len(a) : a[i] = Each(u)[i]
        <5> SUFFICES ASSUME NEW i \in 1..Len(a) PROVE a[i] = Each(u)[i]
          OBVIOUS
        <5>1. i \in 1..Len(u) /\ Each(u)[i] = CSVField(u[i])
          BY <4>3, <4>6, <4>8
        <5>2. CASE i = Len(q) + 1
          BY <4>3, <4>8, <5>1, <5>2
        <5>3. CASE i # Len(q) + 1
          <6>1. i \in 1..Len(q)
            BY <4>1, <4>8, <5>3
          <6> QED
            BY <2>1, <4>3, <4>6, <4>8, <5>1, <6>1
        <5> QED
          BY <5>2, <5>3
      <4>10. Each(u) \in Seq(W) /\ Len(Each(u)) = Len(a)
        BY <4>3, <4>6, <4>8
      <4>11. a = Each(u)
        BY <4>8, <4>9, <4>10, SeqEqual
      <4> QED
        BY <4>2, <4>11 DEF a
    <3> QED
      BY <2>2, <3>3, <3>4
  <2> QED
    BY <2>4, <2>5
<1>3. G \in SUBSET Seq(S) /\ (texts \in G => Cut(FormatCSV(texts)) = Each(texts))
  OBVIOUS
<1>4. G = Seq(S)
  <2> HIDE DEF G
  <2> QED
    BY <1>1, <1>2, <1>3, SeqSetInduction
<1>5. Cut(FormatCSV(texts)) = Each(texts)
  <2> HIDE DEF G, Each
  <2> QED
    BY <1>3, <1>4
<1> QED
  BY <1>5

\* Without line ends a text is one line.
LEMMA LineIs ==
  ASSUME NEW E, NEW t \in Seq(E), t # <<>>, \A i \in 1..Len(t) : t[i] # LineEnd
  PROVE  Line(t) = t
<1>1. Len(t) \in Nat \ {0} /\ DOMAIN t = 1..Len(t)
  OBVIOUS
<1>2. {i \in DOMAIN t : t[i] # LineEnd} = 1..Len(t)
  BY <1>1
<1>3. Min(1..Len(t)) = 1
  BY <1>1 DEF Min
<1>4. {i \in DOMAIN t : i > 1 /\ t[i] = LineEnd} = {}
  BY <1>1
<1>5. Line(t) = SubSeq(t, 1, Len(t))
  BY <1>2, <1>3, <1>4 DEF Line
<1> QED
  BY <1>5, SubSeqFull

\* Only the list of none, and that of one blank, are written as nothing.
LEMMA WrittenBlank ==
  ASSUME NEW S, S \subseteq Seq(Tokens(S)), NEW texts \in Seq(S), FormatCSV(texts) = <<>>
  PROVE  texts = <<>> \/ texts = <<<<>>>>
<1> SUFFICES ASSUME texts # <<>> PROVE texts = <<<<>>>>
  OBVIOUS
<1>1. PICK q \in Seq(S), x \in S : texts = Append(q, x)
  BY SequenceEmptyOrAppend
<1>2. CSVField(x) \in Seq(Clean(S)) /\ (CSVField(x) = <<>> <=> x = <<>>)
  BY FieldIs
<1>3. CASE q = <<>>
  <2>1. texts = <<x>>
    BY <1>1, <1>3
  <2>2. FormatCSV(<<x>>) = CSVField(x)
    BY <1>1, FormatSteps
  <2> QED
    BY <1>2, <2>1, <2>2
<1>4. CASE q # <<>>
  <2>1. FormatCSV(texts) = FormatCSV(q) \o (<<Comma>> \o CSVField(x))
    BY <1>1, <1>4, FormatSteps
  <2>2. FormatCSV(q) \in Seq(Tokens(S)) /\ CSVField(x) \in Seq(Tokens(S))
        /\ <<Comma>> \in Seq(Tokens(S))
    <3>1. FormatCSV(q) \in Seq(Tokens(S))
      BY <1>1, FormatType
    <3>2. Comma \in Tokens(S)
      BY TokenIs DEF Tokens
    <3> QED
      BY <1>2, <3>1, <3>2, CleanTokens
  <2>4. Len(<<Comma>>) = 1 /\ Len(FormatCSV(texts)) = 0
    BY EmptySeq
  <2>5. Len(FormatCSV(texts))
          = Len(FormatCSV(q)) + (Len(<<Comma>>) + Len(CSVField(x)))
    <3> DEFINE more == <<Comma>> \o CSVField(x)
    <3>1. more \in Seq(Tokens(S)) /\ Len(more) = Len(<<Comma>>) + Len(CSVField(x))
      BY <2>2, ConcatProperties
    <3> HIDE DEF more
    <3>2. Len(FormatCSV(q) \o more) = Len(FormatCSV(q)) + Len(more)
      BY <2>2, <3>1, ConcatProperties
    <3> QED
      BY <2>1, <3>1, <3>2 DEF more
  <2>6. Len(FormatCSV(q)) \in Nat /\ Len(CSVField(x)) \in Nat
    BY <2>2
  <2> QED
    BY <2>4, <2>5, <2>6
<1> QED
  BY <1>3, <1>4

\* What is written of a list of texts is read as that list, whatever commas,
\* quotes and line ends are in them, unless it is one blank.
THEOREM WrittenIsRead ==
  ASSUME NEW S, S \subseteq TextOver(S), NEW texts \in Seq(S), texts # <<<<>>>>
  PROVE  Fields(FormatCSV(texts)) = {texts}
<1>1. S \subseteq Seq(Tokens(S))
  BY DEF TextOver, Tokens
<1>2. CASE texts = <<>>
  <2>1. FormatCSV(<<>>) = <<>>
    BY DEF FormatCSV, FlattenSeq
  <2> QED
    BY <1>2, <2>1 DEF Fields
<1>3. CASE texts # <<>>
  <2>1. PICK t \in Seq(Clean(S)) : t = FormatCSV(texts)
    BY <1>1, FormatType
  <2>2. t # <<>>
    BY <1>1, <1>3, <2>1, WrittenBlank
  <2>3. /\ Len(t) \in Nat \ {0} /\ DOMAIN t = 1..Len(t)
        /\ \A i \in 1..Len(t) : t[i] # LineEnd
    BY <2>2 DEF Clean
  <2>4. Line(t) = t
    BY <2>2, <2>3, LineIs
  <2> DEFINE fs == [i \in DOMAIN texts |-> CSVField(texts[i])]
  <2>5. Cut(Line(t)) = fs
    BY <1>1, <1>3, <2>1, <2>4, FormatThenCut
  <2>6. \A i \in DOMAIN texts : texts[i] \in S
    OBVIOUS
  <2>7. ASSUME NEW i \in DOMAIN texts
        PROVE  Unquoted(fs[i]) = texts[i] /\ ~(Has(fs[i], "quoted") /\ Len(fs[i]) > 1)
    <3>1. /\ Unquoted(CSVField(texts[i])) = texts[i]
          /\ Has(CSVField(texts[i]), "quoted") => Len(CSVField(texts[i])) = 1
      BY <1>1, <2>6, FieldIs
    <3>2. fs[i] = CSVField(texts[i])
      OBVIOUS
    <3>3. ~(1 > 1)
      OBVIOUS
    <3> HIDE DEF fs
    <3> QED
      BY <3>1, <3>2, <3>3
  <2>8. [k \in DOMAIN fs |-> Unquoted(fs[k])] = texts
    <3>1. DOMAIN fs = DOMAIN texts /\ texts = [k \in DOMAIN texts |-> texts[k]]
      OBVIOUS
    <3> HIDE DEF fs
    <3> QED
      BY <2>7, <3>1
  <2>9. DOMAIN fs = DOMAIN texts
    OBVIOUS
  <2> HIDE DEF fs
  <2>10. ReadCSV(t) = {texts}
    <3>1. ~\A i \in DOMAIN t : t[i] = LineEnd
      BY <2>3
    <3>2. ~\E k \in DOMAIN fs : Has(fs[k], "quoted") /\ Len(fs[k]) > 1
      BY <2>7, <2>9
    <3> QED
      BY <2>5, <2>8, <3>1, <3>2, Zenon DEF ReadCSV
  <2> QED
    BY <2>1, <2>2, <2>10 DEF Fields
<1> QED
  BY <1>2, <1>3
-----------------------------------------------------------------------------
(* Values, and what is parsed into them.                                     *)
\* What is quoted in a text is one itself.
LEMMA TextNests ==
  /\ \A S : \A T : S \subseteq T => TextOver(S) \subseteq TextOver(T)
  /\ Text \subseteq TextOver(Text) /\ TextOver(Text) \subseteq TextOfLists
  /\ Text \subseteq TextOfLists
  /\ \E S : S \subseteq Text /\ Text = TextOver(S)
<1>1. ASSUME NEW S, NEW T, S \subseteq T PROVE TextOver(S) \subseteq TextOver(T)
  <2>1. Quoting(S) \subseteq Quoting(T)
    BY <1>1 DEF Quoting
  <2>2. Plain \cup Quoting(S) \subseteq Plain \cup Quoting(T)
    BY <2>1
  <2> QED
    BY <2>2, SeqMonotonic DEF TextOver
<1>2. TextOver({}) \subseteq TextOver(TextOver({}))
  BY <1>1
<1>3. TextOver(TextOver({})) \subseteq Text
  BY <1>1, <1>2 DEF Text
<1>4. Text \subseteq TextOver(Text)
  BY <1>1, <1>3 DEF Text
<1>5. TextOver(Text) \subseteq TextOfLists
  BY <1>1, <1>4 DEF TextOfLists
<1> QED
  BY <1>1, <1>3, <1>4, <1>5 DEF Text

Supported(t) == t \in Type /\ SchemaKind(t) # "unsupported"

LEMMA SupportedIs ==
  ASSUME NEW t, Supported(t)
  PROVE  /\ t.base \in {"string", "int8"} /\ t.depth \in 0..2
         /\ SchemaKind(t) = "slice" <=> t.depth = 1
<1>1. t.base \in {"string", "int8", "chan"} /\ t.depth \in 0..3
  BY DEF Supported, Type
<1>2. ~(t.base = "chan" \/ t.depth > 2)
  BY DEF Supported, SchemaKind
<1> QED
  BY <1>1, <1>2 DEF SchemaKind

LEMMA NumeralIs ==
  /\ \A n \in Int : /\ Dec(n) \in Plain /\ Dec(n).is = "dec" /\ Dec(n).n = n
  /\ \A n \in Int : <<Dec(n)>> # NilItem
  /\ NilItem \in Text
<1>1. \A m : Dec(m) \in [is : {"dec"}, c : {"none"}, n : {m}, text : {<<>>}]
  BY DEF Dec, Token
<1>2. \A m \in Int : \A k \in [is : {"dec"}, c : {"none"}, n : {m}, text : {<<>>}] : k \in Plain
  BY DEF Plain
<1>3. \A m : Dec(m).is = "dec" /\ Dec(m).n = m
  BY DEF Dec, Token
<1> DEFINE nil == [Token EXCEPT !.is = "nil"]
<1>4. nil \in [is : {"nil"}, c : {"none"}, n : 0..0, text : {<<>>}]
  BY DEF Token
<1>5. \A k \in [is : {"nil"}, c : {"none"}, n : 0..0, text : {<<>>}] : k \in Plain
  BY DEF Plain
<1>6. nil.is = "nil"
  BY <1>4
<1>7. NilItem = <<nil>>
  BY DEF NilItem
<1> HIDE DEF nil
<1>8. \A m \in Int : <<Dec(m)>> # NilItem
  <2>1. \A a, b : <<a>> = <<b>> => a = b
    OBVIOUS
  <2> QED
    BY <1>3, <1>6, <1>7, <2>1
<1>9. NilItem \in Text
  <2>1. nil \in Plain
    BY <1>4, <1>5
  <2>2. PICK S : Text = TextOver(S)
    BY TextNests
  <2>3. <<nil>> \in Seq(Plain \cup Quoting(S))
    BY <2>1
  <2> QED
    BY <1>7, <2>2, <2>3 DEF TextOver
<1> QED
  BY <1>1, <1>2, <1>3, <1>8, <1>9

\* An item of a value is a text, and as such is read as the item it was.
LEMMA ItemIs ==
  ASSUME NEW t, Supported(t), NEW x \in Item(t)
  PROVE  /\ x \in Text
         /\ x # NilItem => FormatItem(x) = x /\ ParseItem(x, t) = {x}
<1>1. t.base \in {"string", "int8"}
  BY SupportedIs
<1>2. CASE x = NilItem
  BY <1>2, NumeralIs
<1>3. CASE x # NilItem /\ t.base = "string"
  <2>1. x \in Text
    BY <1>3 DEF Item
  <2>2. ParseItem(x, t) = {x}
    BY <1>3 DEF ParseItem
  <2> QED
    BY <1>3, <2>1, <2>2 DEF FormatItem
<1>4. CASE x # NilItem /\ t.base = "int8"
  <2>1. PICK n \in Min8..Max8 : x = <<Dec(n)>>
    BY <1>4 DEF Item
  <2>2. n \in Int /\ InRange(n)
    BY DEF Min8, Max8, InRange
  <2>3. Len(x) = 1 /\ x[1] = Dec(n) /\ Dec(n).is = "dec" /\ Dec(n).n = n /\ Dec(n) \in Plain
    BY <2>1, <2>2, NumeralIs
  <2>4. IsNumeral(x)
    BY <2>3 DEF IsNumeral
  <2>5. ParseItem(x, t) = {x}
    BY <1>4, <2>1, <2>2, <2>3, <2>4 DEF ParseItem
  <2>6. x \in Text
    <3>1. PICK S : Text = TextOver(S)
      BY TextNests
    <3>2. <<Dec(n)>> \in Seq(Plain \cup Quoting(S))
      BY <2>3
    <3> QED
      BY <2>1, <3>1, <3>2 DEF TextOver
  <2> QED
    BY <1>4, <2>5, <2>6 DEF FormatItem
<1> QED
  BY <1>1, <1>2, <1>3, <1>4

\* What a text is parsed into is an item, and only one.
LEMMA ParseItemIs ==
  ASSUME NEW t, Supported(t), NEW raw \in Text
  PROVE  /\ ParseItem(raw, t) \subseteq Item(t)
         /\ \A v, w \in ParseItem(raw, t) : v = w
<1>1. t.base \in {"string", "int8"}
  BY SupportedIs
<1>2. CASE t.base = "string"
  BY <1>2 DEF ParseItem, Item
<1>3. CASE t.base = "int8"
  <2>1. ParseItem(raw, t) = IF IsNumeral(raw) /\ InRange(raw[1].n) THEN {<<Dec(raw[1].n)>>} ELSE {}
    BY <1>3 DEF ParseItem
  <2>2. ParseItem(raw, t) \subseteq {<<Dec(n)>> : n \in Min8..Max8}
    BY <2>1 DEF InRange
  <2> QED
    BY <1>3, <2>1, <2>2 DEF Item
<1> QED
  BY <1>1, <1>2, <1>3

\* The same of the parser of a field.
LEMMA CustomItemIs ==
  ASSUME NEW t, Supported(t), NEW raw \in Text
  PROVE  /\ CustomItem(raw, t) \subseteq Item(t)
         /\ \A v, w \in CustomItem(raw, t) : v = w
<1>1. t.base \in {"string", "int8"}
  BY SupportedIs
<1>2. CASE t.base = "string"
  BY <1>2 DEF CustomItem, Item
<1>3. CASE t.base = "int8"
  <2>1. CustomItem(raw, t) = IF IsNumeral(raw) THEN {<<Dec(Converted(raw[1].n))>>} ELSE {}
    BY <1>3 DEF CustomItem
  <2>2. IsNumeral(raw) => raw[1].n \in Int
    <3> SUFFICES ASSUME IsNumeral(raw) PROVE raw[1].n \in Int
      OBVIOUS
    <3>1. PICK S : Text = TextOver(S)
      BY TextNests
    <3>2. 1 \in 1..Len(raw) /\ raw \in Seq(Plain \cup Quoting(S))
      BY <3>1 DEF IsNumeral, TextOver
    <3>3. raw[1] \in Plain \cup Quoting(S)
      BY <3>2, ElementOfSeq
    <3>4. \A k \in Plain : k.n \in Int
      BY DEF Plain
    <3>5. \A k \in Quoting(S) : k.n \in Int
      BY DEF Quoting
    <3> QED
      BY <3>3, <3>4, <3>5
  <2>3. \A n \in Int : Converted(n) \in Min8..Max8
    BY DEF Converted, Min8, Max8
  <2>4. CustomItem(raw, t) \subseteq {<<Dec(n)>> : n \in Min8..Max8}
    BY <2>1, <2>2, <2>3
  <2> QED
    BY <1>3, <2>1, <2>4 DEF Item
<1> QED
  BY <1>1, <1>2, <1>3

\* All of the values, each from its set; and they are one.
LEMMA AllIs ==
  ASSUME NEW parsed
  PROVE  /\ \A v \in All(parsed) : /\ v = [i \in DOMAIN parsed |-> v[i]]
                                   /\ \A i \in DOMAIN parsed : v[i] \in parsed[i]
         /\ \A v, w \in All(parsed) : v = w
<1>1. CASE {} \in Range(parsed)
  BY <1>1 DEF All
<1>2. CASE {} \notin Range(parsed)
  <2>1. \A i \in DOMAIN parsed : parsed[i] # {}
    BY <1>2 DEF Range
  <2>2. \A i \in DOMAIN parsed : (CHOOSE v \in parsed[i] : TRUE) \in parsed[i]
    BY <2>1
  <2>3. All(parsed) = {[i \in DOMAIN parsed |-> CHOOSE v \in parsed[i] : TRUE]}
    BY <1>2 DEF All
  <2> QED
    BY <2>2, <2>3
<1> QED
  BY <1>1, <1>2

LEMMA AllBack ==
  ASSUME NEW S, NEW xs \in Seq(S), NEW parsed, DOMAIN parsed = DOMAIN xs,
         \A i \in DOMAIN xs : parsed[i] = {xs[i]}
  PROVE  All(parsed) = {xs}
<1>1. {} \notin Range(parsed)
  BY DEF Range
<1>2. \A i \in DOMAIN parsed : (CHOOSE v \in parsed[i] : TRUE) = xs[i]
  OBVIOUS
<1>3. [i \in DOMAIN parsed |-> CHOOSE v \in parsed[i] : TRUE] = xs
  BY <1>2
<1> QED
  BY <1>1, <1>3 DEF All

LEMMA LineType ==
  ASSUME NEW E, NEW t \in Seq(E), ~ \A i \in DOMAIN t : t[i] = LineEnd
  PROVE  Line(t) \in Seq(E)
<1>1. DOMAIN t = 1..Len(t) /\ Len(t) \in Nat
  OBVIOUS
<1> DEFINE starts == {i \in DOMAIN t : t[i] # LineEnd}
           from == Min(starts)
           ends == {i \in DOMAIN t : i > from /\ t[i] = LineEnd}
<1>2. \A S \in SUBSET Nat : S # {} => Min(S) \in S
  BY LeastNat DEF Min
<1>3. from \in 1..Len(t)
  <2>1. starts \in SUBSET Nat /\ starts # {} /\ starts \subseteq 1..Len(t)
    BY <1>1
  <2> HIDE DEF starts
  <2> QED
    BY <1>2, <2>1
<1>4. ends \in SUBSET Nat /\ ends \subseteq 1..Len(t)
  BY <1>1
<1>5. Line(t) = SubSeq(t, from, IF ends = {} THEN Len(t) ELSE Min(ends) - 1)
  BY DEF Line
<1> HIDE DEF from, ends, starts
<1>6. \A n \in Int : n <= Len(t) => SubSeq(t, from, n) \in Seq(E)
  <2> SUFFICES ASSUME NEW n \in Int, n <= Len(t) PROVE SubSeq(t, from, n) \in Seq(E)
    OBVIOUS
  <2>1. from \in Int /\ \A i \in from..n : t[i] \in E
    BY <1>1, <1>3
  <2> QED
    BY <2>1, SubSeqProperties
<1>7. CASE ends = {}
  BY <1>1, <1>5, <1>6, <1>7
<1>8. CASE ends # {}
  <2>1. PICK m \in 1..Len(t) : m = Min(ends)
    BY <1>2, <1>4, <1>8
  <2>2. m - 1 \in Int /\ m - 1 <= Len(t)
    BY <1>1
  <2>3. Line(t) = SubSeq(t, from, m - 1)
    BY <1>5, <1>8, <2>1
  <2> QED
    BY <1>6, <2>2, <2>3
<1> QED
  BY <1>7, <1>8

\* What is read of a text is texts, and one list of them.
LEMMA FieldsAre ==
  ASSUME NEW raw \in Text
  PROVE  /\ Fields(raw) \subseteq Seq(Text)
         /\ \A v, w \in Fields(raw) : v = w
<1> DEFINE fs  == Cut(Line(raw))
           bad == \/ \A i \in DOMAIN raw : raw[i] = LineEnd
                  \/ \E k \in DOMAIN fs : Has(fs[k], "quoted") /\ Len(fs[k]) > 1
<1>1. ReadCSV(raw) = IF bad THEN {} ELSE {[k \in DOMAIN fs |-> Unquoted(fs[k])]}
  BY DEF ReadCSV
<1>2. \A v, w \in Fields(raw) : v = w
  BY <1>1 DEF Fields
<1>3. PICK S : S \subseteq Text /\ Text = TextOver(S)
  BY TextNests
<1>4. ASSUME ~bad PROVE [k \in DOMAIN fs |-> Unquoted(fs[k])] \in Seq(Text)
  <2>1. raw \in Seq(Tokens(S))
    BY <1>3 DEF TextOver, Tokens
  <2>2. fs \in Seq(Seq(Tokens(S)))
    BY <1>4, <2>1, LineType, CutType
  <2>3. ASSUME NEW k \in DOMAIN fs PROVE Unquoted(fs[k]) \in Text
    <3>1. fs[k] \in Seq(Tokens(S)) /\ (Has(fs[k], "quoted") => ~(Len(fs[k]) > 1))
      BY <1>4, <2>2
    <3> HIDE DEF fs, bad
    <3>2. CASE Has(fs[k], "quoted")
      <4>1. PICK i \in DOMAIN fs[k] : fs[k][i].is = "quoted"
        BY <3>2 DEF Has
      <4>2. i = 1 /\ fs[k][i] \in Tokens(S)
        BY <3>1, <3>2, <4>1
      <4>3. fs[k][1].text \in S
        BY <4>1, <4>2, TokenIs
      <4> QED
        BY <1>3, <3>2, <4>3 DEF Unquoted
    <3>3. CASE ~Has(fs[k], "quoted")
      <4>1. fs[k] \in Text
        BY <1>3, <3>1 DEF TextOver, Tokens
      <4> QED
        BY <3>3, <4>1 DEF Unquoted
    <3> QED
      BY <3>2, <3>3
  <2>4. Len(fs) \in Nat /\ DOMAIN fs = 1..Len(fs)
    BY <2>2
  <2> HIDE DEF fs, bad
  <2> QED
    BY <2>3, <2>4
<1>5. <<>> \in Seq(Text)
  OBVIOUS
<1> HIDE DEF fs, bad
<1> QED
  BY <1>1, <1>2, <1>4, <1>5 DEF Fields

\* A line is parsed into a list of items, and only one.
LEMMA ParseItemsAre ==
  ASSUME NEW t, Supported(t), NEW raw \in Text
  PROVE  /\ ParseItems(raw, t) \subseteq Seq(Item(t))
         /\ \A v, w \in ParseItems(raw, t) : v = w
<1> DEFINE Each(fs) == [k \in DOMAIN fs |-> ParseItem(fs[k], t)]
<1>1. ParseItems(raw, t) = UNION {All(Each(fs)) : fs \in Fields(raw)}
  BY DEF ParseItems
<1>2. ASSUME NEW fs \in Fields(raw), NEW v \in All(Each(fs)) PROVE v \in Seq(Item(t))
  <2>1. fs \in Seq(Text)
    BY FieldsAre
  <2>2. DOMAIN Each(fs) = 1..Len(fs) /\ Len(fs) \in Nat
    BY <2>1
  <2>3. /\ v = [i \in DOMAIN Each(fs) |-> v[i]]
        /\ \A i \in DOMAIN Each(fs) : v[i] \in Each(fs)[i]
    BY <1>2, AllIs
  <2>4. \A i \in 1..Len(fs) : Each(fs)[i] \subseteq Item(t)
    <3>1. \A i \in 1..Len(fs) : fs[i] \in Text
      BY <2>1
    <3>2. \A i \in 1..Len(fs) : Each(fs)[i] = ParseItem(fs[i], t)
      BY <2>1
    <3> QED
      BY <3>1, <3>2, ParseItemIs
  <2> HIDE DEF Each
  <2> QED
    BY <2>2, <2>3, <2>4
<1> HIDE DEF Each
<1>3. \A fs, gs \in Fields(raw) : fs = gs
  BY FieldsAre
<1> QED
  BY <1>1, <1>2, <1>3, AllIs

\* The shapes of the values that a type has.
LEMMA HoldsIs ==
  ASSUME NEW t, Supported(t)
  PROVE  /\ t.depth = 0 => \A x \in Item(t) : Holds(t, Scalar(x))
         /\ t.depth = 1 => \A xs \in Seq(Item(t)) : Holds(t, Slice(xs))
         /\ t.depth = 2 => \A v \in Seq(Seq(Item(t))) : Holds(t, v)
         /\ \A v : Holds(t, v) /\ t.depth = 0 => v[1][1] \in Item(t) /\ v = Scalar(v[1][1])
         /\ \A v : Holds(t, v) /\ t.depth = 1 => v[1] \in Seq(Item(t)) /\ v = Slice(v[1])
         /\ \A v : Holds(t, v) => v \in Seq(Seq(Item(t))) /\ v \in Value
<1>1. \A x : Scalar(x) = <<<<x>>>> /\ Slice(x) = <<x>>
  BY DEF Scalar, Slice
<1>2. ASSUME NEW xs \in Seq(Item(t))
      PROVE  <<xs>> \in Seq(Seq(Item(t))) /\ Len(<<xs>>) = 1 /\ <<xs>>[1] = xs
  OBVIOUS
<1>3. ASSUME NEW x \in Item(t) PROVE <<x>> \in Seq(Item(t)) /\ Len(<<x>>) = 1
  OBVIOUS
<1>4. \A v : ItemsOf(v) = v[1]
  BY DEF ItemsOf
<1>5. ASSUME t.depth = 0, NEW x \in Item(t) PROVE Holds(t, Scalar(x))
  <2>1. <<<<x>>>> \in Seq(Seq(Item(t))) /\ Len(<<<<x>>>>) = 1 /\ <<<<x>>>>[1] = <<x>>
        /\ Len(<<x>>) = 1
    BY <1>2, <1>3
  <2> QED
    BY <1>1, <1>4, <2>1 DEF Holds
<1>6. ASSUME t.depth = 1, NEW xs \in Seq(Item(t)) PROVE Holds(t, Slice(xs))
  <2>1. Slice(xs) = <<xs>>
    BY <1>1
  <2>2. <<xs>> \in Seq(Seq(Item(t))) /\ Len(<<xs>>) = 1
    BY <1>2, <1>6
  <2>3. t.depth # 0
    BY <1>6
  <2> QED
    BY <2>1, <2>2, <2>3 DEF Holds
<1>7. t.depth = 2 => \A v \in Seq(Seq(Item(t))) : Holds(t, v)
  BY DEF Holds
<1>8. ASSUME NEW v, Holds(t, v), t.depth < 2
      PROVE  v[1] \in Seq(Item(t)) /\ v = <<v[1]>>
  BY <1>8 DEF Holds
<1>9. ASSUME NEW v, Holds(t, v), t.depth = 0
      PROVE  v[1][1] \in Item(t) /\ v[1] = <<v[1][1]>>
  BY <1>4, <1>8, <1>9 DEF Holds
<1>10. ASSUME NEW v, Holds(t, v) PROVE v \in Seq(Seq(Item(t))) /\ v \in Value
  <2>1. Item(t) \subseteq Text
    BY ItemIs
  <2>2. Seq(Item(t)) \subseteq Seq(Text)
    BY <2>1, SeqMonotonic
  <2>3. Seq(Seq(Item(t))) \subseteq Seq(Seq(Text))
    BY <2>2, SeqMonotonic
  <2> QED
    BY <1>10, <2>3 DEF Holds, Value
<1>12. ASSUME NEW v, Holds(t, v), t.depth = 0 PROVE v[1][1] \in Item(t) /\ v = Scalar(v[1][1])
  <2>1. v = <<v[1]>> /\ v[1] = <<v[1][1]>>
    BY <1>8, <1>9, <1>12
  <2>2. v = <<<<v[1][1]>>>>
    BY ONLY <2>1
  <2> QED
    BY <1>1, <1>9, <1>12, <2>2
<1>13. ASSUME NEW v, Holds(t, v), t.depth = 1 PROVE v[1] \in Seq(Item(t)) /\ v = Slice(v[1])
  BY <1>1, <1>8, <1>13
<1> QED
  BY <1>5, <1>6, <1>7, <1>10, <1>12, <1>13

\* A text is parsed into a value of the type, and only one.
LEMMA ParseIs ==
  ASSUME NEW t, Supported(t), NEW raw \in Text
  PROVE  /\ \A v \in Parse(raw, t) : Holds(t, v)
         /\ \A v, w \in Parse(raw, t) : v = w
<1>1. t.depth \in {0, 1, 2}
  BY SupportedIs
<1>2. CASE t.depth = 0
  <2>1. Parse(raw, t) = {Scalar(x) : x \in ParseItem(raw, t)}
    BY <1>2 DEF Parse
  <2> QED
    BY <1>2, <2>1, ParseItemIs, HoldsIs
<1>3. CASE t.depth = 1
  <2>1. Parse(raw, t) = {Slice(xs) : xs \in ParseItems(raw, t)}
    BY <1>3 DEF Parse
  <2> QED
    BY <1>3, <2>1, ParseItemsAre, HoldsIs
<1>4. CASE t.depth = 2
  <2> DEFINE Each(fs) == [k \in DOMAIN fs |-> ParseItems(fs[k], t)]
  <2>1. Parse(raw, t) = UNION {All(Each(fs)) : fs \in Fields(raw)}
    BY <1>4 DEF Parse
  <2>2. ASSUME NEW fs \in Fields(raw), NEW v \in All(Each(fs)) PROVE v \in Seq(Seq(Item(t)))
    <3>1. fs \in Seq(Text)
      BY FieldsAre
    <3>2. DOMAIN Each(fs) = 1..Len(fs) /\ Len(fs) \in Nat
      BY <3>1
    <3>3. /\ v = [i \in DOMAIN Each(fs) |-> v[i]]
          /\ \A i \in DOMAIN Each(fs) : v[i] \in Each(fs)[i]
      BY <2>2, AllIs
    <3>4. \A i \in 1..Len(fs) : Each(fs)[i] \subseteq Seq(Item(t))
      <4>1. \A i \in 1..Len(fs) : fs[i] \in Text
        BY <3>1
      <4>2. \A i \in 1..Len(fs) : Each(fs)[i] = ParseItems(fs[i], t)
        BY <3>1
      <4> QED
        BY <4>1, <4>2, ParseItemsAre
    <3> HIDE DEF Each
    <3> QED
      BY <3>2, <3>3, <3>4
  <2> HIDE DEF Each
  <2>3. \A fs, gs \in Fields(raw) : fs = gs
    BY FieldsAre
  <2> QED
    BY <1>4, <2>1, <2>2, <2>3, AllIs, HoldsIs
<1> QED
  BY <1>1, <1>2, <1>3, <1>4
-----------------------------------------------------------------------------
(* What an operation comes to.                                               *)
\* A parser makes a value of the type, a slice of one item of a text.
LEMMA CustomParseIs ==
  ASSUME NEW t, Supported(t), NEW raw \in Text
  PROVE  /\ \A v \in CustomParse(raw, t) : Holds(t, v)
         /\ \A v, w \in CustomParse(raw, t) : v = w
<1>1. t.depth \in 0..2
  BY SupportedIs
<1>2. CustomParse(raw, t)
        = {IF t.depth = 0 THEN Scalar(x) ELSE Slice(<<x>>) : x \in CustomItem(raw, t)}
  BY DEF CustomParse
<1>3. ASSUME NEW x \in CustomItem(raw, t)
      PROVE  Holds(t, IF t.depth = 0 THEN Scalar(x) ELSE Slice(<<x>>))
  <2>1. x \in Item(t) /\ <<x>> \in Seq(Item(t))
    BY CustomItemIs
  <2>2. CASE t.depth = 0
    BY <2>1, <2>2, HoldsIs
  <2>3. CASE t.depth = 1
    BY <2>1, <2>3, HoldsIs
  <2>4. CASE t.depth = 2
    <3>1. \A s \in Seq(Item(t)) : <<s>> \in Seq(Seq(Item(t)))
      OBVIOUS
    <3>2. Slice(<<x>>) \in Seq(Seq(Item(t)))
      BY <2>1, <3>1 DEF Slice
    <3> QED
      BY <2>4, <3>2, HoldsIs
  <2> QED
    BY <1>1, <2>2, <2>3, <2>4
<1>4. \A x, y \in CustomItem(raw, t) : x = y
  BY CustomItemIs
<1>5. \A v \in CustomParse(raw, t) : Holds(t, v)
  BY <1>2, <1>3
<1>6. \A v, w \in CustomParse(raw, t) : v = w
  BY <1>2, <1>4
<1> QED
  BY <1>5, <1>6

LEMMA RawIs ==
  ASSUME NEW b, Supported(b.holds), NEW raw \in Text
  PROVE  /\ \A v \in Raw(b, raw) : Holds(b.holds, v)
         /\ \A v, w \in Raw(b, raw) : v = w
BY CustomParseIs, ParseIs DEF Raw

LEMMA OpIs ==
  ASSUME NEW op \in Op
  PROVE  /\ op.texts \in Seq(Text) /\ op.kind \in {"set", "append", "replace"}
         /\ op.kind # "replace" => Len(op.texts) = 1 /\ op.texts[1] \in Text
<1>1. \A f \in [{1} -> Text] : f \in Seq(Text) /\ Len(f) = 1 /\ f[1] \in Text
  <2> SUFFICES ASSUME NEW f \in [{1} -> Text] PROVE f \in Seq(Text) /\ Len(f) = 1 /\ f[1] \in Text
    OBVIOUS
  <2>1. f = [i \in 1..1 |-> f[i]] /\ \A i \in 1..1 : f[i] \in Text
    OBVIOUS
  <2> QED
    BY <2>1
<1> QED
  BY <1>1 DEF Op

LEMMA SliceIs ==
  ASSUME NEW b, Supported(b.holds)
  PROVE  /\ IsSlice(b) <=> b.holds.depth = 1
         /\ \A xs : ItemsOf(Slice(xs)) = xs
BY SupportedIs DEF IsSlice, ItemsOf, Slice

\* With a parser, the texts are parsed one by one.
LEMMA TogetherIs ==
  ASSUME NEW b, Supported(b.holds), IsSlice(b), NEW texts \in Seq(Text)
  PROVE  LET parsed == Together(All([i \in DOMAIN texts |-> Raw(b, texts[i])])) IN
         /\ \A v \in parsed : Holds(b.holds, v)
         /\ \A v, w \in parsed : v = w
<1> DEFINE each == [i \in DOMAIN texts |-> Raw(b, texts[i])]
<1>1. b.holds.depth = 1
  BY SliceIs
<1>2. ASSUME NEW vs \in All(each)
      PROVE  FlattenSeq([i \in DOMAIN vs |-> ItemsOf(vs[i])]) \in Seq(Item(b.holds))
  <2>1. /\ vs = [i \in DOMAIN each |-> vs[i]] /\ DOMAIN each = DOMAIN texts
        /\ \A i \in DOMAIN each : vs[i] \in each[i]
    BY AllIs
  <2>2. \A i \in DOMAIN texts : vs[i] \in Raw(b, texts[i]) /\ texts[i] \in Text
    BY <2>1
  <2>3. \A i \in DOMAIN texts : Holds(b.holds, vs[i])
    BY <2>2, RawIs
  <2>4. \A i \in DOMAIN texts : ItemsOf(vs[i]) \in Seq(Item(b.holds))
    BY <1>1, <2>3, HoldsIs DEF ItemsOf
  <2>5. DOMAIN vs = 1..Len(texts) /\ Len(texts) \in Nat /\ DOMAIN texts = 1..Len(texts)
    BY <2>1
  <2>6. [i \in DOMAIN vs |-> ItemsOf(vs[i])] \in Seq(Seq(Item(b.holds)))
    BY <2>4, <2>5
  <2> QED
    BY <2>6, FlattenType
<1>3. \A v, w \in All(each) : v = w
  BY AllIs
<1> HIDE DEF each
<1>4. Together(All(each))
        = {Slice(FlattenSeq([i \in DOMAIN vs |-> ItemsOf(vs[i])])) : vs \in All(each)}
  BY DEF Together
<1>5. \A v \in Together(All(each)) : Holds(b.holds, v)
  BY <1>1, <1>2, <1>4, HoldsIs
<1>6. \A v, w \in Together(All(each)) : v = w
  BY <1>3, <1>4
<1> QED
  BY <1>5, <1>6 DEF each

\* Without, they are written as a line of CSV, and each is read from it.
LEMMA ByLine ==
  ASSUME NEW b, Supported(b.holds), IsSlice(b), ~b.parser, NEW op \in Op, op.kind # "set"
  PROVE  Parsed(op, b) = ByItself(op, b)
<1> DEFINE t == b.holds
           texts == op.texts
           Each(fs) == [k \in DOMAIN fs |-> ParseItem(fs[k], t)]
<1>1. t.depth = 1 /\ texts \in Seq(Text)
  BY SliceIs, OpIs
<1>2. Parsed(op, b) = {Slice(xs) : xs \in UNION {All(Each(fs)) : fs \in Fields(FormatCSV(texts))}}
  <2>1. Parsed(op, b) = Parse(FormatCSV(texts), t)
    BY DEF Parsed, Raw
  <2> QED
    BY <1>1, <2>1 DEF Parse, ParseItems
<1> HIDE DEF Each
<1>3. CASE texts # <<<<>>>>
  <2>1. Fields(FormatCSV(texts)) = {texts}
    BY <1>1, <1>3, TextNests, WrittenIsRead
  <2>2. ByItself(op, b) = {Slice(xs) : xs \in All(Each(texts))}
    BY <1>3 DEF ByItself, Each
  <2> QED
    BY <1>2, <2>1, <2>2
<1>4. CASE texts = <<<<>>>>
  <2>1. FormatCSV(texts) = <<>>
    <3>1. PICK S : S \subseteq Text /\ Text = TextOver(S)
      BY TextNests
    <3>2. Text \subseteq Seq(Tokens(Text)) /\ <<>> \in Text
      BY <3>1, TextNests DEF TextOver, Tokens
    <3> QED
      BY <1>1, <1>4, <3>2, FormatSteps, FieldIs
  <2>2. Fields(FormatCSV(texts)) = {<<>>}
    BY <2>1 DEF Fields
  <2>3. All(Each(<<>>)) = {<<>>}
    <3>1. <<>> \in Seq({}) /\ DOMAIN Each(<<>>) = DOMAIN <<>> /\ DOMAIN <<>> = {}
      BY DEF Each
    <3> QED
      BY <3>1, AllBack, Zenon
  <2>4. ByItself(op, b) = {Slice(<<>>)}
    BY <1>4 DEF ByItself
  <2> QED
    BY <1>2, <2>2, <2>3, <2>4
<1> QED
  BY <1>3, <1>4

\* What an op comes to is what its texts do by themselves: a value of the type,
\* and only one.
LEMMA ParsedIs ==
  ASSUME NEW b, Supported(b.holds), NEW op \in Op, op.kind = "set" \/ IsSlice(b)
  PROVE  /\ Parsed(op, b) = ByItself(op, b)
         /\ \A v \in Parsed(op, b) : Holds(b.holds, v)
         /\ \A v, w \in Parsed(op, b) : v = w
<1>1. CASE op.kind = "set"
  <2>1. Parsed(op, b) = Raw(b, op.texts[1]) /\ ByItself(op, b) = Parsed(op, b)
    BY <1>1 DEF Parsed, ByItself
  <2> QED
    BY <1>1, <2>1, OpIs, RawIs
<1>2. CASE op.kind # "set" /\ b.parser
  <2>1. Parsed(op, b) = Together(All([i \in DOMAIN op.texts |-> Raw(b, op.texts[i])]))
        /\ ByItself(op, b) = Parsed(op, b)
    BY <1>2 DEF Parsed, ByItself
  <2> QED
    BY <1>2, <2>1, OpIs, TogetherIs
<1>3. CASE op.kind # "set" /\ ~b.parser
  <2> DEFINE t == b.holds
             each == [i \in DOMAIN op.texts |-> ParseItem(op.texts[i], t)]
  <2>1. t.depth = 1 /\ op.texts \in Seq(Text)
    BY <1>3, SliceIs, OpIs
  <2>2. Parsed(op, b) = ByItself(op, b)
    BY <1>3, ByLine
  <2>3. ByItself(op, b) = IF op.texts = <<<<>>>> THEN {Slice(<<>>)}
                          ELSE {Slice(xs) : xs \in All(each)}
    BY <1>3 DEF ByItself
  <2>4. ASSUME NEW xs \in All(each) PROVE xs \in Seq(Item(t))
    <3>1. /\ xs = [i \in DOMAIN each |-> xs[i]] /\ DOMAIN each = DOMAIN op.texts
          /\ \A i \in DOMAIN each : xs[i] \in each[i]
      BY AllIs
    <3>2. \A i \in DOMAIN op.texts : xs[i] \in ParseItem(op.texts[i], t) /\ op.texts[i] \in Text
      BY <2>1, <3>1
    <3>3. \A i \in DOMAIN op.texts : xs[i] \in Item(t)
      BY <3>2, ParseItemIs
    <3>4. DOMAIN op.texts = 1..Len(op.texts) /\ Len(op.texts) \in Nat
      BY <2>1
    <3>5. PICK n \in Nat : n = Len(op.texts)
      BY <3>4
    <3> HIDE DEF each, t
    <3>6. xs = [i \in 1..n |-> xs[i]] /\ \A i \in 1..n : xs[i] \in Item(t)
      BY <3>1, <3>3, <3>4, <3>5
    <3> QED
      BY <3>6
  <2>5. \A xs, ys \in All(each) : xs = ys
    BY AllIs
  <2> HIDE DEF each
  <2>6. <<>> \in Seq(Item(t)) /\ \A xs \in Seq(Item(t)) : Holds(t, Slice(xs))
    BY <2>1, HoldsIs
  <2>7. \A v \in ByItself(op, b) : Holds(t, v)
    BY <2>3, <2>4, <2>6
  <2>8. \A v, w \in ByItself(op, b) : v = w
    BY <2>3, <2>5
  <2> QED
    BY <2>2, <2>7, <2>8
<1> QED
  BY <1>1, <1>2, <1>3
-----------------------------------------------------------------------------
(* What is written of a value is read as that value.                         *)
LEMMA TextsOver ==
  /\ Text \subseteq TextOver(Text) /\ Text \subseteq Seq(Tokens(Text))
  /\ TextOver(Text) \subseteq TextOver(TextOver(Text))
  /\ TextOver(Text) \subseteq Seq(Tokens(TextOver(Text)))
BY TextNests DEF TextOver, Tokens

\* A list without nil that is not a single blank is read as it was written.
LEMMA ListBack ==
  ASSUME NEW t, Supported(t), NEW xs \in Seq(Item(t)), NilItem \notin Range(xs),
         xs # <<<<>>>>
  PROVE  /\ xs \in Seq(Text) /\ FormatItems(xs) = xs
         /\ FormatCSV(xs) \in TextOver(Text)
         /\ ParseItems(FormatCSV(xs), t) = {xs}
<1>1. DOMAIN xs = 1..Len(xs) /\ Len(xs) \in Nat /\ xs = [i \in DOMAIN xs |-> xs[i]]
  OBVIOUS
<1>2. \A i \in DOMAIN xs : xs[i] \in Item(t) /\ xs[i] # NilItem
  BY DEF Range
<1>3. \A i \in DOMAIN xs : FormatItem(xs[i]) = xs[i] /\ ParseItem(xs[i], t) = {xs[i]}
  BY <1>2, ItemIs
<1>4. xs \in Seq(Text)
  <2>1. Item(t) \subseteq Text
    BY ItemIs
  <2> QED
    BY <2>1, SeqMonotonic
<1>5. FormatItems(xs) = xs
  BY <1>1, <1>3 DEF FormatItems
<1>6. FormatCSV(xs) \in TextOver(Text)
  BY <1>4, TextsOver, FormatType DEF TextOver, Tokens
<1>7. ParseItems(FormatCSV(xs), t) = {xs}
  <2> DEFINE Each(fs) == [k \in DOMAIN fs |-> ParseItem(fs[k], t)]
  <2>1. Fields(FormatCSV(xs)) = {xs}
    BY <1>4, TextsOver, WrittenIsRead
  <2>2. ParseItems(FormatCSV(xs), t) = UNION {All(Each(fs)) : fs \in Fields(FormatCSV(xs))}
    BY DEF ParseItems
  <2>3. DOMAIN Each(xs) = DOMAIN xs /\ \A i \in DOMAIN xs : Each(xs)[i] = {xs[i]}
    BY <1>3
  <2> HIDE DEF Each
  <2>4. All(Each(xs)) = {xs}
    BY <2>3, AllBack
  <2> QED
    BY <2>1, <2>2, <2>4
<1> QED
  BY <1>4, <1>5, <1>6, <1>7

\* Values by the depth of their type: for slices of slices each slice is a line,
\* and the lines are the fields of one.
LEMMA WrittenScalar ==
  ASSUME NEW t, Supported(t), t.depth = 0, NEW v, Holds(t, v), Unambiguous(v, t)
  PROVE  Parse(Format(v, t), t) = {v}
<1>1. PICK x \in Item(t) : x = v[1][1] /\ v = Scalar(x)
  BY HoldsIs
<1>2. v[1] = <<x>> /\ 1 \in DOMAIN v
  BY <1>1 DEF Scalar
<1>3. NilItem \notin Range(<<x>>)
  BY <1>2 DEF Unambiguous
<1>4. x # NilItem
  BY <1>3 DEF Range
<1>5. Format(v, t) = FormatItem(x)
  BY <1>1 DEF Format, ItemsOf
<1>6. FormatItem(x) = x /\ ParseItem(x, t) = {x}
  BY <1>4, ItemIs
<1>7. Parse(x, t) = {Scalar(y) : y \in ParseItem(x, t)}
  BY DEF Parse
<1> QED
  BY <1>1, <1>5, <1>6, <1>7

LEMMA WrittenSlice ==
  ASSUME NEW t, Supported(t), t.depth = 1, NEW v, Holds(t, v), Unambiguous(v, t)
  PROVE  Parse(Format(v, t), t) = {v}
<1>1. PICK xs \in Seq(Item(t)) : xs = v[1] /\ v = Slice(xs)
  BY HoldsIs
<1>2. 1 \in DOMAIN v
  BY <1>1 DEF Slice
<1>3. NilItem \notin Range(xs) /\ <<<<>>>> \notin Range(v)
  BY <1>1, <1>2 DEF Unambiguous
<1>4. xs # <<<<>>>>
  BY <1>1, <1>2, <1>3 DEF Range
<1>5. Format(v, t) = FormatCSV(FormatItems(xs))
  BY <1>1 DEF Format, ItemsOf
<1>6. FormatItems(xs) = xs /\ ParseItems(FormatCSV(xs), t) = {xs}
  BY <1>3, <1>4, ListBack
<1>7. \A raw : Parse(raw, t) = {Slice(ys) : ys \in ParseItems(raw, t)}
  BY DEF Parse
<1>8. Parse(FormatCSV(xs), t) = {Slice(ys) : ys \in {xs}}
  BY <1>6, <1>7, Zenon
<1> QED
  BY <1>1, <1>5, <1>6, <1>8

LEMMA WrittenLists ==
  ASSUME NEW t, Supported(t), t.depth = 2, NEW v, Holds(t, v), Unambiguous(v, t)
  PROVE  Parse(Format(v, t), t) = {v}
<1>1. v \in Seq(Seq(Item(t))) /\ DOMAIN v = 1..Len(v) /\ Len(v) \in Nat
  BY HoldsIs
<1>2. \A i \in DOMAIN v : v[i] \in Seq(Item(t)) /\ NilItem \notin Range(v[i]) /\ v[i] # <<<<>>>>
  <2>1. \A i \in DOMAIN v : v[i] \in Seq(Item(t)) /\ v[i] \in Range(v)
    BY <1>1 DEF Range
  <2>2. <<<<>>>> \notin Range(v) /\ \A i \in DOMAIN v : NilItem \notin Range(v[i])
    BY DEF Unambiguous
  <2> QED
    BY <2>1, <2>2
<1>3. \A i \in DOMAIN v : /\ v[i] \in Seq(Text) /\ FormatItems(v[i]) = v[i]
                          /\ FormatCSV(v[i]) \in TextOver(Text)
                          /\ ParseItems(FormatCSV(v[i]), t) = {v[i]}
  BY <1>2, ListBack
<1>4. PICK texts : texts = [i \in DOMAIN v |-> FormatCSV(v[i])]
  OBVIOUS
<1>5. texts \in Seq(TextOver(Text))
  BY <1>1, <1>3, <1>4
<1>6. Format(v, t) = FormatCSV(texts)
  <2>1. Format(v, t) = FormatCSV([i \in DOMAIN v |-> FormatCSV(FormatItems(v[i]))])
    BY DEF Format
  <2>2. [i \in DOMAIN v |-> FormatCSV(FormatItems(v[i]))] = texts
    BY <1>3, <1>4
  <2> QED
    BY <2>1, <2>2
<1>7. texts # <<<<>>>>
  <2> SUFFICES ASSUME texts = <<<<>>>> PROVE FALSE
    OBVIOUS
  <2>1. DOMAIN v = {1} /\ FormatCSV(v[1]) = <<>>
    BY <1>4
  <2>2. v[1] = <<>> \/ v[1] = <<<<>>>>
    BY <1>3, <2>1, TextsOver, WrittenBlank
  <2>3. v[1] = <<>>
    BY <1>2, <2>1, <2>2
  <2>4. Len(v) = 1
    <3>1. 1 \in 1..Len(v) /\ \A i \in 1..Len(v) : i = 1
      BY <1>1, <2>1
    <3> QED
      BY <1>1, <3>1
  <2>5. v = <<<<>>>>
    BY <1>1, <2>3, <2>4
  <2> QED
    BY <2>5 DEF Unambiguous
<1>8. Fields(FormatCSV(texts)) = {texts}
  BY <1>5, <1>7, TextsOver, WrittenIsRead
<1> DEFINE Each(fs) == [k \in DOMAIN fs |-> ParseItems(fs[k], t)]
<1>9. \A raw : Parse(raw, t) = UNION {All(Each(fs)) : fs \in Fields(raw)}
  BY DEF Parse
<1>10. DOMAIN Each(texts) = DOMAIN v /\ \A i \in DOMAIN v : Each(texts)[i] = {v[i]}
  BY <1>3, <1>4
<1> HIDE DEF Each
<1>11. All(Each(texts)) = {v}
  BY <1>1, <1>10, AllBack
<1> QED
  BY <1>6, <1>8, <1>9, <1>11

\* What is written of a value is a text and reads back, if it can.
LEMMA WrittenValue ==
  ASSUME NEW t, Supported(t), NEW v, Holds(t, v)
  PROVE  /\ ReadBack(Format(v, t), v, t)
         /\ Format(v, t) \in TextOfLists
<1>1. t.depth \in 0..2
  BY SupportedIs
<1>2. ReadBack(Format(v, t), v, t)
  BY <1>1, WrittenScalar, WrittenSlice, WrittenLists DEF ReadBack
<1>3. \A x \in Item(t) : FormatItem(x) \in Text
  <2>1. <<>> \in Text
    BY DEF Text, TextOver
  <2> QED
    BY <2>1, ItemIs DEF FormatItem
<1>4. \A xs \in Seq(Item(t)) : FormatCSV(FormatItems(xs)) \in TextOver(Text)
  <2> SUFFICES ASSUME NEW xs \in Seq(Item(t)) PROVE FormatCSV(FormatItems(xs)) \in TextOver(Text)
    OBVIOUS
  <2>1. DOMAIN xs = 1..Len(xs) /\ Len(xs) \in Nat /\ \A i \in DOMAIN xs : xs[i] \in Item(t)
    OBVIOUS
  <2>2. FormatItems(xs) \in Seq(Text)
    BY <1>3, <2>1 DEF FormatItems
  <2> QED
    BY <2>2, TextsOver, FormatType DEF TextOver, Tokens
<1>5. CASE t.depth = 0
  <2>1. PICK x \in Item(t) : x = v[1][1]
    BY <1>5, HoldsIs
  <2>2. Format(v, t) = FormatItem(x)
    BY <1>5, <2>1 DEF Format, ItemsOf
  <2> QED
    BY <1>2, <1>3, <2>2, TextNests
<1>6. CASE t.depth = 1
  <2>1. PICK xs \in Seq(Item(t)) : xs = v[1]
    BY <1>6, HoldsIs
  <2>2. Format(v, t) = FormatCSV(FormatItems(xs))
    BY <1>6, <2>1 DEF Format, ItemsOf
  <2> QED
    BY <1>2, <1>4, <2>2, TextNests
<1>7. CASE t.depth = 2
  <2>1. v \in Seq(Seq(Item(t))) /\ DOMAIN v = 1..Len(v) /\ Len(v) \in Nat
        /\ \A i \in DOMAIN v : v[i] \in Seq(Item(t))
    BY HoldsIs
  <2>2. PICK texts : texts = [i \in DOMAIN v |-> FormatCSV(FormatItems(v[i]))]
    OBVIOUS
  <2>3. texts \in Seq(TextOver(Text))
    BY <1>4, <2>1, <2>2
  <2>4. Format(v, t) = FormatCSV(texts)
    BY <1>7, <2>2 DEF Format
  <2>5. FormatCSV(texts) \in TextOfLists
    BY <2>3, TextsOver, FormatType DEF TextOver, Tokens, TextOfLists
  <2> QED
    BY <1>2, <2>4, <2>5
<1> QED
  BY <1>1, <1>5, <1>6, <1>7
-----------------------------------------------------------------------------
(* The bindings of a schema.                                                 *)
\* What SchemaOf is given has defaults of their types.
GivenInv ==
  /\ \A t \in Types : \A i \in DOMAIN types[t] :
       LET f == types[t][i] IN
       SchemaKind(f.holds) # "unsupported" => Holds(f.holds, f.default)
  /\ DOMAIN overrides \subseteq Path
  /\ \A p \in DOMAIN overrides : overrides[p] \in Override

\* A binding has a default of its type, and shows that or nothing.
GoodBinding ==
  {b \in Binding : /\ Supported(b.holds) /\ Holds(b.holds, b.default)
                   /\ ~b.redacted => b.shown = Format(b.default, b.holds)}

ValuesInv == /\ GivenInv
             /\ bindings \in Seq(GoodBinding)
             /\ seen \subseteq Path /\ seenLoad \subseteq Path /\ matched \subseteq Path

LEMMA ZeroIs == ASSUME NEW t, Supported(t) PROVE Holds(t, ZeroValue(t))
<1>1. t.base \in {"string", "int8"} /\ t.depth \in 0..2
  BY SupportedIs
<1>2. ZeroItem(t) \in Item(t)
  <2>1. <<>> \in Text /\ 0 \in Min8..Max8
    BY DEF Text, TextOver, Min8, Max8
  <2>2. CASE t.pointers
    BY <2>2 DEF ZeroItem, Item
  <2>3. CASE ~t.pointers /\ t.base = "int8"
    BY <2>1, <2>3 DEF ZeroItem, Item
  <2>4. CASE ~t.pointers /\ t.base = "string"
    BY <2>1, <2>4 DEF ZeroItem, Item
  <2> QED
    BY <1>1, <2>2, <2>3, <2>4
<1>3. <<>> \in Seq(Item(t)) /\ <<>> \in Seq(Seq(Item(t)))
  OBVIOUS
<1>4. CASE t.depth = 0
  <2>1. ZeroValue(t) = Scalar(ZeroItem(t))
    BY <1>4 DEF ZeroValue
  <2> QED
    BY <1>2, <1>4, <2>1, HoldsIs
<1>5. CASE t.depth = 1
  <2>1. ZeroValue(t) = Slice(<<>>)
    BY <1>5 DEF ZeroValue
  <2> QED
    BY <1>3, <1>5, <2>1, HoldsIs
<1>6. CASE t.depth = 2
  <2>1. ZeroValue(t) = <<>>
    BY <1>6 DEF ZeroValue
  <2> QED
    BY <1>3, <1>6, <2>1, HoldsIs
<1> QED
  BY <1>1, <1>4, <1>5, <1>6

LEMMA RedactedIs == Redacted \in TextOfLists
<1>1. Char("redacted") \in Plain
  BY DEF Char, Token, Plain
<1>2. PICK S : Text = TextOver(S)
  BY TextNests
<1>3. \A c \in Plain : <<c>> \in TextOver(S)
  BY DEF TextOver
<1> QED
  BY <1>1, <1>2, <1>3, TextNests DEF Redacted

\* What a leaf is bound to is of its type.
LEMMA NewBindingGood ==
  ASSUME StackInv, GivenInv, pc = "walk", ~AtEnd, LeafAccepted
  PROVE  /\ Zeroed(Overridden(NewBinding)) \in GoodBinding
         /\ PathHere \in Path /\ LoadHere \in Path
<1>1. F \in Field /\ Top \in Frame
  BY FieldType
<1>2. F.holds \in Type /\ F.default \in Value /\ F.flag \in Names \cup {NoName}
      /\ F.cli \in BOOLEAN /\ F.redact \in BOOLEAN /\ F.path \in Path /\ F.load \in Path
  BY <1>1 DEF Field
<1>3. Top.path \in Path /\ Top.load \in Path /\ Top.cli \in BOOLEAN
      /\ Top.type \in Types /\ Top.next \in Nat \ {0}
  BY <1>1 DEF Frame
<1>4. PathHere \in Path /\ LoadHere \in Path
  BY <1>2, <1>3, ConcatProperties DEF PathHere, LoadHere, Path
<1>5. Supported(F.holds) /\ PathHere # <<>>
  BY <1>2 DEF LeafAccepted, Supported, PathNotEmpty
<1>6. Holds(F.holds, F.default)
  <2>1. types[Top.type] \in Seq(Field)
    BY <1>3 DEF StackInv
  <2>2. Top.next \in DOMAIN types[Top.type]
    BY <1>3, <2>1 DEF AtEnd
  <2> QED
    BY <1>3, <1>5, <2>2 DEF GivenInv, F, Supported
<1>7. Wanted \in BOOLEAN
  BY DEF Wanted
<1>8. /\ Format(F.default, F.holds) \in TextOfLists /\ ZeroValue(F.holds) \in Value
      /\ Holds(F.holds, ZeroValue(F.holds))
  BY <1>5, <1>6, WrittenValue, ZeroIs, HoldsIs
<1>9. \A r : Shown(r) \in TextOfLists
  BY <1>8, RedactedIs DEF Shown
<1>10. NewBinding \in Binding /\ NewBinding.holds = F.holds /\ NewBinding.default = F.default
       /\ NewBinding.redacted = F.redact /\ NewBinding.shown = Shown(F.redact)
       /\ NewBinding.path = PathHere
  BY <1>2, <1>4, <1>5, <1>7, <1>9 DEF NewBinding, Binding
<1>11. PICK b : b = Overridden(NewBinding)
  OBVIOUS
<1>12. b \in Binding /\ b.holds = F.holds /\ b.default = F.default /\ b.shown = Shown(b.redacted)
  <2>1. CASE PathHere \notin DOMAIN overrides
    BY <1>10, <1>11, <2>1 DEF Overridden
  <2>2. CASE PathHere \in DOMAIN overrides
    <3>1. PICK o : o = overrides[PathHere]
      OBVIOUS
    <3>2. o \in Override
      BY <2>2, <3>1 DEF GivenInv
    <3>3. o.flag \in Names \cup {NoName} /\ o.parser \in BOOLEAN
      BY <3>2 DEF Override
    <3>4. \A old \in BOOLEAN :
            Switched(o.redact, old) \in BOOLEAN /\ Switched(o.cli, old) \in BOOLEAN
      BY DEF Switched
    <3>5. PICK nb \in Binding : nb = NewBinding
      BY <1>10
    <3>6. PICK c \in BOOLEAN : c = Switched(o.cli, nb.cli)
      BY <3>4 DEF Binding
    <3>7. PICK r \in BOOLEAN : r = Switched(o.redact, nb.redacted)
      BY <3>4 DEF Binding
    <3>8. PICK g \in Names \cup {NoName} : g = IF o.renames THEN o.flag ELSE nb.flag
      <4>1. nb.flag \in Names \cup {NoName}
        BY DEF Binding
      <4> QED
        BY <3>3, <4>1
    <3>9. PICK s \in TextOfLists : s = Shown(r)
      BY <1>9
    <3>10. b = [nb EXCEPT !.flag = g, !.cli = c, !.redacted = r, !.shown = s, !.parser = o.parser]
      BY <1>10, <1>11, <2>2, <3>1, <3>5, <3>6, <3>7, <3>8, <3>9 DEF Overridden
    <3>11. b \in Binding /\ b.holds = nb.holds /\ b.default = nb.default /\ b.redacted = r
           /\ b.shown = s
      BY <3>3, <3>10 DEF Binding
    <3> QED
      BY <1>10, <3>5, <3>9, <3>11
  <2> QED
    BY <2>1, <2>2
<1>13. PICK d : d = IF b.redacted THEN ZeroValue(b.holds) ELSE b.default
  OBVIOUS
<1>14. d \in Value /\ Holds(F.holds, d)
  BY <1>2, <1>6, <1>8, <1>12, <1>13
<1>15. Zeroed(b) = [b EXCEPT !.default = d]
  BY <1>13 DEF Zeroed
<1>16. PICK z \in Binding : /\ z = Zeroed(b) /\ z.holds = F.holds /\ z.default = d
                            /\ z.redacted = b.redacted /\ z.shown = b.shown
  BY <1>12, <1>14, <1>15 DEF Binding
<1>17. ~z.redacted => z.shown = Format(z.default, z.holds)
  BY <1>12, <1>13, <1>16 DEF Shown
<1>18. z \in GoodBinding
  BY <1>5, <1>14, <1>16, <1>17 DEF GoodBinding
<1> QED
  BY <1>4, <1>11, <1>16, <1>18

\* SchemaOf binds every leaf to a default of its type.
LEMMA ValuesNext == StackInv /\ ValuesInv /\ [Next]_schemaVars => ValuesInv'
<1> SUFFICES ASSUME StackInv, ValuesInv, [Next]_schemaVars PROVE ValuesInv'
  OBVIOUS
<1>1. UNCHANGED <<types, overrides>>
  BY DEF Next, SkipField, BadMetadata, EnterStruct, Recursion, LeaveStruct, AddLeaf,
         RejectLeaf, CheckOverrides, Result, schemaVars
<1>2. GivenInv'
  BY <1>1 DEF ValuesInv, GivenInv
<1>3. CASE UNCHANGED <<bindings, seen, seenLoad, matched>>
  BY <1>2, <1>3 DEF ValuesInv
<1>4. CASE AddLeaf
  <2>1. /\ bindings' = Append(bindings, Zeroed(Overridden(NewBinding)))
        /\ seen' = seen \cup {PathHere} /\ seenLoad' = seenLoad \cup {LoadHere}
        /\ matched' = matched \cup ({PathHere} \cap DOMAIN overrides)
        /\ pc = "walk" /\ ~AtEnd /\ LeafAccepted
    BY <1>4 DEF AddLeaf, AtField
  <2>2. /\ Zeroed(Overridden(NewBinding)) \in GoodBinding
        /\ PathHere \in Path /\ LoadHere \in Path
    BY <2>1, NewBindingGood DEF ValuesInv
  <2>3. bindings' \in Seq(GoodBinding)
    BY <2>1, <2>2, AppendProperties DEF ValuesInv
  <2> QED
    BY <1>2, <2>1, <2>2, <2>3 DEF ValuesInv
<1> QED
  BY <1>3, <1>4
     DEF Next, SkipField, BadMetadata, EnterStruct, Recursion, LeaveStruct, RejectLeaf,
         CheckOverrides, Result, schemaVars

LEMMA ValuesInit == ASSUME NEW in \in Inputs, InitWith(in) PROVE ValuesInv
<1>1. GivenInv
  BY InputAssumption DEF InitWith, GivenInv
<1>2. bindings \in Seq(GoodBinding) /\ seen = {} /\ seenLoad = {} /\ matched = {}
  BY DEF InitWith
<1> QED
  BY <1>1, <1>2 DEF ValuesInv

LEMMA SchemaTypeOK == StackInv /\ ValuesInv => TypeOK
<1> SUFFICES ASSUME StackInv, ValuesInv PROVE TypeOK
  OBVIOUS
<1>1. visiting \subseteq Types
  <2>1. \A i \in 1..Len(stack) : stack[i] \in Frame
    BY DEF StackInv
  <2> QED
    BY <2>1 DEF StackInv, Frame
<1>2. bindings \in Seq(Binding)
  <2>1. GoodBinding \subseteq Binding
    BY DEF GoodBinding
  <2> QED
    BY <2>1, SeqMonotonic DEF ValuesInv
<1> QED
  BY <1>1, <1>2 DEF TypeOK, StackInv, ValuesInv
-----------------------------------------------------------------------------
(* The operations on a flag.                                                 *)
\* The parts of ValueFollowsOps.
Fits(n, i) == ops[i].n = n /\ CanTake(ops[i]) /\ ByItself(ops[i], bindings[n]) # {}
Latest(n) == {i \in TakenBy(n) : /\ Overwrites(n, i)
                                 /\ \A j \in TakenBy(n) : j > i => ~Overwrites(n, j)}
Since(n)   == {i \in TakenBy(n) : \A l \in Latest(n) : i > l}
Come(n, i) == CHOOSE v \in ByItself(ops[i], bindings[n]) : TRUE
Base(n)    == IF Latest(n) = {} THEN bindings[n].default
              ELSE Come(n, CHOOSE l \in Latest(n) : TRUE)
Gains(n)   == [i \in 1..(at - 1) |-> IF i \in Since(n) THEN ItemsOf(Come(n, i)) ELSE <<>>]
ValueIs(n) == flags[n].value = IF Since(n) = {} THEN Base(n)
                               ELSE Slice(ItemsOf(Base(n)) \o FlattenSeq(Gains(n)))
SetIs(n)   == flags[n].set <=> \E i \in TakenBy(n) : ops[i].kind = "set"

LEMMA FollowsIs ==
  ValueFollowsOps <=> (phase = "parse" => \A n \in DOMAIN flags : ValueIs(n) /\ SetIs(n))
BY Zenon DEF ValueFollowsOps, ValueIs, SetIs, Gains, Base, Come, Since, Latest

OpsAre == /\ ops \in Seq(Op) /\ at \in 1..(Len(ops) + 1)
          /\ bindings \in Seq(GoodBinding)

LEMMA ComeIs ==
  ASSUME OpsAre, NEW n \in 1..Len(bindings), NEW i \in 1..Len(ops), Fits(n, i)
  PROVE  LET b == bindings[n] IN
         /\ Come(n, i) \in ByItself(ops[i], b)
         /\ \A v \in Parsed(ops[i], b) : v = Come(n, i)
         /\ Holds(b.holds, Come(n, i))
         /\ ops[i] \in Op /\ b \in GoodBinding /\ Supported(b.holds)
<1> DEFINE b == bindings[n]
<1>1. ops[i] \in Op /\ b \in GoodBinding
  BY ElementOfSeq DEF OpsAre
<1>2. Supported(b.holds)
  BY <1>1 DEF GoodBinding
<1>3. ops[i].kind = "set" \/ IsSlice(b)
  BY DEF Fits, CanTake
<1>4. /\ Parsed(ops[i], b) = ByItself(ops[i], b)
      /\ \A v \in Parsed(ops[i], b) : Holds(b.holds, v)
      /\ \A v, w \in Parsed(ops[i], b) : v = w
  BY <1>1, <1>2, <1>3, ParsedIs
<1>5. Come(n, i) \in ByItself(ops[i], b)
  BY DEF Come, Fits
<1> QED
  BY <1>1, <1>2, <1>4, <1>5

\* What a slice has gained is lists of items.
LEMMA GainsAre ==
  ASSUME OpsAre, NEW n \in 1..Len(bindings), IsSlice(bindings[n])
  PROVE  LET I == Item(bindings[n].holds) IN
         /\ Gains(n) \in Seq(Seq(I)) /\ Len(Gains(n)) = at - 1
         /\ ItemsOf(Base(n)) \in Seq(I) /\ Base(n) = Slice(ItemsOf(Base(n)))
<1> DEFINE b == bindings[n]
           I == Item(b.holds)
<1>1. b \in GoodBinding
  BY ElementOfSeq DEF OpsAre
<1>2. Supported(b.holds) /\ b.holds.depth = 1 /\ Holds(b.holds, b.default)
  BY <1>1, SliceIs DEF GoodBinding
<1>3. \A i \in TakenBy(n) : i \in 1..(at - 1) /\ i \in 1..Len(ops) /\ Fits(n, i)
  BY DEF TakenBy, OpsAre, Fits
<1>4. \A i \in TakenBy(n) : Holds(b.holds, Come(n, i))
  BY <1>3, ComeIs
<1>5. \A v : Holds(b.holds, v) => ItemsOf(v) \in Seq(I) /\ v = Slice(ItemsOf(v))
  BY <1>2, HoldsIs DEF ItemsOf
<1>6. Holds(b.holds, Base(n))
  <2>1. CASE Latest(n) = {}
    BY <1>2, <2>1 DEF Base
  <2>2. CASE Latest(n) # {}
    <3>1. (CHOOSE l \in Latest(n) : TRUE) \in TakenBy(n)
      BY <2>2 DEF Latest
    <3> QED
      BY <1>4, <2>2, <3>1 DEF Base
  <2> QED
    BY <2>1, <2>2
<1>7. PICK m \in Nat : m = at - 1
  BY DEF OpsAre
<1>8. Gains(n) = [i \in 1..m |-> IF i \in Since(n) THEN ItemsOf(Come(n, i)) ELSE <<>>]
  BY <1>7 DEF Gains
<1>9. \A i \in Since(n) : ItemsOf(Come(n, i)) \in Seq(I)
  BY <1>4, <1>5 DEF Since
<1>10. <<>> \in Seq(I)
  OBVIOUS
<1> HIDE DEF I
<1>11. \A i \in 1..m : (IF i \in Since(n) THEN ItemsOf(Come(n, i)) ELSE <<>>) \in Seq(I)
  BY <1>9, <1>10
<1>12. Gains(n) \in Seq(Seq(I)) /\ Len(Gains(n)) = m
  BY <1>8, <1>11
<1> QED
  BY <1>5, <1>6, <1>7, <1>12 DEF I

\* One operation more, the k-th.
LEMMA TakenNext ==
  ASSUME OpsAre, at <= Len(ops), at' = at + 1, UNCHANGED <<ops, bindings>>,
         DOMAIN flags' = DOMAIN flags, NEW n \in 1..Len(bindings), NEW k, k = at
  PROVE  /\ TakenBy(n)' = IF Fits(n, k) THEN TakenBy(n) \cup {k} ELSE TakenBy(n)
         /\ \A i \in TakenBy(n) : i \in Nat /\ i < k /\ (Overwrites(n, i)' <=> Overwrites(n, i))
         /\ Overwrites(n, k)' <=>
              \/ ops[k].kind = "replace"
              \/ /\ ops[k].kind = "set"
                 /\ \/ ~IsSlice(bindings[n])
                    \/ \A j \in TakenBy(n) : ops[j].kind # "set"
         /\ \A i : Come(n, i)' = Come(n, i)
<1>1. at \in Nat \ {0}
  BY DEF OpsAre
<1>2. \A i : Fits(n, i)' <=> Fits(n, i)
  BY DEF Fits, CanTake
<1>3. /\ \A i : i \in TakenBy(n) <=> i \in 1..(at - 1) /\ Fits(n, i)
      /\ \A i : i \in TakenBy(n)' <=> i \in 1..at /\ Fits(n, i)
  <2>1. TakenBy(n) = {i \in 1..(at - 1) : Fits(n, i)}
    BY DEF TakenBy, Fits
  <2>2. TakenBy(n)' = {i \in 1..(at' - 1) : Fits(n, i)'}
    BY DEF TakenBy, Fits
  <2>3. at' - 1 = at
    BY <1>1
  <2> QED
    BY <1>2, <2>1, <2>2, <2>3
<1>4. \A i : i \in 1..at <=> i \in 1..(at - 1) \/ i = at
  BY <1>1
<1>5. \A i \in 1..(at - 1) : i \in Nat /\ i < at
  BY <1>1
<1>6. TakenBy(n)' = IF Fits(n, k) THEN TakenBy(n) \cup {k} ELSE TakenBy(n)
  BY <1>3, <1>4
<1>7. \A i \in 1..at : \A j : j \in TakenBy(n)' /\ j < i <=> j \in TakenBy(n) /\ j < i
  BY <1>1, <1>3, <1>4, <1>5
<1>8. ASSUME NEW i \in 1..at
      PROVE  Overwrites(n, i)' <=>
               \/ ops[i].kind = "replace"
               \/ /\ ops[i].kind = "set"
                  /\ \/ ~IsSlice(bindings[n])
                     \/ \A j \in TakenBy(n) : j < i => ops[j].kind # "set"
  BY <1>7 DEF Overwrites, FirstSet
<1>9. \A i \in TakenBy(n) : Overwrites(n, i)' <=> Overwrites(n, i)
  <2> SUFFICES ASSUME NEW i \in TakenBy(n) PROVE Overwrites(n, i)' <=> Overwrites(n, i)
    OBVIOUS
  <2>1. i \in 1..at
    BY <1>3, <1>4
  <2> QED
    BY <1>8, <2>1 DEF Overwrites, FirstSet
<1>10. Overwrites(n, k)' <=>
         \/ ops[k].kind = "replace"
         \/ /\ ops[k].kind = "set"
            /\ \/ ~IsSlice(bindings[n])
               \/ \A j \in TakenBy(n) : ops[j].kind # "set"
  <2>1. k \in 1..at /\ \A j \in TakenBy(n) : j < at
    BY <1>1, <1>3, <1>5
  <2> QED
    BY <1>8, <2>1
<1>11. \A i : Come(n, i)' = Come(n, i)
  BY DEF Come
<1> QED
  BY <1>3, <1>5, <1>6, <1>9, <1>10, <1>11

\* What is gained by one operation more.
LEMMA GainsNext ==
  ASSUME OpsAre, at <= Len(ops), at' = at + 1, NEW n \in 1..Len(bindings), NEW k, k = at,
         IsSlice(bindings[n]), \A i : Come(n, i)' = Come(n, i),
         \A i \in 1..(at - 1) : i \in Since(n)' <=> i \in Since(n),
         NEW x \in Seq(Item(bindings[n].holds)),
         x = IF k \in Since(n)' THEN ItemsOf(Come(n, k)) ELSE <<>>
  PROVE  /\ Gains(n)' = Append(Gains(n), x)
         /\ FlattenSeq(Gains(n)') = FlattenSeq(Gains(n)) \o x
         /\ FlattenSeq(Gains(n)) \in Seq(Item(bindings[n].holds))
<1> DEFINE I == Item(bindings[n].holds)
<1>1. Gains(n) \in Seq(Seq(I)) /\ Len(Gains(n)) = at - 1
  BY GainsAre
<1>2. at \in Nat \ {0} /\ at' - 1 = k
  BY DEF OpsAre
<1>3. /\ Gains(n)' = [i \in 1..k |-> IF i \in Since(n)' THEN ItemsOf(Come(n, i)) ELSE <<>>]
  BY <1>2 DEF Gains
<1>4. \A i \in 1..(at - 1) : Gains(n)[i] = IF i \in Since(n) THEN ItemsOf(Come(n, i)) ELSE <<>>
  BY DEF Gains
<1>5. PICK g \in Seq(Seq(I)) : g = Gains(n) /\ Len(g) = k - 1 
  BY <1>1
<1>6. PICK h : h = Gains(n)'
  OBVIOUS
<1>7. /\ h = [i \in 1..k |-> h[i]] /\ h[k] = x /\ k \in Nat
      /\ \A i \in 1..(k - 1) : h[i] = g[i]
  BY <1>2, <1>3, <1>4, <1>5, <1>6
<1>8. h = Append(g, x)
  <2>1. /\ Append(g, x) = [i \in 1..k |-> Append(g, x)[i]]
        /\ Append(g, x)[k] = x /\ \A i \in 1..(k - 1) : Append(g, x)[i] = g[i]
    BY <1>2, <1>5
  <2>2. \A i \in 1..k : h[i] = Append(g, x)[i]
    <3>1. \A i \in 1..k : i = k \/ i \in 1..(k - 1)
      BY <1>7
    <3> QED
      BY <1>7, <2>1, <3>1
  <2>3. [i \in 1..k |-> h[i]] = [i \in 1..k |-> Append(g, x)[i]]
    BY <2>2
  <2> HIDE DEF I
  <2> QED
    BY <1>7, <2>1, <2>3, Zenon
<1>9. FlattenSeq(Append(g, x)) = FlattenSeq(g) \o x /\ FlattenSeq(g) \in Seq(I)
  BY <1>5, FlattenAppend, FlattenType
<1> QED
  BY <1>5, <1>6, <1>8, <1>9

\* An operation on another flag, or one that fails, leaves a flag what it is.
LEMMA NotTaken ==
  ASSUME OpsAre, at <= Len(ops), at' = at + 1, UNCHANGED <<ops, bindings>>,
         DOMAIN flags' = DOMAIN flags, NEW n \in 1..Len(bindings), flags'[n] = flags[n],
         ~Fits(n, at), ValueIs(n), SetIs(n), Since(n) # {} => IsSlice(bindings[n])
  PROVE  ValueIs(n)' /\ SetIs(n)' /\ (Since(n) # {} => IsSlice(bindings[n]))'
<1>1. PICK k : k = at
  OBVIOUS
<1>2. /\ TakenBy(n)' = TakenBy(n)
      /\ \A i \in TakenBy(n) : i \in Nat /\ i < k /\ (Overwrites(n, i)' <=> Overwrites(n, i))
      /\ \A i : Come(n, i)' = Come(n, i)
  BY <1>1, TakenNext
<1>3. Latest(n)' = Latest(n)
  BY <1>2 DEF Latest
<1>4. Since(n)' = Since(n)
  BY <1>2, <1>3 DEF Since
<1>5. Base(n)' = Base(n)
  <2>1. (CHOOSE l \in Latest(n) : TRUE)' = CHOOSE l \in Latest(n) : TRUE
    BY <1>3
  <2>2. Come(n, CHOOSE l \in Latest(n) : TRUE)' = Come(n, CHOOSE l \in Latest(n) : TRUE)
    BY <1>2, <2>1 DEF Come
  <2> QED
    BY <1>3, <2>2 DEF Base
<1>6. SetIs(n)'
  BY <1>2 DEF SetIs
<1>7. CASE Since(n) = {}
  BY <1>4, <1>5, <1>6, <1>7 DEF ValueIs
<1>8. CASE Since(n) # {}
  <2>1. k \notin Since(n)
    BY <1>2 DEF Since
  <2>2. <<>> \in Seq(Item(bindings[n].holds))
    OBVIOUS
  <2>3. FlattenSeq(Gains(n)') = FlattenSeq(Gains(n)) \o <<>>
        /\ FlattenSeq(Gains(n)) \in Seq(Item(bindings[n].holds))
    BY <1>1, <1>2, <1>4, <1>8, <2>1, <2>2, GainsNext
  <2>4. FlattenSeq(Gains(n)') = FlattenSeq(Gains(n))
    BY <2>3
  <2> QED
    BY <1>4, <1>5, <1>6, <1>8, <2>4 DEF ValueIs
<1> QED
  BY <1>7, <1>8

\* One that is taken overwrites the value, and then nothing before it counts; or
\* it adds to the value, and to what has been added since it was overwritten.
LEMMA Taken ==
  ASSUME OpsAre, at <= Len(ops), at' = at + 1, UNCHANGED <<ops, bindings>>,
         DOMAIN flags' = DOMAIN flags, NEW n \in 1..Len(bindings), NEW k, k = at, Fits(n, k),
         ValueIs(n), SetIs(n), Since(n) # {} => IsSlice(bindings[n]), flags[n].set \in BOOLEAN,
         flags'[n].value = IF Adds(ops[k])
                           THEN Slice(ItemsOf(flags[n].value) \o ItemsOf(Come(n, k)))
                           ELSE Come(n, k),
         flags'[n].set = Marked(ops[k], flags[n].set)
  PROVE  ValueIs(n)' /\ SetIs(n)' /\ (Since(n) # {} => IsSlice(bindings[n]))'
<1> DEFINE b == bindings[n]
           op == ops[k]
           x == ItemsOf(Come(n, k))
<1>1. /\ TakenBy(n)' = TakenBy(n) \cup {k}
      /\ \A i \in TakenBy(n) : i \in Nat /\ i < k /\ (Overwrites(n, i)' <=> Overwrites(n, i))
      /\ \A i : Come(n, i)' = Come(n, i)
  BY TakenNext
<1>2. k \in Nat /\ k \in 1..Len(ops)
  BY DEF OpsAre
<1>3. op \in Op /\ b \in GoodBinding /\ Supported(b.holds) /\ Holds(b.holds, Come(n, k))
  BY <1>2, ComeIs
<1>4. op.kind \in {"set", "append", "replace"} /\ op.n = n /\ (op.kind # "set" => IsSlice(b))
  BY <1>3, OpIs DEF Fits, CanTake
<1>5. Overwrites(n, k)' <=> ~Adds(op)
  <2>1. Overwrites(n, k)' <=>
           \/ op.kind = "replace"
           \/ /\ op.kind = "set"
              /\ ~IsSlice(b) \/ \A j \in TakenBy(n) : ops[j].kind # "set"
    BY TakenNext
  <2>2. flags[n].set <=> \E j \in TakenBy(n) : ops[j].kind = "set"
    BY DEF SetIs
  <2>3. Adds(op) <=> op.kind = "append" \/ (op.kind = "set" /\ flags[n].set /\ IsSlice(b))
    BY <1>4 DEF Adds
  <2> QED
    BY <1>4, <2>1, <2>2, <2>3
<1>6. SetIs(n)'
  <2>1. flags'[n].set <=> flags[n].set \/ op.kind = "set"
    BY DEF Marked
  <2> QED
    BY <1>1, <2>1 DEF SetIs
<1>7. CASE Overwrites(n, k)'
  <2>1. Latest(n)' = {k}
    <3>1. Latest(n)' = {i \in TakenBy(n) \cup {k} :
            Overwrites(n, i)' /\ \A j \in TakenBy(n) \cup {k} : j > i => ~Overwrites(n, j)'}
      BY <1>1 DEF Latest
    <3>2. \A i \in TakenBy(n) : k > i /\ ~(i > k) /\ ~(k > k)
      BY <1>1, <1>2
    <3>3. ~(k > k)
      BY <1>2
    <3> QED
      BY <1>7, <3>1, <3>2, <3>3
  <2>2. Since(n)' = {}
    <3>1. Since(n)' = {i \in TakenBy(n) \cup {k} : i > k}
      BY <1>1, <2>1 DEF Since
    <3> QED
      BY <1>1, <1>2, <3>1
  <2>3. Base(n)' = Come(n, k)
    <3>1. (CHOOSE l \in Latest(n) : TRUE)' = k
      BY <2>1
    <3>2. Come(n, CHOOSE l \in Latest(n) : TRUE)' = Come(n, k)
      BY <1>1, <3>1 DEF Come
    <3> QED
      BY <2>1, <3>2 DEF Base
  <2> QED
    BY <1>5, <1>6, <1>7, <2>2, <2>3 DEF ValueIs
<1>8. CASE ~Overwrites(n, k)'
  <2>1. Adds(op) /\ IsSlice(b)
    BY <1>4, <1>5, <1>8 DEF Adds
  <2>2. Latest(n)' = Latest(n)
    <3>1. Latest(n)' = {i \in TakenBy(n) \cup {k} :
            Overwrites(n, i)' /\ \A j \in TakenBy(n) \cup {k} : j > i => ~Overwrites(n, j)'}
      BY <1>1 DEF Latest
    <3> QED
      BY <1>1, <1>8, <3>1 DEF Latest
  <2>3. Since(n)' = Since(n) \cup {k}
    <3>1. Since(n)' = {i \in TakenBy(n) \cup {k} : \A l \in Latest(n) : i > l}
      BY <1>1, <2>2 DEF Since
    <3>2. \A l \in Latest(n) : k > l
      BY <1>1, <1>2 DEF Latest
    <3> QED
      BY <3>1, <3>2 DEF Since
  <2>4. Base(n)' = Base(n)
    <3>1. (CHOOSE l \in Latest(n) : TRUE)' = CHOOSE l \in Latest(n) : TRUE
      BY <2>2
    <3>2. Come(n, CHOOSE l \in Latest(n) : TRUE)' = Come(n, CHOOSE l \in Latest(n) : TRUE)
      BY <1>1, <3>1 DEF Come
    <3> QED
      BY <2>2, <3>2 DEF Base
  <2>5. /\ Gains(n) \in Seq(Seq(Item(b.holds))) /\ Len(Gains(n)) = at - 1
        /\ ItemsOf(Base(n)) \in Seq(Item(b.holds)) /\ Base(n) = Slice(ItemsOf(Base(n)))
    BY <2>1, GainsAre
  <2>6. x \in Seq(Item(b.holds))
    BY <1>3, <2>1, SliceIs, HoldsIs DEF ItemsOf
  <2>7. \A i \in 1..(at - 1) : i # k
    BY <1>2
  <2>8. /\ FlattenSeq(Gains(n)') = FlattenSeq(Gains(n)) \o x
        /\ FlattenSeq(Gains(n)) \in Seq(Item(b.holds))
    BY <1>1, <2>1, <2>3, <2>6, <2>7, GainsNext
  <2>9. ItemsOf(flags[n].value) = ItemsOf(Base(n)) \o FlattenSeq(Gains(n))
    <3>1. CASE Since(n) = {}
      <4>1. \A i \in 1..Len(Gains(n)) : Gains(n)[i] = <<>>
        BY <2>5, <3>1 DEF Gains
      <4>2. FlattenSeq(Gains(n)) = <<>>
        BY <2>5, <4>1, FlattenEmpty
      <4> QED
        BY <2>5, <3>1, <4>2, ConcatEmptySeq DEF ValueIs
    <3>2. CASE Since(n) # {}
      BY <1>3, <3>2, SliceIs DEF ValueIs
    <3> QED
      BY <3>1, <3>2
  <2>10. ItemsOf(flags[n].value) \o x = ItemsOf(Base(n)) \o FlattenSeq(Gains(n)')
    <3>1. PICK p \in Seq(Item(b.holds)), q \in Seq(Item(b.holds)) :
            p = ItemsOf(Base(n)) /\ q = FlattenSeq(Gains(n))
      BY <2>5, <2>8
    <3>2. PICK y \in Seq(Item(b.holds)) : y = x
      BY <2>6
    <3> HIDE DEF x
    <3>3. (p \o q) \o y = p \o (q \o y)
      <4>1. p \in Seq(Item(b.holds)) /\ q \in Seq(Item(b.holds)) /\ y \in Seq(Item(b.holds))
        BY <3>1, <3>2
      <4>2. Regroups(p, q, y)
        BY <4>1, ConcatRegroups, Zenon
      <4> QED
        BY <4>2, Zenon DEF Regroups
    <3> QED
      BY <2>8, <2>9, <3>1, <3>2, <3>3
  <2>11. flags'[n].value = Slice(ItemsOf(Base(n)') \o FlattenSeq(Gains(n)'))
    BY <2>1, <2>4, <2>10
  <2>12. Since(n)' # {} /\ IsSlice(bindings'[n])
    BY <2>1, <2>3
  <2> QED
    BY <1>6, <2>11, <2>12 DEF ValueIs
<1> QED
  BY <1>7, <1>8
-----------------------------------------------------------------------------
(* The flags.                                                                *)
\* Names are not empty, as they are given and normalized.
LEMMA NamesAre ==
  /\ \A b \in Binding : NameOf(b) \in Seq(Pieces)
  /\ \A name \in Names : Normal(name) \in Names
<1>1. ASSUME NEW b \in Binding PROVE NameOf(b) \in Seq(Pieces)
  <2>1. b.path \in Seq(Segments) /\ b.flag \in Names \cup {NoName}
    BY DEF Binding, Path
  <2>2. b.flag \in Seq(Pieces)
    <3>1. <<>> \in Seq(Pieces)
      OBVIOUS
    <3>2. Names \cup {NoName} \subseteq Seq(Pieces)
      BY <3>1 DEF Names, NoName
    <3> QED
      BY <2>1, <3>2
  <2>3. PICK s : s = [i \in 1..Len(b.path) |-> Written[b.path[i]]]
    OBVIOUS
  <2>4. \A i \in 1..Len(b.path) : b.path[i] \in Segments /\ Written[b.path[i]] \in Seq(Pieces)
    BY <2>1, NameAssumption
  <2>5. Len(b.path) \in Nat
    BY <2>1
  <2>6. s \in Seq(Seq(Pieces))
    BY <2>3, <2>4, <2>5
  <2>7. FlattenSeq(s) \in Seq(Pieces)
    BY <2>6, FlattenType
  <2> QED
    BY <2>2, <2>3, <2>7 DEF NameOf
<1>2. ASSUME NEW name \in Names PROVE Normal(name) \in Names
  <2>1. name \in Seq(Pieces) /\ Len(name) \in Nat \ {0}
    BY DEF Names, NoName
  <2>2. PICK n \in Nat \ {0} : n = Len(name)
    BY <2>1
  <2>3. PICK s : s = [i \in 1..n |-> Normalized[name[i]]]
    OBVIOUS
  <2>4. \A i \in 1..n : s[i] \in Names
    BY <2>1, <2>2, <2>3, NameAssumption
  <2>5. s \in Seq(Names) /\ Len(s) = n
    BY <2>2, <2>3, <2>4
  <2>6. \A a, c \in Names : a \o c \in Names
    BY ConcatProperties DEF Names, NoName
  <2>7. FlattenSeq(s) \in Names
    BY <2>2, <2>4, <2>5, <2>6, FlattenWithin
  <2> QED
    BY <2>2, <2>3, <2>7 DEF Normal
<1> QED
  BY <1>1, <1>2

\* A flag holds a value of its type, and the one that the operations come to.
UsesInv ==
  /\ ops \in Seq(Op) /\ at \in Nat \ {0} /\ (phase = "parse" => at <= Len(ops) + 1)
  /\ before \subseteq Names /\ defined \subseteq Names
  /\ \A n \in DOMAIN flags :
       flags[n] \in FlagState /\ Holds(bindings[n].holds, flags[n].value)
  /\ phase = "bind" =>
       \A n \in DOMAIN flags : flags[n].value = bindings[n].default /\ flags[n].set = FALSE
  /\ phase = "parse" => \A n \in DOMAIN flags :
       ValueIs(n) /\ SetIs(n) /\ (Since(n) # {} => IsSlice(bindings[n]))

LEMMA FlagsAre ==
  ASSUME ValuesInv, FlagsInv
  PROVE  /\ Len(bindings) \in Nat
         /\ \A n \in 1..Len(bindings) :
              bindings[n] \in GoodBinding /\ bindings[n] \in Binding /\ bindings[n].load \in Path
         /\ DOMAIN flags \subseteq 1..Len(bindings) /\ DOMAIN names \subseteq 1..Len(bindings)
         /\ \A n \in DOMAIN names : names[n] \in Names
<1>1. Len(bindings) \in Nat /\ \A n \in 1..Len(bindings) : bindings[n] \in GoodBinding
  BY DEF ValuesInv
<1>2. \A b \in GoodBinding : b \in Binding /\ b.load \in Path
  BY DEF GoodBinding, Binding
<1>3. \A n : NamedTo(n) \subseteq 1..Len(bindings) /\ Wanting \subseteq 1..Len(bindings)
  BY DEF NamedTo, Wanting
<1>4. DOMAIN flags \subseteq 1..Len(bindings) /\ DOMAIN names \subseteq 1..Len(bindings)
  BY <1>3 DEF FlagsInv, BoundTo
<1>5. \A n \in DOMAIN names : names[n] \in Names
  <2>1. \A n \in DOMAIN names : names[n] = NameOf(bindings[n]) /\ names[n] # NoName
    BY DEF FlagsInv, GoodNames
  <2>2. \A n \in DOMAIN names : names[n] \in Seq(Pieces)
    BY <1>1, <1>2, <1>4, <2>1, NamesAre
  <2> QED
    BY <2>1, <2>2 DEF Names
<1> QED
  BY <1>1, <1>2, <1>4, <1>5

\* Before the first operation a flag has its default.
LEMMA ValuesAtFirst ==
  ASSUME NEW n, at' = 1, flags'[n].value = bindings'[n].default, flags'[n].set = FALSE
  PROVE  ValueIs(n)' /\ SetIs(n)' /\ Since(n)' = {}
<1>1. TakenBy(n)' = {}
  <2>1. \A i : i \notin 1..(at' - 1)
    OBVIOUS
  <2> QED
    BY <2>1 DEF TakenBy
<1>2. Latest(n)' = {} /\ Since(n)' = {}
  BY <1>1 DEF Latest, Since
<1>3. Base(n)' = bindings'[n].default
  BY <1>2 DEF Base
<1> QED
  BY <1>1, <1>2, <1>3 DEF ValueIs, SetIs

LEMMA UseNext ==
  ASSUME ValuesInv, FlagsInv, UsesInv, UseFlag
  PROVE  UsesInv'
<1>1. PICK k : k = at
  OBVIOUS
<1>2. /\ phase = "parse" /\ at <= Len(ops) /\ Takes(ops[k]) /\ at' = at + 1
      /\ UNCHANGED <<bindings, phase, before, defined, ops>>
  BY <1>1 DEF UseFlag, schemaVars
<1>3. PICK op : op = ops[k]
  OBVIOUS
<1>4. PICK m : m = op.n
  OBVIOUS
<1>5. PICK v \in Parsed(op, bindings[m]) :
        flags' = [flags EXCEPT
          ![m].value = IF Adds(op) THEN Slice(ItemsOf(@) \o ItemsOf(v)) ELSE v,
          ![m].set = Marked(op, @)]
  BY <1>1, <1>3, <1>4 DEF UseFlag
<1>6. OpsAre /\ k \in 1..Len(ops)
  BY <1>1, <1>2 DEF OpsAre, UsesInv, ValuesInv
<1>7. op \in Op
  BY <1>3, <1>6, ElementOfSeq DEF OpsAre
<1>8. m \in DOMAIN flags /\ m \in 1..Len(bindings) /\ CanTake(op)
  BY <1>2, <1>3, <1>4, FlagsAre DEF Takes, CanTake
<1>9. PICK b \in GoodBinding : b = bindings[m]
  BY <1>8, FlagsAre
<1>10. Supported(b.holds) /\ (op.kind = "set" \/ IsSlice(b))
  BY <1>4, <1>8, <1>9 DEF GoodBinding, CanTake
<1>11. Fits(m, k)
  <2>1. Parsed(op, b) = ByItself(op, b)
    BY <1>7, <1>10, ParsedIs
  <2> QED
    BY <1>3, <1>4, <1>5, <1>8, <1>9, <2>1 DEF Fits
<1>12. v = Come(m, k) /\ Holds(b.holds, v)
  BY <1>3, <1>5, <1>6, <1>8, <1>9, <1>11, ComeIs
<1>13. PICK old \in FlagState : old = flags[m] /\ Holds(b.holds, old.value)
  BY <1>8, <1>9 DEF UsesInv
<1>14. PICK new : new = IF Adds(op) THEN Slice(ItemsOf(old.value) \o ItemsOf(v)) ELSE v
  OBVIOUS
<1>15. Holds(b.holds, new) /\ new \in Value
  <2>1. Adds(op) => IsSlice(b)
    BY <1>4, <1>9, <1>10 DEF Adds
  <2>2. CASE Adds(op)
    <3>1. b.holds.depth = 1
      BY <1>10, <2>1, <2>2, SliceIs
    <3>2. PICK I : I = Item(b.holds)
      OBVIOUS
    <3>3. ItemsOf(old.value) \in Seq(I) /\ ItemsOf(v) \in Seq(I)
      BY <1>10, <1>12, <1>13, <3>1, <3>2, HoldsIs DEF ItemsOf
    <3>4. ItemsOf(old.value) \o ItemsOf(v) \in Seq(I)
      BY <3>3, ConcatProperties
    <3> QED
      BY <1>10, <1>14, <2>2, <3>1, <3>2, <3>4, HoldsIs
  <2>3. CASE ~Adds(op)
    BY <1>10, <1>12, <1>14, <2>3, HoldsIs
  <2> QED
    BY <2>2, <2>3
<1>16. PICK set : set = Marked(op, old.set)
  OBVIOUS
<1>17. set \in BOOLEAN /\ old.set \in BOOLEAN /\ old.path \in Path
  BY <1>13, <1>16, Zenon DEF Marked, FlagState
<1>18. /\ DOMAIN flags' = DOMAIN flags
       /\ flags'[m] = [old EXCEPT !.value = new, !.set = set]
       /\ \A n \in DOMAIN flags : n # m => flags'[n] = flags[n]
  BY <1>5, <1>8, <1>13, <1>14, <1>16
<1>19. flags'[m] \in FlagState /\ flags'[m].value = new /\ flags'[m].set = set
  BY <1>13, <1>15, <1>17, <1>18 DEF FlagState
<1>20. ASSUME NEW n \in DOMAIN flags
       PROVE  /\ flags'[n] \in FlagState /\ Holds(bindings[n].holds, flags'[n].value)
              /\ ValueIs(n)' /\ SetIs(n)' /\ (Since(n) # {} => IsSlice(bindings[n]))'
  <2>1. n \in 1..Len(bindings)
    BY FlagsAre
  <2>2. ValueIs(n) /\ SetIs(n) /\ (Since(n) # {} => IsSlice(bindings[n]))
    BY <1>2 DEF UsesInv
  <2>3. CASE n = m
    <3>1. /\ flags'[n].value = IF Adds(ops[k])
                               THEN Slice(ItemsOf(flags[n].value) \o ItemsOf(Come(n, k)))
                               ELSE Come(n, k)
          /\ flags'[n].set = Marked(ops[k], flags[n].set)
      BY <1>3, <1>12, <1>13, <1>14, <1>16, <1>19, <2>3
    <3>2. flags[n].set \in BOOLEAN
      BY <1>13, <1>17, <2>3
    <3>3. ValueIs(n)' /\ SetIs(n)' /\ (Since(n) # {} => IsSlice(bindings[n]))'
      BY <1>1, <1>2, <1>6, <1>11, <1>18, <2>1, <2>2, <2>3, <3>1, <3>2, Taken
    <3> QED
      BY <1>9, <1>15, <1>19, <2>3, <3>3
  <2>4. CASE n # m
    <3>1. ~Fits(n, at)
      BY <1>1, <1>3, <1>4, <2>4 DEF Fits
    <3>2. ValueIs(n)' /\ SetIs(n)' /\ (Since(n) # {} => IsSlice(bindings[n]))'
      BY <1>2, <1>6, <1>18, <2>1, <2>2, <2>4, <3>1, NotTaken
    <3> QED
      BY <1>18, <2>4, <3>2 DEF UsesInv
  <2> QED
    BY <2>3, <2>4
<1>21. at' \in Nat \ {0} /\ at' <= Len(ops') + 1
  BY <1>2, <1>6 DEF OpsAre
<1> QED
  BY <1>2, <1>18, <1>20, <1>21 DEF UsesInv

LEMMA FailNext ==
  ASSUME ValuesInv, FlagsInv, UsesInv, FailToUse
  PROVE  UsesInv'
<1>1. PICK k : k = at
  OBVIOUS
<1>2. /\ phase = "parse" /\ at <= Len(ops) /\ ~Takes(ops[k]) /\ at' = at + 1
      /\ UNCHANGED <<bindings, phase, before, defined, ops, flags>>
  BY <1>1 DEF FailToUse, schemaVars
<1>3. OpsAre /\ k \in 1..Len(ops)
  BY <1>1, <1>2 DEF OpsAre, UsesInv, ValuesInv
<1>4. ASSUME NEW n \in DOMAIN flags
      PROVE  ValueIs(n)' /\ SetIs(n)' /\ (Since(n) # {} => IsSlice(bindings[n]))'
  <2>1. n \in 1..Len(bindings) /\ bindings[n] \in GoodBinding
    BY FlagsAre
  <2>2. ValueIs(n) /\ SetIs(n) /\ (Since(n) # {} => IsSlice(bindings[n]))
    BY <1>2 DEF UsesInv
  <2>3. ~Fits(n, k)
    <3> SUFFICES ASSUME Fits(n, k) PROVE FALSE
      OBVIOUS
    <3>1. ops[k] \in Op /\ Supported(bindings[n].holds)
      BY <1>3, <2>1, ComeIs
    <3>2. ops[k].n = n /\ CanTake(ops[k]) /\ ByItself(ops[k], bindings[n]) # {}
      BY DEF Fits
    <3>3. ops[k].kind = "set" \/ IsSlice(bindings[n])
      BY <3>2 DEF CanTake
    <3>4. Parsed(ops[k], bindings[n]) = ByItself(ops[k], bindings[n])
      BY <3>1, <3>3, ParsedIs
    <3> QED
      BY <1>2, <3>2, <3>4 DEF Takes
  <2> QED
    BY <1>1, <1>2, <1>3, <2>1, <2>2, <2>3, NotTaken
<1>5. at' \in Nat \ {0} /\ at' <= Len(ops') + 1
  BY <1>2, <1>3 DEF OpsAre
<1> QED
  BY <1>2, <1>4, <1>5 DEF UsesInv

LEMMA UsesNext ==
  PathsInv /\ ValuesInv /\ FlagsInv /\ FlagsInv' /\ UsesInv /\ [FlagsNext]_vars => UsesInv'
<1> SUFFICES ASSUME PathsInv, ValuesInv, FlagsInv, FlagsInv', UsesInv, [FlagsNext]_vars
             PROVE  UsesInv'
  OBVIOUS
<1>1. CASE UNCHANGED vars
  <2>1. UNCHANGED <<bindings, phase, at, before, defined, flags, ops>>
    BY <1>1 DEF vars, schemaVars, flagVars
  <2>2. ASSUME NEW n PROVE ValueIs(n)' = ValueIs(n) /\ SetIs(n)' = SetIs(n) /\ Since(n)' = Since(n)
    <3>1. TakenBy(n)' = TakenBy(n)
      BY <2>1 DEF TakenBy, CanTake
    <3>2. \A i : Overwrites(n, i)' = Overwrites(n, i) /\ Come(n, i)' = Come(n, i)
      BY <2>1, <3>1 DEF Overwrites, FirstSet, Come
    <3>3. Latest(n)' = Latest(n)
      BY <3>1, <3>2 DEF Latest
    <3>4. Since(n)' = Since(n)
      BY <3>1, <3>3 DEF Since
    <3>5. Base(n)' = Base(n)
      BY <2>1, <3>3 DEF Base, Come
    <3>6. Gains(n)' = Gains(n)
      BY <2>1, <3>2, <3>4 DEF Gains
    <3> QED
      BY <2>1, <3>1, <3>4, <3>5, <3>6 DEF ValueIs, SetIs
  <2> QED
    BY <2>1, <2>2 DEF UsesInv
<1>2. CASE phase \in {"idle", "preflight"} /\ phase' \notin {"parse"} /\ at' \in Nat \ {0}
           /\ UNCHANGED <<before, defined, flags, ops>>
  <2>1. flags = <<>> /\ DOMAIN flags' = {}
    BY <1>2 DEF FlagsInv
  <2> QED
    BY <1>2, <2>1 DEF UsesInv
<1>3. CASE SchemaStep
  <2>1. pc \notin Results /\ UNCHANGED flagVars
    BY <1>3 DEF SchemaStep, Next, SkipField, BadMetadata, EnterStruct, Recursion,
                LeaveStruct, AddLeaf, RejectLeaf, CheckOverrides, AtField, Results
  <2>2. phase = "idle"
    BY <2>1 DEF FlagsInv
  <2> QED
    BY <1>2, <2>1, <2>2 DEF flagVars, UsesInv
<1>4. CASE BindFlags \/ RefuseCall
  BY <1>2, <1>4 DEF BindFlags, RefuseCall, UsesInv
<1>5. CASE SkipBinding
  <2>1. /\ phase \in {"preflight", "bind"} /\ at' = at + 1
        /\ UNCHANGED <<bindings, phase, before, defined, flags, ops>>
    BY <1>5 DEF SkipBinding, schemaVars
  <2> QED
    BY <2>1 DEF UsesInv
<1>6. CASE PreflightName
  <2>1. phase = "preflight" /\ phase' = phase /\ at' = at + 1
        /\ UNCHANGED <<before, defined, flags, ops>>
    BY <1>6 DEF PreflightName, AtFlagOf
  <2> QED
    BY <1>2, <2>1 DEF UsesInv
<1>7. CASE Refuse
  BY <1>2, <1>7 DEF Refuse, AtFlagOf, UsesInv
<1>8. CASE LoopEnds
  <2>1. /\ phase \in {"preflight", "bind"} /\ at' = 1
        /\ phase' = (IF phase = "preflight" THEN "bind" ELSE "parse")
        /\ UNCHANGED <<bindings, before, defined, flags, ops>>
    BY <1>8 DEF LoopEnds, schemaVars
  <2>2. CASE phase = "preflight"
    BY <1>2, <2>1, <2>2
  <2>3. CASE phase = "bind"
    <3>1. ASSUME NEW n \in DOMAIN flags'
          PROVE  ValueIs(n)' /\ SetIs(n)' /\ Since(n)' = {}
      <4>1. flags'[n].value = bindings'[n].default /\ flags'[n].set = FALSE
        BY <2>1, <2>3, <3>1 DEF UsesInv
      <4> QED
        BY <2>1, <4>1, ValuesAtFirst
    <3>2. Len(ops) \in Nat
      BY DEF UsesInv
    <3> QED
      BY <2>1, <2>3, <3>1, <3>2 DEF UsesInv
  <2> QED
    BY <2>1, <2>2, <2>3
<1>9. CASE Register
  <2>1. /\ phase = "bind" /\ at \in 1..Len(bindings) /\ at' = at + 1 /\ bindings[at].cli
        /\ phase' # "parse"
        /\ defined' = defined \cup {Normal(names[at])}
        /\ flags' = [n \in DOMAIN flags \cup {at} |->
                       IF n = at THEN FlagOf(bindings[at]) ELSE flags[n]]
        /\ UNCHANGED <<bindings, before, ops>>
    BY <1>9, FlagsAre DEF Register, AtFlagOf, B, UsesInv, schemaVars
  <2>2. at \in DOMAIN names
    BY <2>1 DEF FlagsInv, Wanting
  <2>3. Normal(names[at]) \in Names
    BY <2>2, FlagsAre, NamesAre
  <2>4. PICK b \in GoodBinding : b = bindings[at]
    BY <2>1, FlagsAre
  <2>5. b.default \in Value /\ b.load \in Path /\ Holds(b.holds, b.default)
    BY DEF GoodBinding, Binding
  <2>6. PICK f : f = FlagOf(b)
    OBVIOUS
  <2>7. f \in FlagState /\ f.value = b.default /\ f.set = FALSE
    BY <2>5, <2>6 DEF FlagOf, NewFlag, FlagState
  <2>8. ASSUME NEW n \in DOMAIN flags'
        PROVE  /\ flags'[n] \in FlagState /\ Holds(bindings[n].holds, flags'[n].value)
               /\ flags'[n].value = bindings[n].default /\ flags'[n].set = FALSE
    <3>1. CASE n = at
      <4>1. flags'[n] = f
        BY <2>1, <2>4, <2>6, <3>1
      <4> QED
        BY <2>4, <2>5, <2>7, <3>1, <4>1
    <3>2. CASE n # at
      <4>1. n \in DOMAIN flags /\ flags'[n] = flags[n]
        BY <2>1, <3>2
      <4> QED
        BY <2>1, <4>1 DEF UsesInv
    <3> QED
      BY <3>1, <3>2
  <2>9. at' \in Nat \ {0}
    BY <2>1, FlagsAre
  <2> QED
    BY <2>1, <2>3, <2>8, <2>9 DEF UsesInv
<1>10. CASE UseFlag
  BY <1>10, UseNext
<1>11. CASE FailToUse
  BY <1>11, FailNext
<1> QED
  BY <1>1, <1>3, <1>4, <1>5, <1>6, <1>7, <1>8, <1>9, <1>10, <1>11 DEF FlagsNext

LEMMA ValuesInvariant ==
  FlagsSpec => [](PathsInv /\ StackInv /\ FlagsInv /\ ValuesInv /\ UsesInv)
<1> DEFINE Inv == PathsInv /\ StackInv /\ FlagsInv /\ ValuesInv /\ UsesInv
<1>1. FlagsInit => ValuesInv /\ UsesInv
  <2> SUFFICES ASSUME FlagsInit PROVE ValuesInv /\ UsesInv
    OBVIOUS
  <2>1. PICK c \in Cases : InitWith(c.schema) /\ defined = c.defined /\ ops = c.ops
    BY DEF FlagsInit
  <2>2. c.schema \in Inputs /\ c.defined \subseteq Names /\ c.ops \in Seq(Op)
    BY CaseAssumption
  <2>3. phase = "idle" /\ at = 1 /\ before = defined /\ DOMAIN flags = {}
    BY DEF FlagsInit
  <2>4. UsesInv
    BY <2>1, <2>2, <2>3 DEF UsesInv
  <2> QED
    BY <2>1, <2>2, <2>4, ValuesInit
<1>2. StackInv /\ ValuesInv /\ [FlagsNext]_vars => ValuesInv'
  BY WalkStep, ValuesNext
<1>3. SchemaInv => StackInv
  BY DEF SchemaInv
<1> QED
  BY <1>1, <1>2, <1>3, UsesNext, FlagsInvariant, PTL DEF FlagsSpec

\* The state of SchemaOf, of BindFlags and of the flags is of its type: a
\* normalized name is never empty, a default that is shown is a text that lists
\* can be written in, and a flag has a value of the right shape and a path.
THEOREM FlagsTypeCorrect == FlagsSpec => []FlagsTypeOK
<1>1. StackInv /\ FlagsInv /\ ValuesInv /\ UsesInv => FlagsTypeOK
  <2> SUFFICES ASSUME StackInv, FlagsInv, ValuesInv, UsesInv PROVE FlagsTypeOK
    OBVIOUS
  <2>1. TypeOK
    BY SchemaTypeOK
  <2>2. DOMAIN flags \subseteq DOMAIN names
    BY DEF FlagsInv, BoundTo, NamedTo
  <2>3. phase \in {"idle", "preflight", "bind", "parse", "refused", "panic"} /\ call \in Calls
    BY DEF FlagsInv
  <2> QED
    BY <2>1, <2>2, <2>3, FlagsAre DEF FlagsTypeOK, UsesInv
<1> QED
  BY <1>1, ValuesInvariant, PTL

\* Whatever is done to the flags of a schema, in whatever order, each holds what
\* the last operation to overwrite it and those since have come to, every text
\* by itself: that Append and Replace put their texts into one line of CSV, and
\* that what fails comes in between, makes no difference.
THEOREM FlagValuesFollowOps == FlagsSpec => []ValueFollowsOps
<1>1. UsesInv => ValueFollowsOps
  BY FollowsIs DEF UsesInv
<1> QED
  BY <1>1, ValuesInvariant, PTL

\* What a slice without nil is written as, item by item, and as one line.
LEMMA ItemsBack ==
  ASSUME NEW b, Supported(b.holds), IsSlice(b), NEW v, Holds(b.holds, v), ~b.redacted
  PROVE  LET items == GetSlice(v, b) IN
         /\ items \in Seq(Text)
         /\ ReadBack(FormatCSV(items), v, b.holds)
         /\ String(v, b) = <<Open>> \o FormatCSV(items) \o <<Close>>
<1> DEFINE items == GetSlice(v, b)
<1>1. b.holds.depth = 1
  BY SliceIs
<1>2. PICK xs \in Seq(Item(b.holds)) : xs = ItemsOf(v)
  BY <1>1, HoldsIs DEF ItemsOf
<1>3. items = FormatItems(xs) /\ Format(v, b.holds) = FormatCSV(items)
  BY <1>1, <1>2 DEF GetSlice, Format
<1>4. items \in Seq(Text)
  <2>1. \A x \in Item(b.holds) : FormatItem(x) \in Text
    <3>1. <<>> \in Text
      BY DEF Text, TextOver
    <3> QED
      BY <3>1, ItemIs DEF FormatItem
  <2>2. DOMAIN xs = 1..Len(xs) /\ Len(xs) \in Nat /\ \A i \in DOMAIN xs : xs[i] \in Item(b.holds)
    OBVIOUS
  <2>3. FormatItems(xs) \in Seq(Text)
    BY <2>1, <2>2 DEF FormatItems
  <2> QED
    BY <1>3, <2>3
<1>5. ReadBack(Format(v, b.holds), v, b.holds)
  BY WrittenValue
<1>6. String(v, b) = <<Open>> \o Format(v, b.holds) \o <<Close>>
  BY DEF String
<1> HIDE DEF items
<1>7. ReadBack(FormatCSV(items), v, b.holds) /\ String(v, b) = <<Open>> \o FormatCSV(items) \o <<Close>>
  BY <1>3, <1>5, <1>6, Zenon
<1> QED
  BY <1>4, <1>7 DEF items

\* The brackets are stripped again.
LEMMA BracketsStripped ==
  ASSUME NEW E, NEW t \in Seq(E), NEW o, NEW c
  PROVE  LET s == <<o>> \o t \o <<c>> IN SubSeq(s, 2, Len(s) - 1) = t
<1> DEFINE s == <<o>> \o t \o <<c>>
           Wider == E \cup {o, c}
<1>1. t \in Seq(Wider) /\ <<o>> \in Seq(Wider) /\ <<c>> \in Seq(Wider) /\ Len(t) \in Nat
  BY SeqMonotonic
<1> HIDE DEF Wider
<1>2. PICK a \in Seq(Wider) : a = <<o>> \o t
  BY <1>1, ConcatProperties
<1>3. Len(a) = 1 + Len(t) /\ \A i \in 1..Len(t) : a[1 + i] = t[i]
  BY <1>1, <1>2
<1>4. s = a \o <<c>> /\ s \in Seq(Wider) /\ Len(s) = Len(t) + 2
      /\ \A i \in 1..Len(a) : s[i] = a[i]
  BY <1>1, <1>2, <1>3
<1>5. PICK z \in Seq(Wider) : z = s
  BY <1>4
<1>6. Len(z) = Len(t) + 2 /\ \A i \in 1..Len(t) : z[1 + i] = t[i]
  BY <1>3, <1>4, <1>5
<1> HIDE DEF s
<1> DEFINE u == SubSeq(z, 2, Len(t) + 1)
<1>7. \A j \in 2..(Len(t) + 1) : z[j] \in Wider
  BY <1>1, <1>6
<1>8. /\ u \in Seq(Wider)
      /\ Len(u) = (IF 2 <= Len(t) + 1 THEN Len(t) + 1 - 2 + 1 ELSE 0)
      /\ \A k \in 1..(Len(t) + 1 - 2 + 1) : u[k] = z[2 + k - 1]
  <2>1. PICK l, h \in Int : l = 2 /\ h = Len(t) + 1
    BY <1>1
  <2>2. \A j \in l..h : z[j] \in Wider
    BY <1>7, <2>1
  <2>3. /\ SubSeq(z, l, h) \in Seq(Wider)
        /\ Len(SubSeq(z, l, h)) = IF l <= h THEN h - l + 1 ELSE 0
        /\ \A k \in 1..(h - l + 1) : SubSeq(z, l, h)[k] = z[l + k - 1]
    BY ONLY l \in Int, h \in Int, <2>2, SubSeqProperties
  <2> QED
    BY <2>1, <2>3
<1> HIDE DEF u
<1>9. Len(u) = Len(t) /\ \A k \in 1..Len(t) : u[k] = t[k]
  <2>1. Len(u) = Len(t)
    BY <1>1, <1>8
  <2>2. \A k \in 1..Len(t) : k \in 1..(Len(t) + 1 - 2 + 1) /\ 2 + k - 1 = 1 + k
    BY <1>1
  <2> QED
    BY <1>6, <1>8, <2>1, <2>2
<1>10. u = t
  BY <1>1, <1>8, <1>9, SeqEqual
<1> QED
  BY <1>1, <1>5, <1>6, <1>10 DEF s, u

\* What a flag tells of what it holds can be read again, and so can the default
\* shown of a field, for every type a flag can have and for every value that
\* operations can make of it, but for nil and a single blank: of a slice by
\* GetStringSlice of pflag and by Replace, of a scalar by Set.  Of a redacted flag
\* nothing is told but how long a slice is.
THEOREM FlagsRoundTrip == FlagsSpec => []RoundTrips
<1>1. ValuesInv /\ FlagsInv /\ UsesInv => RoundTrips
  <2> SUFFICES ASSUME ValuesInv, FlagsInv, UsesInv, phase = "parse", NEW n \in DOMAIN flags
               PROVE  LET b     == bindings[n]
                          v     == flags[n].value
                          items == GetSlice(v, b)
                      IN
                      IF b.redacted
                      THEN String(v, b) = Redacted
                           /\ (IsSlice(b) => Range(items) \subseteq {Redacted})
                      ELSE /\ ReadBack(b.shown, b.default, b.holds)
                           /\ ~IsSlice(b) => ReadBack(String(v, b), v, b.holds)
                           /\ IsSlice(b)  => /\ ReadBack(FormatCSV(items), v, b.holds)
                                             /\ b.holds.base = "string" /\ items # <<<<>>>>
                                                  => GetStringSlice(String(v, b)) = {items}
    BY DEF RoundTrips
  <2>1. PICK b, v : b = bindings[n] /\ v = flags[n].value
    OBVIOUS
  <2>2. b \in GoodBinding /\ Holds(b.holds, v)
    BY <2>1, FlagsAre DEF UsesInv
  <2>3. /\ Supported(b.holds) /\ Holds(b.holds, b.default) /\ b.redacted \in BOOLEAN
        /\ ~b.redacted => b.shown = Format(b.default, b.holds)
    BY <2>2 DEF GoodBinding, Binding
  <2>4. PICK items : items = GetSlice(v, b)
    OBVIOUS
  <2>5. CASE b.redacted
    <3>1. String(v, b) = Redacted
      BY <2>5 DEF String
    <3>2. Range(items) \subseteq {Redacted}
      BY <2>4, <2>5 DEF GetSlice, Range
    <3> QED
      BY <2>1, <2>4, <2>5, <3>1, <3>2
  <2>6. CASE ~b.redacted
    <3>1. ReadBack(b.shown, b.default, b.holds)
      BY <2>3, <2>6, WrittenValue
    <3>2. ASSUME ~IsSlice(b) PROVE ReadBack(String(v, b), v, b.holds)
      <4>1. String(v, b) = Format(v, b.holds)
        BY <2>6, <3>2 DEF String
      <4>2. ReadBack(Format(v, b.holds), v, b.holds)
        BY <2>2, <2>3, WrittenValue
      <4> QED
        BY <4>1, <4>2, Zenon
    <3>3. ASSUME IsSlice(b)
          PROVE  /\ ReadBack(FormatCSV(items), v, b.holds)
                 /\ items # <<<<>>>> => GetStringSlice(String(v, b)) = {items}
      <4>1. /\ items \in Seq(Text) /\ ReadBack(FormatCSV(items), v, b.holds)
            /\ String(v, b) = <<Open>> \o FormatCSV(items) \o <<Close>>
        BY <2>2, <2>3, <2>4, <2>6, <3>3, ItemsBack
      <4>2. PICK E : FormatCSV(items) \in Seq(E)
        BY <4>1, TextsOver, FormatType DEF Tokens
      <4>3. PICK s : s = String(v, b)
        OBVIOUS
      <4>4. SubSeq(s, 2, Len(s) - 1) = FormatCSV(items)
        BY <4>1, <4>2, <4>3, BracketsStripped
      <4>5. GetStringSlice(s) = Fields(FormatCSV(items))
        BY <4>4 DEF GetStringSlice
      <4>6. items # <<<<>>>> => Fields(FormatCSV(items)) = {items}
        BY <4>1, TextNests, WrittenIsRead
      <4> QED
        BY <4>1, <4>3, <4>5, <4>6
    <3> QED
      BY <2>1, <2>4, <2>6, <3>1, <3>2, <3>3
  <2> QED
    BY <2>3, <2>5, <2>6
<1> QED
  BY <1>1, ValuesInvariant, PTL
==============================================================================
