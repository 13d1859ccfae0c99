----------------------------- MODULE DataLemmas ------------------------------
(* Least and greatest elements of sets of naturals, induction over the       *)
(* naturals with the property given as a set, and what FlattenSeq gives.     *)
EXTENDS Integers, FiniteSetsExt, SequencesExt, WellFoundedInduction, SequenceTheorems, TLAPS

\* A set of naturals that is not empty has a least element.
LEMMA LeastNat ==
  ASSUME NEW S \in SUBSET Nat, S # {}
  PROVE  \E x \in S : \A y \in S : x <= y
<1>1. PICK x \in S : \A y \in S : ~ (<<y, x>> \in OpToRel(<, Nat))
  BY NatLessThanWellFounded, WFMin, Zenon
<1>2. \A y \in S : ~ (y < x)
  BY <1>1 DEF OpToRel
<1> QED
  BY <1>2

\* A set of naturals that has zero, and with every number the next, has all.
LEMMA NatSetInduction ==
  ASSUME NEW S \in SUBSET Nat, 0 \in S, \A n \in Nat : n \in S => n + 1 \in S
  PROVE  S = Nat
<1> SUFFICES ASSUME Nat \ S # {} PROVE FALSE
  OBVIOUS
<1>1. PICK n \in Nat \ S : \A m \in Nat \ S : n <= m
  BY LeastNat
<1>2. n # 0 /\ n - 1 \in Nat /\ n - 1 \in S
  BY <1>1
<1> QED
  BY <1>1, <1>2

\* A set of naturals that is bounded and not empty has a greatest element, and
\* Max gives it.
LEMMA MaxNat ==
  ASSUME NEW S \in SUBSET Nat, S # {}, NEW n \in Nat, \A x \in S : x <= n
  PROVE  Max(S) \in S /\ \A x \in S : x <= Max(S)
<1> DEFINE Slack == {n - x : x \in S}
<1>1. PICK d \in Slack : \A e \in Slack : d <= e
  <2>1. \A x \in S : n - x \in Nat
    OBVIOUS
  <2>2. Slack \in SUBSET Nat
    BY <2>1
  <2>3. Slack # {}
    OBVIOUS
  <2> QED
    BY <2>2, <2>3, LeastNat
<1>2. PICK m \in S : d = n - m
  OBVIOUS
<1>3. \A x \in S : m >= x
  <2> SUFFICES ASSUME NEW x \in S PROVE m >= x
    OBVIOUS
  <2>1. n - m <= n - x
    BY <1>1, <1>2
  <2> QED
    BY <2>1
<1>4. Max(S) \in S /\ \A x \in S : Max(S) >= x
  BY <1>3 DEF Max
<1> QED
  BY <1>4
-----------------------------------------------------------------------------
(* What FlattenSeq gives.                                                    *)

\* f is the function that FlattenSeq defines: f[i] is the first i of s in one.
Joins(f, s, n) == f = [i \in 1..n |-> IF i = 1 THEN s[i] ELSE f[i - 1] \o s[i]]

LEMMA JoinsStep ==
  ASSUME NEW f, NEW s, NEW n \in Nat, Joins(f, s, n)
  PROVE  /\ n # 0 => f[1] = s[1]
         /\ \A i \in Nat : i + 1 \in 1..n /\ i # 0 =>
              i \in 1..n /\ f[i + 1] = f[i] \o s[i + 1]
<1>1. \A i \in 1..n : f[i] = IF i = 1 THEN s[i] ELSE f[i - 1] \o s[i]
  BY Zenon DEF Joins
<1>2. n # 0 => 1 \in 1..n
  OBVIOUS
<1>3. \A i \in Nat : i + 1 \in 1..n /\ i # 0 => i \in 1..n /\ i + 1 # 1 /\ (i + 1) - 1 = i
  OBVIOUS
<1> QED
  BY <1>1, <1>2, <1>3

LEMMA JoinsExists ==
  ASSUME NEW s, NEW n \in Nat
  PROVE  \E f : Joins(f, s, n)
<1> DEFINE S == {m \in Nat : \E f : Joins(f, s, m)}
<1>1. 0 \in S
  <2>1. Joins([i \in 1..0 |-> 0], s, 0)
    BY DEF Joins
  <2> QED
    BY <2>1
<1>2. ASSUME NEW m \in Nat, m \in S PROVE m + 1 \in S
  <2>1. PICK f : Joins(f, s, m)
    BY <1>2
  <2> DEFINE g == [i \in 1..(m + 1) |-> IF i = m + 1
                     THEN IF i = 1 THEN s[i] ELSE f[i - 1] \o s[i] ELSE f[i]]
  <2>2. \A i \in 1..(m + 1) : g[i] = IF i = 1 THEN s[i] ELSE g[i - 1] \o s[i]
    <3> SUFFICES ASSUME NEW i \in 1..(m + 1)
                 PROVE  g[i] = IF i = 1 THEN s[i] ELSE g[i - 1] \o s[i]
      OBVIOUS
    <3>1. CASE i = m + 1
      BY <3>1
    <3>2. CASE i # m + 1
      <4>1. i \in 1..m /\ (i # 1 => i - 1 \in 1..m)
        BY <3>2
      <4>2. f[i] = IF i = 1 THEN s[i] ELSE f[i - 1] \o s[i]
        BY <2>1, <4>1 DEF Joins
      <4> QED
        BY <3>2, <4>1, <4>2
    <3> QED
      BY <3>1, <3>2
  <2>3. Joins(g, s, m + 1)
    BY <2>2 DEF Joins
  <2> QED
    BY <2>3
<1>3. n \in S
  <2> HIDE DEF S
  <2>1. S \in SUBSET Nat
    BY DEF S
  <2> QED
    BY <1>1, <1>2, <2>1, NatSetInduction
<1> QED
  BY <1>3

LEMMA FlattenJoins ==
  ASSUME NEW s, Len(s) \in Nat \ {0}
  PROVE  \E f : Joins(f, s, Len(s)) /\ FlattenSeq(s) = f[Len(s)]
<1>1. PICK f : Joins(f, s, Len(s))
  BY JoinsExists
<1> QED
  BY <1>1 DEF FlattenSeq, Joins

\* Concatenations of the same sequences agree.
Follows(f, s, m) == \A i \in 1..m : f[i] = IF i = 1 THEN s[i] ELSE f[i - 1] \o s[i]

LEMMA JoinsAgree ==
  ASSUME NEW s, NEW m \in Nat, NEW f, NEW g, Follows(f, s, m), Follows(g, s, m)
  PROVE  \A i \in 1..m : f[i] = g[i]
<1> DEFINE S == {j \in Nat : j \in 1..m => f[j] = g[j]}
<1>1. 0 \in S
  OBVIOUS
<1>2. ASSUME NEW j \in Nat, j \in S PROVE j + 1 \in S
  <2> SUFFICES ASSUME j + 1 \in 1..m PROVE f[j + 1] = g[j + 1]
    OBVIOUS
  <2>1. CASE j = 0
    BY <2>1 DEF Follows
  <2>2. CASE j # 0
    <3>1. j \in 1..m /\ (j + 1) - 1 = j /\ j + 1 # 1
      BY <2>2
    <3>2. f[j + 1] = f[j] \o s[j + 1] /\ g[j + 1] = g[j] \o s[j + 1]
      BY <3>1 DEF Follows
    <3> QED
      BY <1>2, <3>1, <3>2
  <2> QED
    BY <2>1, <2>2
<1>3. \A j \in Nat : j \in S
  <2> HIDE DEF S
  <2>1. S \in SUBSET Nat
    BY DEF S
  <2> QED
    BY <1>1, <1>2, <2>1, NatSetInduction
<1> QED
  BY <1>3

\* What holds of the sequences and is kept by concatenation holds of the whole.
LEMMA JoinsWithin ==
  ASSUME NEW C, NEW s, NEW n \in Nat, NEW f, Joins(f, s, n),
         \A i \in 1..n : s[i] \in C, \A a, b \in C : a \o b \in C
  PROVE  \A i \in 1..n : f[i] \in C
<1>a. /\ n # 0 => f[1] = s[1]
      /\ \A i \in Nat : i + 1 \in 1..n /\ i # 0 => i \in 1..n /\ f[i + 1] = f[i] \o s[i + 1]
  BY JoinsStep, Zenon
<1> DEFINE S == {j \in Nat : j \in 1..n => f[j] \in C}
<1>1. 0 \in S
  OBVIOUS
<1>2. ASSUME NEW j \in Nat, j \in S PROVE j + 1 \in S
  <2> SUFFICES ASSUME j + 1 \in 1..n PROVE f[j + 1] \in C
    OBVIOUS
  <2>1. CASE j = 0
    BY <1>a, <2>1
  <2>2. CASE j # 0
    <3>1. j \in 1..n /\ f[j + 1] = f[j] \o s[j + 1]
      BY <1>a, <2>2
    <3> QED
      BY <1>2, <3>1
  <2> QED
    BY <2>1, <2>2
<1>3. \A j \in Nat : j \in S
  <2> HIDE DEF S
  <2>1. S \in SUBSET Nat
    BY DEF S
  <2> QED
    BY <1>1, <1>2, <2>1, NatSetInduction
<1> QED
  BY <1>3

LEMMA FlattenWithin ==
  ASSUME NEW C, NEW s, Len(s) \in Nat \ {0},
         \A i \in 1..Len(s) : s[i] \in C, \A a, b \in C : a \o b \in C
  PROVE  FlattenSeq(s) \in C
<1>1. PICK f : Joins(f, s, Len(s)) /\ FlattenSeq(s) = f[Len(s)]
  BY FlattenJoins
<1>2. Len(s) \in 1..Len(s)
  OBVIOUS
<1>3. \A i \in 1..Len(s) : f[i] \in C
  <2>1. Len(s) \in Nat
    OBVIOUS
  <2> QED
    BY <1>1, <2>1, JoinsWithin, Zenon
<1> QED
  BY <1>1, <1>2, <1>3

\* FlattenSeq gives a sequence of what the sequences hold.
LEMMA FlattenType ==
  ASSUME NEW E, NEW s \in Seq(Seq(E))
  PROVE  FlattenSeq(s) \in Seq(E)
<1>1. CASE Len(s) = 0
  <2>1. s = <<>>
    BY <1>1
  <2> QED
    BY <1>1, <2>1 DEF FlattenSeq
<1>2. CASE Len(s) # 0
  <2>1. /\ Len(s) \in Nat \ {0} /\ \A i \in 1..Len(s) : s[i] \in Seq(E)
        /\ \A a, b \in Seq(E) : a \o b \in Seq(E)
    BY <1>2
  <2> QED
    BY <2>1, FlattenWithin, Zenon
<1> QED
  BY <1>1, <1>2

\* Nothing comes of empty sequences.
LEMMA FlattenEmpty ==
  ASSUME NEW E, NEW s \in Seq(Seq(E)), \A i \in 1..Len(s) : s[i] = <<>>
  PROVE  FlattenSeq(s) = <<>>
<1>1. CASE Len(s) = 0
  <2>1. s = <<>>
    BY <1>1
  <2> QED
    BY <1>1, <2>1 DEF FlattenSeq
<1>2. CASE Len(s) # 0
  <2>1. \A a, b \in {<<>>} : a \o b \in {<<>>}
    OBVIOUS
  <2>2. Len(s) \in Nat \ {0} /\ \A i \in 1..Len(s) : s[i] \in {<<>>}
    BY <1>2
  <2>3. FlattenSeq(s) \in {<<>>}
    BY <2>1, <2>2, FlattenWithin, Zenon
  <2> QED
    BY <2>3
<1> QED
  BY <1>1, <1>2

\* The first n places of a sequence.
LEMMA PrefixType ==
  ASSUME NEW E, NEW s \in Seq(E), NEW n \in Nat, n <= Len(s)
  PROVE  /\ SubSeq(s, 1, n) \in Seq(E) /\ Len(SubSeq(s, 1, n)) = n
         /\ \A i \in 1..n : SubSeq(s, 1, n)[i] = s[i]
<1>1. \A i \in 1..n : s[i] \in E
  OBVIOUS
<1>2. SubSeq(s, 1, n) \in Seq(E) /\ Len(SubSeq(s, 1, n)) = IF 1 <= n THEN n - 1 + 1 ELSE 0
  BY <1>1, SubSeqProperties
<1>3. \A i \in 1..(n - 1 + 1) : SubSeq(s, 1, n)[i] = s[1 + i - 1]
  BY <1>1, SubSeqProperties
<1> QED
  BY <1>2, <1>3

\* One more sequence goes behind the others.
LEMMA FlattenAppend ==
  ASSUME NEW E, NEW s \in Seq(Seq(E)), NEW x \in Seq(E)
  PROVE  FlattenSeq(Append(s, x)) = FlattenSeq(s) \o x
<1>1. PICK t : t = Append(s, x)
  OBVIOUS
<1>2. /\ t \in Seq(Seq(E)) /\ Len(t) = Len(s) + 1 /\ Len(s) \in Nat /\ t[Len(s) + 1] = x
      /\ \A i \in 1..Len(s) : s[i] = t[i]
  BY <1>1
<1>3. PICK g : Joins(g, t, Len(t)) /\ FlattenSeq(t) = g[Len(t)]
  <2>1. Len(t) \in Nat \ {0}
    BY <1>2
  <2> QED
    BY <2>1, FlattenJoins, Zenon
<1>a. /\ Len(t) # 0 => g[1] = t[1]
      /\ \A i \in Nat : i + 1 \in 1..Len(t) /\ i # 0 =>
           i \in 1..Len(t) /\ g[i + 1] = g[i] \o t[i + 1]
  <2>1. Len(t) \in Nat
    BY <1>2
  <2> QED
    BY <1>3, <2>1, JoinsStep, Zenon
<1>4. CASE Len(s) = 0
  <2>1. s = <<>> /\ FlattenSeq(s) = <<>>
    BY <1>4 DEF FlattenSeq
  <2>2. g[1] = x
    BY <1>a, <1>2, <1>4
  <2> QED
    BY <1>1, <1>2, <1>3, <1>4, <2>1, <2>2
<1>5. CASE Len(s) # 0
  <2>1. PICK f : Joins(f, s, Len(s)) /\ FlattenSeq(s) = f[Len(s)]
    <3>1. Len(s) \in Nat \ {0}
      BY <1>2, <1>5
    <3> QED
      BY <3>1, FlattenJoins, Zenon
  <2>2. Len(s) <= Len(t) /\ Len(t) \in Nat /\ Len(s) \in 1..Len(s)
        /\ Len(s) + 1 \in 1..Len(t)
    BY <1>2, <1>5
  <2>3. \A i \in 1..Len(s) : f[i] = g[i]
    <3>1. Follows(f, s, Len(s))
      BY <2>1 DEF Joins, Follows
    <3>2. Follows(g, t, Len(t))
      BY <1>3 DEF Joins, Follows
    <3>3. \A i \in 1..Len(s) : i \in 1..Len(t) /\ s[i] = t[i]
      BY <1>2, <2>2
    <3>4. Follows(g, s, Len(s)) /\ Len(s) \in Nat
      BY <1>2, <3>2, <3>3, Zenon DEF Follows
    <3> QED
      BY <3>1, <3>4, JoinsAgree
  <2>4. g[Len(s) + 1] = g[Len(s)] \o t[Len(s) + 1]
    BY <1>a, <1>2, <1>5, <2>2
  <2> QED
    BY <1>1, <1>2, <1>3, <2>1, <2>2, <2>3, <2>4
<1> QED
  BY <1>2, <1>4, <1>5

\* Sequences of one element each make the sequence of those.
LEMMA FlattenSingles ==
  ASSUME NEW E, NEW s \in Seq(E)
  PROVE  FlattenSeq([i \in DOMAIN s |-> <<s[i]>>]) = s
<1>1. PICK t : t = [i \in DOMAIN s |-> <<s[i]>>]
  OBVIOUS
<1>a. Len(s) \in Nat /\ DOMAIN s = 1..Len(s) /\ \A i \in 1..Len(s) : <<s[i]>> \in Seq(E)
  OBVIOUS
<1>2. /\ t \in Seq(Seq(E)) /\ Len(t) = Len(s) /\ Len(s) \in Nat
      /\ \A i \in 1..Len(s) : t[i] = <<s[i]>>
  BY <1>1, <1>a
<1>3. CASE Len(s) = 0
  <2>1. t = <<>> /\ s = <<>>
    BY <1>2, <1>3
  <2> QED
    BY <1>1, <2>1 DEF FlattenSeq
<1>4. CASE Len(s) # 0
  <2>1. PICK f : Joins(f, t, Len(t)) /\ FlattenSeq(t) = f[Len(t)]
    <3>1. Len(t) \in Nat \ {0}
      BY <1>2, <1>4
    <3> QED
      BY <3>1, FlattenJoins, Zenon
  <2>2. /\ Len(s) # 0 => f[1] = t[1]
        /\ \A i \in Nat : i + 1 \in 1..Len(s) /\ i # 0 =>
             i \in 1..Len(s) /\ f[i + 1] = f[i] \o t[i + 1]
    BY <1>2, <2>1, JoinsStep, Zenon
  <2> DEFINE S == {j \in Nat : j \in 1..Len(s) => f[j] = SubSeq(s, 1, j)}
  <2>3. 0 \in S
    OBVIOUS
  <2>a. \A j \in 1..Len(s) : SubSeq(s, 1, j) = SubSeq(s, 1, j - 1) \o <<s[j]>>
    <3> SUFFICES ASSUME NEW j \in 1..Len(s)
                 PROVE  SubSeq(s, 1, j) = SubSeq(s, 1, j - 1) \o <<s[j]>>
      OBVIOUS
    <3>1. 1 \in 1..Len(s) /\ j \in 1..Len(s)
      BY <1>2, <1>4
    <3> QED
      BY <3>1, SubSeqRecursiveSecond
  <2>4. ASSUME NEW j \in Nat, j \in S PROVE j + 1 \in S
    <3> SUFFICES ASSUME j + 1 \in 1..Len(s) PROVE f[j + 1] = SubSeq(s, 1, j + 1)
      OBVIOUS
    <3>1. CASE j = 0
      <4>1. f[1] = <<s[1]>>
        BY <1>2, <1>4, <2>2
      <4>2. SubSeq(s, 1, 1) = <<s[1]>>
        <5>1. SubSeq(s, 1, 1) = SubSeq(s, 1, 0) \o <<s[1]>> /\ SubSeq(s, 1, 0) = <<>>
          BY <2>a, <1>2, <1>4, SubSeqEmpty
        <5>2. <<s[1]>> \in Seq(E)
          BY <1>2, <1>4
        <5> QED
          BY <5>1, <5>2, ConcatEmptySeq
      <4> QED
        BY <3>1, <4>1, <4>2
    <3>2. CASE j # 0
      <4>1. f[j + 1] = SubSeq(s, 1, j) \o <<s[j + 1]>>
        BY <1>2, <2>2, <2>4, <3>2
      <4>2. SubSeq(s, 1, j + 1) = SubSeq(s, 1, j) \o <<s[j + 1]>>
        BY <2>a, (j + 1) - 1 = j
      <4> QED
        BY <4>1, <4>2
    <3> QED
      BY <3>1, <3>2
  <2>5. Len(s) \in S
    <3> HIDE DEF S
    <3>1. S \in SUBSET Nat
      BY DEF S
    <3> QED
      BY <1>2, <2>3, <2>4, <3>1, NatSetInduction
  <2>6. SubSeq(s, 1, Len(s)) = s
    BY SubSeqFull
  <2> QED
    BY <1>1, <1>2, <1>4, <2>1, <2>5, <2>6
<1> QED
  BY <1>2, <1>3, <1>4

\* If only one sequence has something, that is what comes of them.
LEMMA FlattenOne ==
  ASSUME NEW E, NEW s \in Seq(Seq(E)), NEW k \in 1..Len(s),
         \A i \in 1..Len(s) : i # k => s[i] = <<>>
  PROVE  FlattenSeq(s) = s[k]
<1>1. Len(s) \in Nat \ {0} /\ k \in Nat /\ s[k] \in Seq(E)
  OBVIOUS
<1>2. PICK f : Joins(f, s, Len(s)) /\ FlattenSeq(s) = f[Len(s)]
  BY <1>1, FlattenJoins, Zenon
<1>3. /\ f[1] = s[1]
      /\ \A i \in Nat : i + 1 \in 1..Len(s) /\ i # 0 =>
           i \in 1..Len(s) /\ f[i + 1] = f[i] \o s[i + 1]
  <2>1. Len(s) \in Nat /\ Len(s) # 0
    BY <1>1
  <2>2. /\ Len(s) # 0 => f[1] = s[1]
        /\ \A i \in Nat : i + 1 \in 1..Len(s) /\ i # 0 =>
             i \in 1..Len(s) /\ f[i + 1] = f[i] \o s[i + 1]
    BY <1>2, <2>1, JoinsStep, Zenon
  <2> QED
    BY <2>1, <2>2, Zenon
<1>4. s[k] \o <<>> = s[k] /\ <<>> \o s[k] = s[k] /\ <<>> \o <<>> = <<>>
  BY <1>1, ConcatEmptySeq, EmptySeq
<1> DEFINE S == {j \in Nat : j \in 1..Len(s) => f[j] = IF j < k THEN <<>> ELSE s[k]}
<1>5. 0 \in S
  OBVIOUS
<1>6. ASSUME NEW j \in Nat, j \in S PROVE j + 1 \in S
  <2> SUFFICES ASSUME j + 1 \in 1..Len(s)
               PROVE  f[j + 1] = IF j + 1 < k THEN <<>> ELSE s[k]
    OBVIOUS
  <2>1. s[j + 1] = IF j + 1 = k THEN s[k] ELSE <<>>
    OBVIOUS
  <2>2. CASE j = 0
    BY <1>1, <1>3, <2>1, <2>2
  <2>3. CASE j # 0
    <3>1. f[j + 1] = f[j] \o s[j + 1] /\ f[j] = IF j < k THEN <<>> ELSE s[k]
      BY <1>3, <1>6, <2>3
    <3>2. CASE j + 1 < k
      <4>1. j < k /\ j + 1 # k
        BY <1>1, <3>2
      <4> QED
        BY <1>4, <2>1, <3>1, <3>2, <4>1
    <3>3. CASE j + 1 = k
      <4>1. j < k /\ ~(j + 1 < k)
        BY <1>1, <3>3
      <4> QED
        BY <1>4, <2>1, <3>1, <3>3, <4>1
    <3>4. CASE j + 1 > k
      <4>1. ~(j < k) /\ j + 1 # k /\ ~(j + 1 < k)
        BY <1>1, <3>4
      <4> QED
        BY <1>4, <2>1, <3>1, <4>1
    <3> QED
      BY <1>1, <3>2, <3>3, <3>4
  <2> QED
    BY <2>2, <2>3
<1>7. Len(s) \in S
  <2> HIDE DEF S
  <2>1. S \in SUBSET Nat
    BY DEF S
  <2> QED
    BY <1>1, <1>5, <1>6, <2>1, NatSetInduction
<1> QED
  BY <1>1, <1>2, <1>7

\* Induction over sequences, what is to be shown being given as a set: it has
\* the empty one, and with each of its own that one with one more at the end.
LEMMA SeqSetInduction ==
  ASSUME NEW T, NEW S \in SUBSET Seq(T), <<>> \in S,
         \A s \in S : \A x \in T : Append(s, x) \in S
  PROVE  S = Seq(T)
<1> DEFINE N == {n \in Nat : \A s \in Seq(T) : Len(s) = n => s \in S}
<1>1. 0 \in N
  <2>1. \A s \in Seq(T) : Len(s) = 0 => s = <<>>
    OBVIOUS
  <2> QED
    BY <2>1
<1>2. ASSUME NEW n \in Nat, n \in N PROVE n + 1 \in N
  <2> SUFFICES ASSUME NEW s \in Seq(T), Len(s) = n + 1 PROVE s \in S
    OBVIOUS
  <2>1. s # <<>>
    OBVIOUS
  <2>2. PICK r \in Seq(T), x \in T : s = Append(r, x)
    BY <2>1, SequenceEmptyOrAppend
  <2>3. Len(r) = n
    BY <2>2
  <2> QED
    BY <1>2, <2>2, <2>3
<1>3. N \in SUBSET Nat /\ \A s \in Seq(T) : Len(s) \in N => s \in S
  OBVIOUS
<1> HIDE DEF N
<1>4. N = Nat
  BY <1>1, <1>2, <1>3, NatSetInduction
<1>5. \A s \in Seq(T) : Len(s) \in Nat
  OBVIOUS
<1> QED
  BY <1>3, <1>4, <1>5

\* Sequences can be put together from either end.
Regroups(a, b, c) == (a \o b) \o c = a \o (b \o c)

LEMMA ConcatRegroups ==
  ASSUME NEW E
  PROVE  \A a, b, c \in Seq(E) : Regroups(a, b, c)
BY ConcatAssociative DEF Regroups

\* What comes of two lists of sequences, one behind the other.
LEMMA FlattenConcat ==
  ASSUME NEW E, NEW s \in Seq(Seq(E)), NEW r \in Seq(Seq(E))
  PROVE  FlattenSeq(s \o r) = FlattenSeq(s) \o FlattenSeq(r)
<1> DEFINE S == {q \in Seq(Seq(E)) : FlattenSeq(s \o q) = FlattenSeq(s) \o FlattenSeq(q)}
<1>1. <<>> \in S
  <2>1. s \o <<>> = s /\ FlattenSeq(s) \o <<>> = FlattenSeq(s)
    BY FlattenType, ConcatEmptySeq
  <2>2. FlattenSeq(<<>>) = <<>>
    BY DEF FlattenSeq
  <2>3. <<>> \in Seq(Seq(E))
    OBVIOUS
  <2> QED
    BY <2>1, <2>2, <2>3
<1>2. ASSUME NEW q \in S, NEW x \in Seq(E) PROVE Append(q, x) \in S
  <2>1. q \in Seq(Seq(E)) /\ FlattenSeq(s \o q) = FlattenSeq(s) \o FlattenSeq(q)
    OBVIOUS
  <2>2. s \o Append(q, x) = Append(s \o q, x) /\ s \o q \in Seq(Seq(E))
        /\ Append(q, x) \in Seq(Seq(E))
    BY <2>1, AppendIsConcat
  <2>3. FlattenSeq(Append(s \o q, x)) = FlattenSeq(s \o q) \o x
    BY <2>2, FlattenAppend
  <2>4. FlattenSeq(Append(q, x)) = FlattenSeq(q) \o x
    BY <2>1, FlattenAppend
  <2>5. FlattenSeq(s) \in Seq(E) /\ FlattenSeq(q) \in Seq(E)
    BY <2>1, FlattenType
  <2>6. (FlattenSeq(s) \o FlattenSeq(q)) \o x = FlattenSeq(s) \o (FlattenSeq(q) \o x)
    <3>1. Regroups(FlattenSeq(s), FlattenSeq(q), x)
      BY <2>5, ConcatRegroups, Zenon
    <3> QED
      BY <3>1, Zenon DEF Regroups
  <2> QED
    BY <2>1, <2>2, <2>3, <2>4, <2>6
<1>3. S \in SUBSET Seq(Seq(E)) /\ (S = Seq(Seq(E)) => r \in S)
  OBVIOUS
<1>4. r \in S => FlattenSeq(s \o r) = FlattenSeq(s) \o FlattenSeq(r)
  OBVIOUS
<1> HIDE DEF S
<1>5. S = Seq(Seq(E))
  BY <1>1, <1>2, <1>3, SeqSetInduction
<1> QED
  BY <1>3, <1>4, <1>5
=============================================================================
