----------------------------- MODULE ArgsProofs -----------------------------
(* Theorems about the Args module, for command lines of any length.          *)
EXTENDS Args, TLAPS

\* Every variable keeps its type: in particular every entry has a path.
THEOREM ArgsTypeCorrect == Spec => []TypeOK
<1>1. Init => TypeOK
  BY InputAssumption
     DEF Init, TypeOK, Loops, NoName, RawEntry, FlagEntry
<1>2. TypeOK /\ [Next]_vars => TypeOK'
  <2> SUFFICES ASSUME TypeOK, [Next]_vars PROVE TypeOK'
    OBVIOUS
  <2> USE DEF TypeOK
  <2>1. CASE ScanEnds
    BY <2>1 DEF ScanEnds, Loops
  <2>2. CASE ScanWord
    BY <2>2 DEF ScanWord
  <2>3. CASE ScanFlag
    <3>1. index \in 1..Len(tokens) /\ tokens[index] \in Token
      BY <2>3 DEF ScanFlag, AtFlag, MoreArgs
    <3>2. Value(index) \in RawValues
      BY <3>1 DEF Value, RawValues
    <3>3. PathOf[tokens[index].name] \in Paths
      BY <2>3, <3>1, PathAssumption DEF ScanFlag, Usable, Token
    <3>4. Entry(index) \in RawEntry
      BY <3>1, <3>2, <3>3 DEF Entry, RawEntry, Token
    <3> QED
      BY <2>3, <3>4 DEF ScanFlag
  <2>4. CASE ScanFails
    BY <2>4 DEF ScanFails, Fail
  <2>5. CASE VisitFlag
    <3>1. flags[index] \in Flag
      BY <2>5 DEF VisitFlag
    <3>2. FlagPath(flags[index]) \in Paths
      BY <2>5, <3>1, PathAssumption DEF VisitFlag, FlagPath, Flag
    <3>3. ChangedEntry(flags[index]) \in FlagEntry
      BY <3>1, <3>2 DEF ChangedEntry, FlagEntry, Flag
    <3> QED
      BY <2>5, <3>3 DEF VisitFlag
  <2>6. CASE VisitFails
    BY <2>6 DEF VisitFails, Fail
  <2>7. CASE VisitEnds
    BY <2>7 DEF VisitEnds, Loops
  <2>8. CASE ApplyEntry
    <3> DEFINE e == Group[index]
    <3>1. /\ e.path \in Paths /\ e.name \in Names
          /\ e.value \in RawValues \cup {"flag"} \X Names
      <4>1. CASE pc = "applyRaw"
        <5>1. entries[index] \in RawEntry
          BY <2>8, <4>1 DEF ApplyEntry, Group
        <5> QED
          BY <4>1, <5>1 DEF Group, RawEntry
      <4>2. CASE pc = "applyFlags"
        <5>1. flagEntries[index] \in FlagEntry
          BY <2>8, <4>2 DEF ApplyEntry, Group
        <5> QED
          BY <4>2, <5>1 DEF Group, FlagEntry
      <4> QED
        BY <2>8, <4>1, <4>2 DEF ApplyEntry
    <3>2. namesByPath' \in [Paths -> Names \cup {NoPath}]
      BY <2>8, <3>1 DEF ApplyEntry, Put
    <3>3. values' \in [Paths -> RawValues \cup {"flag"} \X Names \cup {Absent}]
      BY <2>8, <3>1 DEF ApplyEntry, Put
    <3> QED
      BY <2>8, <3>2, <3>3 DEF ApplyEntry
  <2>9. CASE ApplyFails
    BY <2>9 DEF ApplyFails, Fail
  <2>10. CASE ApplyEnds
    BY <2>10 DEF ApplyEnds, ResetNames, NoName, Loops
  <2>11. CASE UNCHANGED vars
    BY <2>11 DEF vars
  <2> QED
    BY <2>1, <2>2, <2>3, <2>4, <2>5, <2>6, <2>7, <2>8, <2>9, <2>10, <2>11 DEF Next
<1> QED
  BY <1>1, <1>2, PTL DEF Spec

-----------------------------------------------------------------------------
(* The scan.                                                                 *)

\* Entries are those of flags, in order.
Found ==
  /\ \A n \in 1..Len(entries) : entries[n].at \in FlagTokens
                                /\ entries[n] = Entry(entries[n].at)
  /\ \A m, n \in 1..Len(entries) : m < n => entries[m].at < entries[n].at

\* The flags found are those before the index, in order, each with its entry.
ScanInv ==
  /\ Found
  /\ pc = "scan" =>
       /\ index <= Len(tokens) + 1
       /\ \A j \in 1..(index - 1) : tokens[j].kind # "dashes"
       /\ \A n \in 1..Len(entries) : entries[n].at < index
       /\ \A i \in FlagTokens :
            i < index => \E n \in 1..Len(entries) : entries[n].at = i
  /\ pc \notin {"scan", "error"} =>
       \A i \in FlagTokens : \E n \in 1..Len(entries) : entries[n].at = i

\* The scan leaves one token, or two, behind.
LEMMA ScanInvNext == TypeOK /\ ScanInv /\ [Next]_vars => ScanInv'
<1> SUFFICES ASSUME TypeOK, ScanInv, [Next]_vars PROVE ScanInv'
  OBVIOUS
<1>0. ASSUME tokens' = tokens, entries' = entries
      PROVE  FlagTokens' = FlagTokens /\ Found'
  <2>1. FlagTokens' = FlagTokens
    BY <1>0 DEF FlagTokens
  <2>2. Found
    BY Zenon DEF ScanInv
  <2> QED
    BY <1>0, <2>1, <2>2 DEF Found, Entry, Value, TakesNext
<1>1. CASE ScanEnds
  <2>1. \A i \in FlagTokens : i < index
    BY <1>1 DEF ScanEnds, MoreArgs, FlagTokens, TypeOK, FlagKinds
  <2>2. pc = "scan" /\ pc' = "visit" /\ tokens' = tokens /\ entries' = entries
    BY <1>1 DEF ScanEnds
  <2>3. \A i \in FlagTokens : \E n \in 1..Len(entries) : entries[n].at = i
    BY <2>1, <2>2 DEF ScanInv, Found
  <2> QED
    BY <1>0, <2>2, <2>3 DEF ScanInv
<1>2. CASE ScanWord
  <2>1. /\ index \in 1..Len(tokens)
        /\ tokens[index].kind \notin FlagKinds \cup {"dashes"}
    BY <1>2 DEF ScanWord, MoreArgs, AtFlag, TypeOK
  <2>2. \A i \in FlagTokens : i < index + 1 => i < index
    BY <2>1 DEF FlagTokens, TypeOK
  <2>3. /\ UNCHANGED <<tokens, entries>> /\ index' = index + 1
        /\ pc = "scan" /\ pc' = "scan"
    BY <1>2 DEF ScanWord
  <2>4. FlagTokens' = FlagTokens /\ \A i : Entry(i)' = Entry(i)
    BY <2>3 DEF FlagTokens, Entry, Value, TakesNext
  <2>5. /\ index' <= Len(tokens) + 1
        /\ \A j \in 1..(index' - 1) : tokens[j].kind # "dashes"
    <3>0. index \in Nat \ {0} /\ Len(tokens) \in Nat
      BY DEF TypeOK
    <3>1. \A j \in 1..(index - 1) : tokens[j].kind # "dashes"
      BY <2>3 DEF ScanInv, Found
    <3>2. index <= Len(tokens) /\ tokens[index].kind # "dashes"
      BY <2>1
    <3>3. \A j \in 1..(index' - 1) : j = index \/ j \in 1..(index - 1)
      BY <2>3, <3>0
    <3> QED
      BY <2>3, <3>0, <3>1, <3>2, <3>3
  <2>6. \A n \in 1..Len(entries) : entries[n].at < index'
    <3>1. \A n \in 1..Len(entries) : entries[n].at < index /\ entries[n] \in RawEntry
      BY <2>3 DEF ScanInv, Found, TypeOK
    <3> QED
      BY <2>3, <3>1 DEF TypeOK, RawEntry
  <2> QED
    BY <2>2, <2>3, <2>4, <2>5, <2>6 DEF ScanInv, Found
<1>3. CASE ScanFlag
  <2>0. /\ Len(entries) \in Nat /\ index \in Nat \ {0}
        /\ \A n \in 1..Len(entries) : entries[n].at \in Nat
    <3>1. \A n \in 1..Len(entries) : entries[n] \in RawEntry
      BY DEF TypeOK
    <3> QED
      BY <3>1 DEF TypeOK, RawEntry
  <2>1. index \in 1..Len(tokens) /\ tokens[index].kind \in FlagKinds
    BY <1>3 DEF ScanFlag, MoreArgs, AtFlag, TypeOK
  <2>2. index \in FlagTokens
    <3>1. \A j \in 1..index : tokens[j].kind # "dashes"
      BY <1>3, <2>1 DEF ScanFlag, ScanInv, Found, FlagKinds, TypeOK
    <3> QED
      BY <2>1, <3>1 DEF FlagTokens
  <2>3. /\ Len(entries') = Len(entries) + 1
        /\ entries'[Len(entries) + 1] = Entry(index)
        /\ \A n \in 1..Len(entries) : entries'[n] = entries[n]
    BY <1>3 DEF ScanFlag, TypeOK
  <2>4. Entry(index).at = index
    BY DEF Entry
  <2>5. pc = "scan" /\ pc' = "scan" /\ tokens' = tokens
    BY <1>3 DEF ScanFlag
  <2>6. FlagTokens' = FlagTokens /\ \A i : Entry(i)' = Entry(i)
    BY <2>5 DEF FlagTokens, Entry, Value, TakesNext
  <2>7. \A n \in 1..Len(entries') : /\ entries'[n].at \in FlagTokens
                                    /\ entries'[n] = Entry(entries'[n].at)
    BY <2>2, <2>3, <2>4 DEF ScanInv, Found, TypeOK
  <2>8. \A m, n \in 1..Len(entries') : m < n => entries'[m].at < entries'[n].at
    <3>1. \A n \in 1..Len(entries) : entries[n].at < index
      BY <2>5 DEF ScanInv, Found
    <3>2. SUFFICES ASSUME NEW m \in 1..Len(entries'), NEW n \in 1..Len(entries'), m < n
                   PROVE  entries'[m].at < entries'[n].at
      OBVIOUS
    <3>3. m \in 1..Len(entries) /\ entries'[m] = entries[m]
      BY <2>0, <2>3, <3>2
    <3>4. CASE n = Len(entries) + 1
      BY <2>3, <2>4, <3>1, <3>3, <3>4
    <3>5. CASE n \in 1..Len(entries)
      BY <2>3, <3>2, <3>3, <3>5 DEF ScanInv, Found
    <3> QED
      BY <2>0, <2>3, <3>4, <3>5
  <2>9. /\ index' \in {index + 1, index + 2}
        /\ index' = index + 2 =>
             index < Len(tokens) /\ tokens[index + 1].kind = "word"
    BY <1>3, <2>0 DEF ScanFlag, TakesNext
  <2>10. index' <= Len(tokens) + 1
    BY <2>1, <2>9 DEF TypeOK
  <2>11. \A j \in 1..(index' - 1) : tokens[j].kind # "dashes"
    BY <2>1, <2>2, <2>9 DEF FlagTokens, TypeOK
  <2>12. \A n \in 1..Len(entries') : entries'[n].at < index'
    <3>1. \A n \in 1..Len(entries) : entries[n].at < index
      BY <2>5 DEF ScanInv, Found
    <3>2. SUFFICES ASSUME NEW n \in 1..Len(entries') PROVE entries'[n].at < index'
      OBVIOUS
    <3>3. entries'[n].at <= index /\ entries'[n].at \in Nat
      <4>1. CASE n = Len(entries) + 1
        BY <2>0, <2>3, <2>4, <4>1
      <4>2. CASE n \in 1..Len(entries)
        BY <2>0, <2>3, <3>1, <4>2
      <4> QED
        BY <2>0, <2>3, <4>1, <4>2
    <3> QED
      BY <2>0, <2>9, <3>3
  <2>13. \A i \in FlagTokens : i < index' => i <= index
    BY <2>9 DEF FlagTokens, FlagKinds, TypeOK
  <2>14. \A i \in FlagTokens : i < index' =>
           \E n \in 1..Len(entries') : entries'[n].at = i
    <3> SUFFICES ASSUME NEW i \in FlagTokens, i < index'
                 PROVE  \E n \in 1..Len(entries') : entries'[n].at = i
      OBVIOUS
    <3>1. CASE i = index
      <4>1. Len(entries) + 1 \in 1..Len(entries')
        BY <2>0, <2>3
      <4> QED
        BY <2>3, <2>4, <3>1, <4>1
    <3>2. CASE i < index
      <4>1. PICK n \in 1..Len(entries) : entries[n].at = i
        BY <2>5, <3>2 DEF ScanInv, Found
      <4> QED
        BY <2>3, <4>1 DEF TypeOK
    <3> QED
      BY <2>13, <3>1, <3>2 DEF FlagTokens, TypeOK
  <2> QED
    BY <2>5, <2>6, <2>7, <2>8, <2>10, <2>11, <2>12, <2>14 DEF ScanInv, Found
<1>4. CASE ScanFails \/ VisitFails \/ ApplyFails
  <2>1. pc' = "error" /\ tokens' = tokens /\ entries' = entries
    BY <1>4 DEF ScanFails, VisitFails, ApplyFails, Fail
  <2> QED
    BY <1>0, <2>1 DEF ScanInv
<1>5. CASE VisitFlag \/ VisitEnds \/ ApplyEntry \/ ApplyEnds \/ UNCHANGED vars
  <2>1. tokens' = tokens /\ entries' = entries
    BY <1>5 DEF VisitFlag, VisitEnds, ApplyEntry, ApplyEnds, vars
  <2>2. CASE UNCHANGED vars
    <3>1. pc' = pc /\ index' = index
      BY <2>2 DEF vars
    <3> QED
      BY <1>0, <2>1, <3>1 DEF ScanInv
  <2>3. CASE VisitFlag \/ VisitEnds \/ ApplyEntry \/ ApplyEnds
    <3>1. pc \notin {"scan", "error"} /\ pc' # "scan"
      BY <2>3 DEF VisitFlag, VisitEnds, ApplyEntry, ApplyEnds
    <3> QED
      BY <1>0, <2>1, <3>1 DEF ScanInv
  <2> QED
    BY <1>5, <2>2, <2>3
<1> QED
  BY <1>1, <1>2, <1>3, <1>4, <1>5 DEF Next

\* TypeOK and ScanInv hold of every state.
LEMMA ScanInvariant == Spec => [](TypeOK /\ ScanInv)
<1>1. Init => ScanInv
  BY InputAssumption DEF Init, ScanInv, Found, FlagTokens
<1>2. TypeOK /\ TypeOK' /\ ScanInv /\ [Next]_vars => ScanInv'
  BY ScanInvNext
<1> QED
  BY ArgsTypeCorrect, <1>1, <1>2, PTL DEF Spec

\* However long the command line is, the scan finds every flag before "--",
\* in order, and nothing else.
THEOREM ScanFindsEveryFlag == Spec => []EveryFlagFound
<1>1. TypeOK /\ ScanInv => EveryFlagFound
  BY DEF TypeOK, ScanInv, Found, EveryFlagFound
<1> QED
  BY ScanInvariant, <1>1, PTL

-----------------------------------------------------------------------------
(* The changed flags.                                                        *)

\* An entry for each flag visited, in order, and all flags have paths if the
\* visit came to its end.
VisitInv ==
  /\ \A i, j \in 1..Len(flags) : flags[i].name = flags[j].name => i = j
  /\ pc = "scan" => flagEntries = <<>>
  /\ pc = "visit" => Len(flagEntries) = index - 1 /\ index <= Len(flags) + 1
  /\ pc \in {"applyRaw", "applyFlags", "ok"} => Len(flagEntries) = Len(flags)
  /\ Len(flagEntries) <= Len(flags)
  /\ \A n \in 1..Len(flagEntries) : flagEntries[n] = ChangedEntry(flags[n])

\* Each entry is made of the flag at its place.
LEMMA VisitInvNext == TypeOK /\ VisitInv /\ [Next]_vars => VisitInv'
<1> SUFFICES ASSUME TypeOK, VisitInv, [Next]_vars PROVE VisitInv'
  OBVIOUS
<1> USE DEF VisitInv
<1>0. /\ index \in Nat \ {0} /\ Len(flags) \in Nat /\ Len(flagEntries) \in Nat
      /\ \A f : ChangedEntry(f)' = ChangedEntry(f)
  BY DEF TypeOK, ChangedEntry, FlagPath
<1>1. CASE ScanEnds
  BY <1>0, <1>1 DEF ScanEnds
<1>2. CASE ScanWord \/ ScanFlag
  BY <1>0, <1>2 DEF ScanWord, ScanFlag
<1>3. CASE VisitFlag
  <2>1. /\ Len(flagEntries') = Len(flagEntries) + 1
        /\ flagEntries'[Len(flagEntries) + 1] = ChangedEntry(flags[index])
        /\ \A n \in 1..Len(flagEntries) : flagEntries'[n] = flagEntries[n]
    BY <1>3 DEF VisitFlag, TypeOK
  <2>2. /\ pc = "visit" /\ pc' = "visit" /\ index' = index + 1 /\ flags' = flags
        /\ index <= Len(flags)
    BY <1>3 DEF VisitFlag
  <2>3. \A n \in 1..Len(flagEntries') : flagEntries'[n] = ChangedEntry(flags[n])
    <3> SUFFICES ASSUME NEW n \in 1..Len(flagEntries')
                 PROVE  flagEntries'[n] = ChangedEntry(flags[n])
      OBVIOUS
    <3>1. CASE n \in 1..Len(flagEntries)
      BY <2>1, <3>1
    <3>2. CASE n = Len(flagEntries) + 1
      BY <1>0, <2>1, <2>2, <3>2
    <3> QED
      BY <1>0, <2>1, <3>1, <3>2
  <2> QED
    BY <1>0, <2>1, <2>2, <2>3
<1>4. CASE VisitEnds
  BY <1>0, <1>4 DEF VisitEnds
<1>5. CASE ApplyEntry \/ ApplyEnds \/ UNCHANGED vars
  BY <1>0, <1>5 DEF ApplyEntry, ApplyEnds, vars
<1>6. CASE ScanFails \/ VisitFails \/ ApplyFails
  BY <1>0, <1>6 DEF ScanFails, VisitFails, ApplyFails, Fail
<1> QED
  BY <1>1, <1>2, <1>3, <1>4, <1>5, <1>6 DEF Next
-----------------------------------------------------------------------------
(* The two groups.                                                           *)

\* namesByPath knows the entries of the group that have been applied, and
\* nothing else.
NamesInv ==
  /\ pc \in {"scan", "visit"} => namesByPath = NoName
  /\ pc \in {"applyRaw", "applyFlags"} =>
       /\ index <= Len(Group) + 1
       /\ \A n \in 1..(index - 1) : namesByPath[Group[n].path] = Group[n].name
       /\ \A p \in Paths : namesByPath[p] # NoPath =>
            \E n \in 1..(index - 1) : /\ Group[n].path = p
                                      /\ Group[n].name = namesByPath[p]
  /\ pc \in {"applyFlags", "ok"} =>
       \A m, n \in 1..Len(entries) :
         entries[m].path = entries[n].path => entries[m].name = entries[n].name
  /\ pc = "ok" =>
       \A m, n \in 1..Len(flagEntries) :
         flagEntries[m].path = flagEntries[n].path
           => flagEntries[m].name = flagEntries[n].name

\* An entry goes under its path, and ends a group only without a conflict.
LEMMA NamesInvNext == TypeOK /\ NamesInv /\ [Next]_vars => NamesInv'
<1> SUFFICES ASSUME TypeOK, NamesInv, [Next]_vars PROVE NamesInv'
  OBVIOUS
<1>0. index \in Nat \ {0} /\ Len(entries) \in Nat /\ Len(flagEntries) \in Nat
  BY DEF TypeOK
<1>1. CASE ScanEnds \/ ScanWord \/ ScanFlag \/ VisitFlag
  BY <1>1 DEF ScanEnds, ScanWord, ScanFlag, VisitFlag, NamesInv
<1>2. CASE VisitEnds
  <2>1. pc' = "applyRaw" /\ index' = 1 /\ namesByPath' = NoName
    BY <1>2 DEF VisitEnds, NamesInv
  <2>2. \A n \in 1..(index' - 1) : FALSE
    BY <2>1
  <2>3. Len(Group') \in Nat
    BY <1>0, <1>2, <2>1 DEF VisitEnds, Group
  <2> QED
    BY <2>1, <2>2, <2>3 DEF NamesInv, NoName
<1>3. CASE ApplyEntry
  <2> DEFINE e == Group[index]
  <2>1. /\ pc \in {"applyRaw", "applyFlags"} /\ pc' = pc /\ index' = index + 1
        /\ UNCHANGED <<entries, flagEntries>> /\ Group' = Group
        /\ index <= Len(Group) /\ Len(Group) \in Nat
        /\ namesByPath[e.path] \in {NoPath, e.name}
        /\ namesByPath' = [namesByPath EXCEPT ![e.path] = e.name]
    BY <1>0, <1>3 DEF ApplyEntry, Group, Conflict, Put
  <2>2. \A n \in 1..Len(Group) : Group[n].path \in Paths /\ Group[n].name \in Names
    <3>1. CASE pc = "applyRaw"
      <4>1. \A n \in 1..Len(entries) : entries[n] \in RawEntry
        BY DEF TypeOK
      <4> QED
        BY <3>1, <4>1 DEF Group, RawEntry
    <3>2. CASE pc = "applyFlags"
      <4>1. \A n \in 1..Len(flagEntries) : flagEntries[n] \in FlagEntry
        BY DEF TypeOK
      <4> QED
        BY <3>2, <4>1 DEF Group, FlagEntry
    <3> QED
      BY <2>1, <3>1, <3>2
  <2>3. \A n \in 1..(index' - 1) : namesByPath'[Group[n].path] = Group[n].name
    <3> SUFFICES ASSUME NEW n \in 1..(index' - 1)
                 PROVE  namesByPath'[Group[n].path] = Group[n].name
      OBVIOUS
    <3>1. CASE n = index
      BY <1>0, <2>1, <2>2, <3>1 DEF TypeOK
    <3>2. CASE n \in 1..(index - 1)
      <4>1. namesByPath[Group[n].path] = Group[n].name /\ Group[n].name # NoPath
        <5>1. n \in 1..Len(Group)
          BY <1>0, <2>1, <3>2
        <5> QED
          BY <2>1, <2>2, <3>2, <5>1, NoPathAssumption DEF NamesInv
      <4>2. Group[n].path = e.path => Group[n].name = e.name
        BY <2>1, <4>1
      <4>3. Group[n].path \in Paths
        BY <1>0, <2>1, <2>2, <3>2
      <4> QED
        BY <2>1, <4>1, <4>2, <4>3 DEF TypeOK
    <3> QED
      BY <1>0, <2>1, <3>1, <3>2
  <2>4. \A p \in Paths : namesByPath'[p] # NoPath =>
          \E n \in 1..(index' - 1) :
            Group[n].path = p /\ Group[n].name = namesByPath'[p]
    <3> SUFFICES ASSUME NEW p \in Paths, namesByPath'[p] # NoPath
                 PROVE  \E n \in 1..(index' - 1) : /\ Group[n].path = p
                                                   /\ Group[n].name = namesByPath'[p]
      OBVIOUS
    <3>1. CASE p = e.path
      <4>1. index \in 1..(index' - 1)
        BY <1>0, <2>1
      <4>2. namesByPath'[p] = e.name
        BY <2>1, <3>1 DEF TypeOK
      <4> QED
        BY <3>1, <4>1, <4>2
    <3>2. CASE p # e.path
      <4>1. namesByPath'[p] = namesByPath[p]
        BY <2>1, <3>2 DEF TypeOK
      <4>2. PICK n \in 1..(index - 1) :
              Group[n].path = p /\ Group[n].name = namesByPath[p]
        BY <2>1, <4>1 DEF NamesInv
      <4> QED
        BY <1>0, <2>1, <4>1, <4>2
    <3> QED
      BY <3>1, <3>2
  <2>5. index' <= Len(Group) + 1
    BY <1>0, <2>1
  <2> QED
    BY <2>1, <2>3, <2>4, <2>5 DEF NamesInv
<1>4. CASE ApplyEnds
  <2>1. /\ pc \in {"applyRaw", "applyFlags"} /\ index > Len(Group)
        /\ pc' = IF pc = "applyRaw" THEN "applyFlags" ELSE "ok"
        /\ index' = 1 /\ namesByPath' = NoName
        /\ UNCHANGED <<entries, flagEntries>>
    BY <1>4 DEF ApplyEnds, ResetNames
  <2>2. \A m, n \in 1..Len(Group) :
          Group[m].path = Group[n].path => Group[m].name = Group[n].name
    <3>1. Len(Group) = index - 1
      BY <1>0, <2>1 DEF NamesInv, Group
    <3> QED
      BY <2>1, <3>1 DEF NamesInv
  <2>3. Len(Group') \in Nat /\ \A n \in 1..(index' - 1) : FALSE
    BY <1>0, <2>1 DEF Group
  <2>4. CASE pc = "applyRaw"
    BY <2>1, <2>2, <2>3, <2>4 DEF NamesInv, NoName, Group
  <2>5. CASE pc = "applyFlags"
    BY <2>1, <2>2, <2>3, <2>5 DEF NamesInv, NoName, Group
  <2> QED
    BY <2>1, <2>4, <2>5
<1>5. CASE ScanFails \/ VisitFails \/ ApplyFails
  BY <1>5 DEF ScanFails, VisitFails, ApplyFails, Fail, NamesInv
<1>6. CASE UNCHANGED vars
  BY <1>6 DEF vars, NamesInv, Group
<1> QED
  BY <1>1, <1>2, <1>3, <1>4, <1>5, <1>6 DEF Next
-----------------------------------------------------------------------------
(* What loadArgs comes to.                                                   *)

ErrorInv == pc = "error" => Ambiguous

\* Each of the three errors has an ambiguous command line behind it.
LEMMA ErrorInvNext ==
  /\ TypeOK /\ ScanInv /\ VisitInv /\ NamesInv /\ ErrorInv /\ [Next]_vars
  => ErrorInv'
<1> SUFFICES ASSUME TypeOK, ScanInv, VisitInv, NamesInv, ErrorInv, [Next]_vars
             PROVE  ErrorInv'
  OBVIOUS
<1>0. UNCHANGED <<tokens, flags>>
  BY DEF Next, vars, ScanEnds, ScanWord, ScanFlag, ScanFails, VisitFlag, VisitFails,
         VisitEnds, ApplyEntry, ApplyFails, ApplyEnds, Fail
<1>1. Ambiguous' = Ambiguous
  BY <1>0 DEF Ambiguous, FlagTokens, FlagPath
<1>2. CASE ScanFails
  <2>1. index \in 1..Len(tokens) /\ tokens[index].kind \in FlagKinds
    BY <1>2 DEF ScanFails, AtFlag, MoreArgs, TypeOK
  <2>2. \A j \in 1..(index - 1) : tokens[j].kind # "dashes"
    BY <1>2 DEF ScanFails, ScanInv, Found
  <2>3. index \in FlagTokens
    BY <2>1, <2>2 DEF FlagTokens, FlagKinds
  <2> QED
    BY <1>1, <1>2, <2>3 DEF ScanFails, Usable, Ambiguous, ErrorInv
<1>3. CASE VisitFails
  BY <1>1, <1>3 DEF VisitFails, Ambiguous, ErrorInv, TypeOK
<1>4. CASE ApplyFails
  <2> DEFINE e == Group[index]
  <2>1. /\ pc \in {"applyRaw", "applyFlags"} /\ index \in 1..Len(Group)
        /\ namesByPath[e.path] # NoPath /\ namesByPath[e.path] # e.name
    BY <1>4 DEF ApplyFails, Conflict, TypeOK
  <2>2. CASE pc = "applyRaw"
    <3>1. Group = entries
      BY <2>2 DEF Group
    <3>2. entries[index] \in RawEntry
      BY <2>1, <3>1 DEF TypeOK
    <3>3. e.path \in Paths
      BY <3>1, <3>2 DEF RawEntry
    <3>4. PICK n \in 1..(index - 1) : /\ Group[n].path = e.path
                                      /\ Group[n].name = namesByPath[e.path]
      BY <2>1, <3>3 DEF NamesInv
    <3>5. n \in 1..Len(entries) /\ index \in 1..Len(entries)
      BY <2>1, <3>1, <3>4 DEF TypeOK
    <3>6. entries[n].name # entries[index].name /\ entries[n].path = entries[index].path
      BY <2>1, <3>1, <3>4
    <3> DEFINE i == entries[n].at
               j == entries[index].at
    <3>7. /\ i \in FlagTokens /\ j \in FlagTokens
          /\ entries[n] = Entry(i) /\ entries[index] = Entry(j)
      BY <3>5 DEF ScanInv, Found
    <3>8. /\ entries[n].name = tokens[i].name
          /\ entries[n].path = PathOf[tokens[i].name]
          /\ entries[index].name = tokens[j].name
          /\ entries[index].path = PathOf[tokens[j].name]
      <4> HIDE DEF i, j
      <4> QED
        BY <3>7 DEF Entry
    <3>9. /\ tokens[i].name # tokens[j].name
          /\ PathOf[tokens[i].name] = PathOf[tokens[j].name]
      BY <3>6, <3>8
    <3>10. Ambiguous
      <4> HIDE DEF i, j
      <4> QED
        BY <3>7, <3>9 DEF Ambiguous
    <3> QED
      BY <1>1, <3>10 DEF ErrorInv
  <2>3. CASE pc = "applyFlags"
    <3>1. Group = flagEntries
      BY <2>3 DEF Group
    <3>2. flagEntries[index] \in FlagEntry
      BY <2>1, <3>1 DEF TypeOK
    <3>3. e.path \in Paths
      BY <3>1, <3>2 DEF FlagEntry
    <3>4. PICK n \in 1..(index - 1) : Group[n].path = e.path
      BY <2>1, <3>3 DEF NamesInv
    <3>5. n \in 1..Len(flagEntries) /\ index \in 1..Len(flagEntries) /\ n # index
      BY <2>1, <3>1, <3>4 DEF TypeOK
    <3>6. n \in 1..Len(flags) /\ index \in 1..Len(flags)
      BY <2>3, <3>5 DEF VisitInv
    <3>7. /\ flagEntries[n].path = FlagPath(flags[n])
          /\ flagEntries[index].path = FlagPath(flags[index])
      <4>1. \A m \in 1..Len(flagEntries) : flagEntries[m] = ChangedEntry(flags[m])
        BY DEF VisitInv
      <4>2. \A f : ChangedEntry(f).path = FlagPath(f)
        BY DEF ChangedEntry
      <4> QED
        BY <3>5, <4>1, <4>2
    <3>8. FlagPath(flags[n]) = FlagPath(flags[index])
      BY <3>1, <3>4, <3>7
    <3>9. Ambiguous
      BY <3>5, <3>6, <3>8 DEF Ambiguous
    <3> QED
      BY <1>1, <3>9 DEF ErrorInv
  <2> QED
    BY <2>1, <2>2, <2>3
<1>5. CASE pc' # "error"
  BY <1>5 DEF ErrorInv
<1>6. CASE UNCHANGED vars
  BY <1>1, <1>6 DEF ErrorInv, vars
<1>7. CASE ScanEnds \/ ScanWord \/ ScanFlag \/ VisitFlag \/ VisitEnds \/ ApplyEntry
            \/ ApplyEnds
  BY <1>5, <1>7 DEF ScanEnds, ScanWord, ScanFlag, VisitFlag, VisitEnds, ApplyEntry,
                    ApplyEnds
<1> QED
  BY <1>2, <1>3, <1>4, <1>6, <1>7 DEF Next

\* What every reachable state satisfies, together.
ArgsInv == TypeOK /\ ScanInv /\ VisitInv /\ NamesInv /\ ErrorInv

\* ArgsInv holds of every state.
LEMMA ArgsInvariant == Spec => []ArgsInv
<1>1. Init => VisitInv /\ NamesInv /\ ErrorInv
  BY FlagNameAssumption, InputAssumption
     DEF Init, VisitInv, NamesInv, ErrorInv, NoName
<1>2. TypeOK /\ TypeOK' /\ ScanInv /\ VisitInv /\ NamesInv /\ ErrorInv /\ [Next]_vars
        => VisitInv' /\ NamesInv' /\ ErrorInv'
  BY VisitInvNext, NamesInvNext, ErrorInvNext
<1> QED
  BY ScanInvariant, <1>1, <1>2, PTL DEF Spec, ArgsInv

\* loadArgs fails on every ambiguous command line, and on no other.
THEOREM ErrorsAreAmbiguities == Spec => []FailsIffAmbiguous
<1>1. ArgsInv => FailsIffAmbiguous
  <2> SUFFICES ASSUME ArgsInv, pc = "ok", Ambiguous PROVE FALSE
    BY DEF ArgsInv, ErrorInv, FailsIffAmbiguous
  <2>1. \A i \in FlagTokens : \E n \in 1..Len(entries) :
          entries[n] \in RawEntry /\ entries[n] = Entry(i)
    BY DEF ArgsInv, ScanInv, Found, TypeOK
  <2>2. \A i \in FlagTokens : PathOf[tokens[i].name] \in Paths
    <3> SUFFICES ASSUME NEW i \in FlagTokens PROVE PathOf[tokens[i].name] \in Paths
      OBVIOUS
    <3>1. Entry(i) \in RawEntry
      BY <2>1
    <3> QED
      BY <3>1 DEF Entry, RawEntry
  <2>3. \A i, j \in FlagTokens :
          PathOf[tokens[i].name] = PathOf[tokens[j].name]
            => tokens[i].name = tokens[j].name
    <3> SUFFICES ASSUME NEW i \in FlagTokens, NEW j \in FlagTokens,
                        PathOf[tokens[i].name] = PathOf[tokens[j].name]
                 PROVE  tokens[i].name = tokens[j].name
      OBVIOUS
    <3>1. PICK m \in 1..Len(entries) : entries[m] = Entry(i)
      BY <2>1
    <3>2. PICK n \in 1..Len(entries) : entries[n] = Entry(j)
      BY <2>1
    <3>3. entries[m].path = entries[n].path => entries[m].name = entries[n].name
      BY DEF ArgsInv, NamesInv
    <3> QED
      BY <3>1, <3>2, <3>3 DEF Entry
  <2>4. \A i \in 1..Len(flags) : /\ FlagPath(flags[i]) \in Paths
                                 /\ flagEntries[i].path = FlagPath(flags[i])
                                 /\ flagEntries[i].name = flags[i].name
    <3> SUFFICES ASSUME NEW i \in 1..Len(flags)
                 PROVE  /\ FlagPath(flags[i]) \in Paths
                        /\ flagEntries[i].path = FlagPath(flags[i])
                        /\ flagEntries[i].name = flags[i].name
      OBVIOUS
    <3>1. i \in 1..Len(flagEntries) /\ flagEntries[i] = ChangedEntry(flags[i])
      BY DEF ArgsInv, VisitInv
    <3>2. flagEntries[i] \in FlagEntry
      BY <3>1 DEF ArgsInv, TypeOK
    <3>3. flagEntries[i].path \in Paths
      BY <3>2 DEF FlagEntry
    <3> QED
      BY <3>1, <3>3 DEF ChangedEntry
  <2>5. \A i, j \in 1..Len(flags) : FlagPath(flags[i]) = FlagPath(flags[j]) => i = j
    <3>1. Len(flagEntries) = Len(flags)
      BY DEF ArgsInv, VisitInv
    <3>2. \A i, j \in 1..Len(flags) : FlagPath(flags[i]) = FlagPath(flags[j])
            => flags[i].name = flags[j].name
      BY <2>4, <3>1 DEF ArgsInv, NamesInv
    <3> QED
      BY <3>2 DEF ArgsInv, VisitInv
  <2> QED
    BY <2>2, <2>3, <2>4, <2>5, NoPathAssumption DEF Ambiguous
<1> QED
  BY ArgsInvariant, <1>1, PTL
-----------------------------------------------------------------------------
(* The values.                                                               *)

\* Of the first k raw arguments, the last with path p gives its value.
RawAt(k, p) ==
  /\ \A n \in 1..k : /\ entries[n].path = p
                     /\ \A m \in 1..k : n < m => entries[m].path # p
                     => values[p] = entries[n].value
  /\ (\A n \in 1..k : entries[n].path # p) => values[p] = Absent

\* The first k flags have been put over all the raw arguments.
FlagAt(k, p) ==
  /\ \A n \in 1..k : flagEntries[n].path = p => values[p] = flagEntries[n].value
  /\ (\A n \in 1..k : flagEntries[n].path # p) => RawAt(Len(entries), p)

ValueInv ==
  /\ pc \in {"scan", "visit"} => \A p \in Paths : values[p] = Absent
  /\ pc = "applyRaw" => \A p \in Paths : RawAt(index - 1, p)
  /\ pc = "applyFlags" => \A p \in Paths : FlagAt(index - 1, p)
  /\ pc = "ok" => \A p \in Paths : FlagAt(Len(flagEntries), p)

\* A later raw argument overwrites; a later flag with the path of an earlier
\* one is that flag, or a conflict.
LEMMA ValueInvNext == ArgsInv /\ ValueInv /\ [Next]_vars => ValueInv'
<1> SUFFICES ASSUME ArgsInv, ValueInv, [Next]_vars PROVE ValueInv'
  OBVIOUS
<1>0. index \in Nat \ {0} /\ Len(entries) \in Nat /\ Len(flagEntries) \in Nat
  BY DEF ArgsInv, TypeOK
<1>1. CASE ScanEnds \/ ScanWord \/ ScanFlag \/ VisitFlag
  BY <1>1 DEF ScanEnds, ScanWord, ScanFlag, VisitFlag, ValueInv
<1>2. CASE VisitEnds
  <2>1. /\ pc = "visit" /\ pc' = "applyRaw" /\ index' = 1 /\ values' = values
    BY <1>2 DEF VisitEnds
  <2>2. \A n \in 1..(index' - 1) : FALSE
    BY <2>1
  <2> QED
    BY <2>1, <2>2 DEF ValueInv, RawAt
<1>3. CASE ApplyEntry
  <2> DEFINE e == Group[index]
  <2>1. /\ pc \in {"applyRaw", "applyFlags"} /\ pc' = pc /\ index' = index + 1
        /\ UNCHANGED <<entries, flagEntries>>
        /\ index \in 1..Len(Group)
        /\ namesByPath[e.path] \in {NoPath, e.name}
        /\ values' = [values EXCEPT ![e.path] = e.value]
    BY <1>0, <1>3 DEF ApplyEntry, Group, Conflict, Put
  <2>2. \A p \in Paths : values'[p] = IF p = e.path THEN e.value ELSE values[p]
    BY <2>1 DEF ArgsInv, TypeOK
  <2>3. CASE pc = "applyRaw"
    <3>1. e = entries[index]
      BY <2>3 DEF Group
    <3>2. ASSUME NEW p \in Paths PROVE RawAt(index - 1, p)'
      <4> HIDE DEF e
      <4>1. RawAt(index - 1, p)
        BY <2>3 DEF ValueInv
      <4>2. \A n \in 1..(index' - 1) : n = index \/ n \in 1..(index - 1)
        BY <1>0, <2>1
      <4>3. \A n \in 1..(index - 1) : n \in 1..(index' - 1) /\ n < index
        BY <1>0, <2>1
      <4>4. index \in 1..(index' - 1)
        BY <1>0, <2>1
      <4>5. CASE p = e.path
        <5>1. values'[p] = entries[index].value
          BY <2>2, <3>1, <4>5
        <5> QED
          BY <2>1, <3>1, <4>2, <4>3, <4>4, <4>5, <5>1 DEF RawAt
      <4>6. CASE p # e.path
        <5>1. values'[p] = values[p]
          BY <2>2, <4>6
        <5> QED
          BY <2>1, <3>1, <4>1, <4>2, <4>3, <4>6, <5>1 DEF RawAt
      <4> QED
        BY <4>5, <4>6
    <3> QED
      BY <2>1, <2>3, <3>2 DEF ValueInv
  <2>4. CASE pc = "applyFlags"
    <3>1. e = flagEntries[index] /\ index \in 1..Len(flagEntries)
      BY <2>1, <2>4 DEF Group
    <3>2. \A n \in 1..Len(flagEntries) :
            /\ flagEntries[n].name \in Names
            /\ flagEntries[n].value = <<"flag", flagEntries[n].name>>
      <4>1. \A n \in 1..Len(flagEntries) :
              flagEntries[n] \in FlagEntry /\ flagEntries[n] = ChangedEntry(flags[n])
        BY DEF ArgsInv, TypeOK, VisitInv
      <4>2. \A n \in 1..Len(flagEntries) : flagEntries[n].name \in Names
        BY <4>1 DEF FlagEntry
      <4>3. \A f : ChangedEntry(f).value = <<"flag", ChangedEntry(f).name>>
        BY DEF ChangedEntry
      <4> QED
        BY <4>1, <4>2, <4>3
    <3>3. \A n \in 1..(index - 1) :
            /\ n \in 1..Len(flagEntries)
            /\ namesByPath[flagEntries[n].path] = flagEntries[n].name
      <4>1. \A n \in 1..(index - 1) : n \in 1..Len(flagEntries)
        BY <1>0, <3>1
      <4> QED
        BY <2>4, <4>1 DEF ArgsInv, NamesInv, Group
    <3>4. ASSUME NEW p \in Paths PROVE FlagAt(index - 1, p)'
      <4> HIDE DEF e
      <4>1. FlagAt(index - 1, p)
        BY <2>4 DEF ValueInv
      <4>2. \A n \in 1..(index' - 1) : n = index \/ n \in 1..(index - 1)
        BY <1>0, <2>1
      <4>3. \A n \in 1..(index - 1) : n \in 1..(index' - 1)
        BY <1>0, <2>1
      <4>4. index \in 1..(index' - 1)
        BY <1>0, <2>1
      <4>5. CASE p = e.path
        <5>1. values'[p] = flagEntries[index].value
          BY <2>2, <3>1, <4>5
        <5>2. ASSUME NEW n \in 1..(index - 1), flagEntries[n].path = p
              PROVE  flagEntries[n].value = flagEntries[index].value
          <6>1. namesByPath[p] = flagEntries[n].name /\ flagEntries[n].name \in Names
            BY <3>2, <3>3, <5>2
          <6>2. flagEntries[n].name = flagEntries[index].name
            BY <2>1, <3>1, <4>5, <6>1, NoPathAssumption
          <6> QED
            BY <3>1, <3>2, <3>3, <6>2
        <5> QED
          BY <2>1, <3>1, <4>2, <4>4, <4>5, <5>1, <5>2 DEF FlagAt
      <4>6. CASE p # e.path
        <5>1. values'[p] = values[p]
          BY <2>2, <4>6
        <5>2. RawAt(Len(entries), p)' <=> RawAt(Len(entries), p)
          BY <2>1, <5>1 DEF RawAt
        <5> QED
          BY <2>1, <3>1, <4>1, <4>2, <4>3, <4>6, <5>1, <5>2 DEF FlagAt
      <4> QED
        BY <4>5, <4>6
    <3> QED
      BY <2>1, <2>4, <3>4 DEF ValueInv
  <2> QED
    BY <2>1, <2>3, <2>4
<1>4. CASE ApplyEnds
  <2>1. /\ pc \in {"applyRaw", "applyFlags"} /\ index = Len(Group) + 1
        /\ pc' = IF pc = "applyRaw" THEN "applyFlags" ELSE "ok"
        /\ index' = 1
        /\ UNCHANGED <<entries, flagEntries, values>>
    BY <1>0, <1>4 DEF ApplyEnds, ArgsInv, NamesInv, Group
  <2>2. \A k, p : (RawAt(k, p)' <=> RawAt(k, p)) /\ (FlagAt(k, p)' <=> FlagAt(k, p))
    BY <2>1 DEF RawAt, FlagAt
  <2>3. CASE pc = "applyRaw"
    <3>1. \A p \in Paths : RawAt(Len(entries), p)
      BY <1>0, <2>1, <2>3 DEF ValueInv, Group
    <3>2. \A n \in 1..(index' - 1) : FALSE
      BY <2>1
    <3>3. \A p \in Paths : FlagAt(index - 1, p)'
      BY <2>1, <2>2, <3>1, <3>2 DEF FlagAt
    <3> QED
      BY <2>1, <2>3, <3>3 DEF ValueInv
  <2>4. CASE pc = "applyFlags"
    <3>1. \A p \in Paths : FlagAt(Len(flagEntries), p)
      BY <1>0, <2>1, <2>4 DEF ValueInv, Group
    <3> QED
      BY <2>1, <2>2, <2>4, <3>1 DEF ValueInv
  <2> QED
    BY <2>1, <2>3, <2>4
<1>5. CASE ScanFails \/ VisitFails \/ ApplyFails
  BY <1>5 DEF ScanFails, VisitFails, ApplyFails, Fail, ValueInv
<1>6. CASE UNCHANGED vars
  BY <1>6 DEF vars, ValueInv, RawAt, FlagAt
<1> QED
  BY <1>1, <1>2, <1>3, <1>4, <1>5, <1>6 DEF Next

\* A load that succeeds gives koanf the changed flag of each path, else its
\* last raw argument, else nothing.
THEOREM FlagsOverLastArgument == Spec => []ArgsPrecedence
<1>1. Init => ValueInv
  BY DEF Init, ValueInv
<1>2. ArgsInv /\ ValueInv /\ [Next]_vars => ValueInv'
  BY ValueInvNext
<1>3. ArgsInv /\ ValueInv => ArgsPrecedence
  <2> SUFFICES ASSUME ArgsInv, ValueInv, pc = "ok", NEW p \in Paths
               PROVE  /\ \A f \in 1..Len(flags) :
                           FlagFor(f, p) => values[p] = <<"flag", flags[f].name>>
                      /\ (\A f \in 1..Len(flags) : ~FlagFor(f, p)) =>
                           /\ \A i \in FlagTokens :
                                RawFor(i, p)
                                /\ (\A j \in FlagTokens : RawFor(j, p) => j <= i)
                                  => values[p] = Value(i)
                           /\ (\A i \in FlagTokens : ~RawFor(i, p))
                                => values[p] = Absent
    BY DEF ArgsPrecedence
  <2>1. Len(flagEntries) = Len(flags) /\ FlagAt(Len(flags), p)
    BY DEF ArgsInv, VisitInv, ValueInv
  <2>2. \A f \in 1..Len(flags) : /\ flagEntries[f].path = FlagPath(flags[f])
                                 /\ flagEntries[f].value = <<"flag", flags[f].name>>
    <3>1. \A f \in 1..Len(flags) : flagEntries[f] = ChangedEntry(flags[f])
      BY <2>1 DEF ArgsInv, VisitInv
    <3>2. \A f : /\ ChangedEntry(f).path = FlagPath(f)
                 /\ ChangedEntry(f).value = <<"flag", f.name>>
      BY DEF ChangedEntry
    <3> QED
      BY <3>1, <3>2
  <2>3. \A f \in 1..Len(flags) : FlagFor(f, p) => values[p] = <<"flag", flags[f].name>>
    BY <2>1, <2>2 DEF FlagAt, FlagFor
  <2>4. (\A f \in 1..Len(flags) : ~FlagFor(f, p)) => RawAt(Len(entries), p)
    BY <2>1, <2>2 DEF FlagAt, FlagFor
  <2>5. ASSUME RawAt(Len(entries), p), NEW i \in FlagTokens, RawFor(i, p),
               \A j \in FlagTokens : RawFor(j, p) => j <= i
        PROVE  values[p] = Value(i)
    <3>1. PICK n \in 1..Len(entries) : entries[n].at = i
      BY DEF ArgsInv, ScanInv, Found
    <3>2. entries[n] = Entry(i)
      BY <3>1 DEF ArgsInv, ScanInv, Found
    <3>3. entries[n].path = p /\ entries[n].value = Value(i)
      BY <2>5, <3>2 DEF Entry, RawFor
    <3>4. ASSUME NEW m \in 1..Len(entries), n < m, entries[m].path = p PROVE FALSE
      <4>1. entries[m].at \in FlagTokens /\ entries[m] = Entry(entries[m].at)
        BY DEF ArgsInv, ScanInv, Found
      <4>2. PathOf[tokens[entries[m].at].name] = p
        BY <3>4, <4>1 DEF Entry
      <4>3. entries[m].at <= i
        BY <2>5, <4>1, <4>2 DEF RawFor
      <4>4. i < entries[m].at
        BY <3>1, <3>4 DEF ArgsInv, ScanInv, Found
      <4>5. i \in Nat /\ entries[m].at \in Nat
        BY <4>1 DEF FlagTokens
      <4> QED
        BY <4>3, <4>4, <4>5
    <3> QED
      BY <2>5, <3>3, <3>4 DEF RawAt
  <2>6. ASSUME RawAt(Len(entries), p), \A i \in FlagTokens : ~RawFor(i, p)
        PROVE  values[p] = Absent
    <3>1. ASSUME NEW n \in 1..Len(entries) PROVE entries[n].path # p
      <4>1. entries[n].at \in FlagTokens /\ entries[n] = Entry(entries[n].at)
        BY DEF ArgsInv, ScanInv, Found
      <4>2. PathOf[tokens[entries[n].at].name] = entries[n].path
        BY <4>1 DEF Entry
      <4> QED
        BY <2>6, <4>1, <4>2 DEF RawFor
    <3> QED
      BY <2>6, <3>1 DEF RawAt
  <2> QED
    BY <2>3, <2>4, <2>5, <2>6
<1> QED
  BY ArgsInvariant, <1>1, <1>2, <1>3, PTL DEF Spec
=============================================================================
