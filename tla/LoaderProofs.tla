---------------------------- MODULE LoaderProofs ----------------------------
(* Theorems about the Loader module, for any keys, any number of items and   *)
(* of loads at the same time, any orders of priority and any bounds.         *)
EXTENDS Loader, DataLemmas, FiniteSetTheorems

\* The contents are no newer than the edits that were made.
VersionInv == \A it \in Items : version[it] <= edits

TypeInv == TypeOK /\ VersionInv

\* Items and their values are what TypeOK says values are.
LEMMA ValueType ==
  ASSUME TypeInv, NEW it \in Items PROVE Value(it) \in Values
BY LoadBounds DEF TypeInv, TypeOK, VersionInv, Value, Values

LEMMA MergeType ==
  ASSUME TypeInv, NEW b \in [Keys -> Values], NEW it \in Items
  PROVE  Merge(b, it) \in [Keys -> Values]
BY ValueType DEF Merge

\* The item a stage is at.
LEMMA CurrentItem ==
  ASSUME TypeInv, NEW l \in Loads, NEW src \in {"dotenv", "file", "custom", "args"},
         In(l, src)
  PROVE  Current(l) = <<src, item[l]>> /\ Current(l) \in Items
<1>1. item[l] \in Nat \ {0} /\ item[l] <= Count(src) /\ Current(l) = <<src, item[l]>>
  BY DEF TypeInv, TypeOK, In, Current
<1>2. CASE src = "args"
  BY <1>1, <1>2 DEF Count, Items
<1>3. CASE src \in {"dotenv", "file", "custom"}
  BY <1>1, <1>3, CountAssumption DEF Count, Items
<1> QED
  BY <1>1, <1>2, <1>3

\* The stage a load is in is one of the priority.
LEMMA SourceType ==
  ASSUME TypeInv, NEW l \in Loads, stage[l] <= Len(priority)
  PROVE  Source(l) \in Sources /\ stage[l] + 1 \in 1..(Len(priority) + 1)
BY PriorityAssumption DEF TypeInv, TypeOK, Source

\* The counters stay numbers.
LEMMA CountTypes ==
  ASSUME TypeInv, NEW src \in Sources, NEW res \in Results
  PROVE  /\ CountSource(src, res) => sourceTotal' \in [Sources \X Results -> Nat]
         /\ CountLoad(res) => loadTotal' \in [Results -> Nat]
<1>1. /\ sourceTotal \in [Sources \X Results -> Nat]
      /\ loadTotal \in [Results -> Nat]
  BY DEF TypeInv, TypeOK
<1>2. <<src, res>> \in Sources \X Results
  OBVIOUS
<1>3. sourceTotal[<<src, res>>] + 1 \in Nat /\ loadTotal[res] + 1 \in Nat
  BY <1>1, <1>2
<1>4. CountSource(src, res) => sourceTotal' \in [Sources \X Results -> Nat]
  BY <1>1, <1>3, Zenon DEF CountSource
<1>5. CountLoad(res) => loadTotal' \in [Results -> Nat]
  BY <1>1, <1>3, Zenon DEF CountLoad
<1> QED
  BY <1>4, <1>5

LEMMA ItemDoneTypes ==
  ASSUME TypeInv, NEW l \in Loads, status[l] = "sources",
         stage[l] <= Len(priority), ItemDone(l)
  PROVE  /\ item' \in [Loads -> Nat \ {0}]
         /\ stage' \in [Loads -> 1..(Len(priority) + 1)]
         /\ sourceTotal' \in [Sources \X Results -> Nat]
         /\ UNCHANGED <<optVars, contentVars, cancelled, status, clean, begun, loadTotal>>
<1>1. sourceTotal' \in [Sources \X Results -> Nat]
  <2>1. Source(l) \in Sources /\ "success" \in Results
    BY SourceType DEF Results
  <2>2. CASE CountSource(Source(l), "success")
    BY <2>1, <2>2, CountTypes
  <2>3. CASE UNCHANGED sourceTotal
    BY <2>3 DEF TypeInv, TypeOK
  <2> QED
    BY <2>2, <2>3 DEF ItemDone
<1>2. item' \in [Loads -> Nat \ {0}]
  BY DEF ItemDone, TypeInv, TypeOK
<1>3. stage' \in [Loads -> 1..(Len(priority) + 1)]
  BY SourceType DEF ItemDone, TypeInv, TypeOK
<1> QED
  BY <1>1, <1>2, <1>3 DEF ItemDone

LEMMA SourceFailsTypes ==
  ASSUME TypeInv, NEW l \in Loads, NEW src \in Sources, SourceFails(l, src)
  PROVE  TypeInv'
<1>1. "error" \in Results
  BY DEF Results
<1>2. /\ sourceTotal' \in [Sources \X Results -> Nat]
      /\ loadTotal' \in [Results -> Nat]
  BY <1>1, CountTypes DEF SourceFails
<1> QED
  BY <1>2 DEF SourceFails, TypeInv, TypeOK, VersionInv, optVars, contentVars,
              dotenvVars

\* An item is done that was merged, or that set variables.
LEMMA StepTypes ==
  ASSUME TypeInv, NEW l \in Loads, status[l] = "sources",
         stage[l] <= Len(priority), ItemDone(l),
         k' \in [Loads -> [Keys -> Values]], env' \in [Keys -> Values],
         dotenv' \in [Loads -> {"start", "read", "set"}],
         parsed' \in [Loads -> Values], unset' \in [Loads -> SUBSET Keys]
  PROVE  TypeInv'
BY ItemDoneTypes DEF TypeInv, TypeOK, VersionInv, optVars, contentVars

LEMMA TypeInvNext == TypeInv /\ [Next]_vars => TypeInv'
<1> SUFFICES ASSUME TypeInv, [Next]_vars PROVE TypeInv'
  OBVIOUS
<1> USE LoadBounds DEF optVars, contentVars, dotenvVars, metricVars
<1>0. /\ Absent \in Values /\ Original \in Values
      /\ k \in [Loads -> [Keys -> Values]] /\ env \in [Keys -> Values]
      /\ dotenv \in [Loads -> {"start", "read", "set"}]
      /\ parsed \in [Loads -> Values] /\ unset \in [Loads -> SUBSET Keys]
  BY DEF TypeInv, TypeOK, Values
<1>1. CASE Cancel
  BY <1>1 DEF Cancel, TypeInv, TypeOK, VersionInv
<1>2. ASSUME NEW it \in Items, Edit(it) PROVE TypeInv'
  <2>1. edits' = edits + 1 /\ edits \in Nat /\ edits' \in 0..MaxEdits
    BY <1>2 DEF Edit, TypeInv, TypeOK
  <2>2. \A o \in Items : version'[o] = IF o = it THEN version[o] + 1 ELSE version[o]
    BY <1>2 DEF Edit, TypeInv, TypeOK
  <2>3. version' \in [Items -> 0..MaxEdits] /\ \A o \in Items : version'[o] <= edits'
    <3>1. \A o \in Items : version[o] \in Nat /\ version[o] <= edits
      BY DEF TypeInv, TypeOK, VersionInv
    <3>2. \A o \in Items : version'[o] \in Nat /\ version'[o] <= edits'
      BY <2>1, <2>2, <3>1
    <3>3. DOMAIN version' = Items /\ version' = [o \in Items |-> version'[o]]
      BY <1>2 DEF Edit, TypeInv, TypeOK
    <3> QED
      BY <2>1, <3>2, <3>3
  <2>4. bad' \subseteq Items
    BY <1>2 DEF Edit, TypeInv, TypeOK
  <2> QED
    BY <1>2, <2>1, <2>3, <2>4 DEF Edit, TypeInv, TypeOK, VersionInv
<1>3. ASSUME NEW l \in Loads, Begin(l) PROVE TypeInv'
  BY <1>0, <1>3 DEF Begin, TypeInv, TypeOK, VersionInv
<1>4. ASSUME NEW l \in Loads, DefaultsFail(l) PROVE TypeInv'
  <2>1. "error" \in Results
    BY DEF Results
  <2>2. loadTotal' \in [Results -> Nat]
    BY <1>4, <2>1, CountTypes DEF DefaultsFail, Sources
  <2> QED
    BY <1>4, <2>2 DEF DefaultsFail, TypeInv, TypeOK, VersionInv
<1>5. ASSUME NEW l \in Loads, LoadDefaults(l) PROVE TypeInv'
  <2>1. <<"defaults", 1>> \in Items /\ <<"defaults", 2>> \in Items
    BY DEF Items
  <2>2. Merge(Merge(k[l], <<"defaults", 1>>), <<"defaults", 2>>) \in [Keys -> Values]
    BY <1>0, <2>1, MergeType
  <2>3. k' \in [Loads -> [Keys -> Values]]
    BY <1>0, <1>5, <2>2 DEF LoadDefaults
  <2> QED
    BY <1>5, <2>3 DEF LoadDefaults, TypeInv, TypeOK, VersionInv
<1>6. ASSUME NEW l \in Loads, ReadDotenv(l) PROVE TypeInv'
  <2>1. CASE SourceFails(l, "dotenv")
    BY <2>1, SourceFailsTypes DEF Sources
  <2>2. CASE ItemDone(l) /\ UNCHANGED <<k, env, dotenvVars>>
    BY <1>0, <1>6, <2>2, StepTypes DEF ReadDotenv, In
  <2>3. CASE ~SourceFails(l, "dotenv") /\ ~ (ItemDone(l) /\ UNCHANGED <<k, env, dotenvVars>>)
    <3>1. Value(Current(l)) \in Values
      BY <1>6, CurrentItem, ValueType DEF ReadDotenv
    <3>2. /\ dotenv' \in [Loads -> {"start", "read", "set"}]
          /\ parsed' \in [Loads -> Values]
      BY <1>0, <1>6, <2>3, <3>1 DEF ReadDotenv
    <3> QED
      BY <1>6, <2>3, <3>2 DEF ReadDotenv, TypeInv, TypeOK, VersionInv
  <2> QED
    BY <2>1, <2>2, <2>3
<1>14. ASSUME NEW l \in Loads, LookAtEnviron(l) PROVE TypeInv'
  <2>1. Unset(l) \in SUBSET Keys
    BY <1>14, CurrentItem DEF LookAtEnviron, Unset, TypeInv, TypeOK
  <2>2. /\ dotenv' \in [Loads -> {"start", "read", "set"}]
        /\ unset' \in [Loads -> SUBSET Keys]
    BY <1>0, <1>14, <2>1 DEF LookAtEnviron
  <2> QED
    BY <1>14, <2>2 DEF LookAtEnviron, TypeInv, TypeOK, VersionInv
<1>15. ASSUME NEW l \in Loads, NEW x \in Keys, SetVariable(l, x) PROVE TypeInv'
  <2>1. env' \in [Keys -> Values] /\ unset' \in [Loads -> SUBSET Keys]
    BY <1>0, <1>15 DEF SetVariable
  <2> QED
    BY <1>15, <2>1 DEF SetVariable, TypeInv, TypeOK, VersionInv
<1>16. ASSUME NEW l \in Loads, DotenvReturns(l) PROVE TypeInv'
  <2>1. /\ dotenv' \in [Loads -> {"start", "read", "set"}]
        /\ parsed' \in [Loads -> Values] /\ unset' = unset
    BY <1>0, <1>16 DEF DotenvReturns
  <2> QED
    BY <1>0, <1>16, <2>1, StepTypes DEF DotenvReturns, In
<1>7. ASSUME NEW l \in Loads, ConfigFile(l) PROVE TypeInv'
  <2>1. CASE SourceFails(l, "file")
    BY <2>1, SourceFailsTypes DEF Sources
  <2>2. CASE ~SourceFails(l, "file")
    <3>1. In(l, "file") /\ ItemDone(l) /\ env' = env /\ UNCHANGED dotenvVars
      BY <1>7, <2>2 DEF ConfigFile
    <3>2. Merge(k[l], Current(l)) \in [Keys -> Values]
      BY <1>0, <3>1, CurrentItem, MergeType
    <3>3. k' \in [Loads -> [Keys -> Values]]
      BY <1>0, <1>7, <2>2, <3>2 DEF ConfigFile
    <3> QED
      BY <1>0, <3>1, <3>3, StepTypes DEF In
  <2> QED
    BY <2>1, <2>2
<1>8. ASSUME NEW l \in Loads, CustomSource(l) PROVE TypeInv'
  <2>1. CASE SourceFails(l, "custom")
    BY <2>1, SourceFailsTypes DEF Sources
  <2>2. CASE ~SourceFails(l, "custom")
    <3>1. In(l, "custom") /\ ItemDone(l) /\ env' = env /\ UNCHANGED dotenvVars
      BY <1>8, <2>2 DEF CustomSource
    <3>2. Merge(k[l], Current(l)) \in [Keys -> Values]
      BY <1>0, <3>1, CurrentItem, MergeType
    <3>3. k' \in [Loads -> [Keys -> Values]]
      BY <1>0, <1>8, <2>2, <3>2 DEF CustomSource
    <3> QED
      BY <1>0, <3>1, <3>3, StepTypes DEF In
  <2> QED
    BY <2>1, <2>2
<1>9. ASSUME NEW l \in Loads, Environment(l) PROVE TypeInv'
  <2>1. k' \in [Loads -> [Keys -> Values]]
    BY <1>0, <1>9 DEF Environment
  <2> QED
    BY <1>0, <1>9, <2>1, StepTypes DEF Environment, In
<1>10. ASSUME NEW l \in Loads, Arguments(l) PROVE TypeInv'
  <2>1. CASE SourceFails(l, "args")
    BY <2>1, SourceFailsTypes DEF Sources
  <2>2. CASE ~SourceFails(l, "args")
    <3>1. In(l, "args") /\ ItemDone(l) /\ env' = env /\ UNCHANGED dotenvVars
      BY <1>10, <2>2 DEF Arguments
    <3>2. Merge(k[l], Current(l)) \in [Keys -> Values]
      BY <1>0, <3>1, CurrentItem, MergeType
    <3>3. k' \in [Loads -> [Keys -> Values]]
      BY <1>0, <1>10, <2>2, <3>2 DEF Arguments
    <3> QED
      BY <1>0, <3>1, <3>3, StepTypes DEF In
  <2> QED
    BY <2>1, <2>2
<1>11. ASSUME NEW l \in Loads, EmptyStage(l) PROVE TypeInv'
  <2>1. Source(l) \in Sources /\ stage[l] + 1 \in 1..(Len(priority) + 1)
    BY <1>11, SourceType DEF EmptyStage
  <2>2. sourceTotal' \in [Sources \X Results -> Nat]
    <3>1. CASE CountSource(Source(l), "success")
      BY <2>1, <3>1, CountTypes DEF Results
    <3>2. CASE UNCHANGED sourceTotal
      BY <3>2 DEF TypeInv, TypeOK
    <3> QED
      BY <1>11, <3>1, <3>2 DEF EmptyStage
  <2>3. stage' \in [Loads -> 1..(Len(priority) + 1)]
    BY <1>11, <2>1 DEF EmptyStage, TypeInv, TypeOK
  <2> QED
    BY <1>11, <2>2, <2>3 DEF EmptyStage, TypeInv, TypeOK, VersionInv
<1>12. ASSUME NEW l \in Loads, Finish(l) PROVE TypeInv'
  <2>1. loadTotal' \in [Results -> Nat]
    BY <1>12, CountTypes DEF Finish, Sources, Results
  <2> QED
    BY <1>12, <2>1 DEF Finish, TypeInv, TypeOK, VersionInv
<1>13. CASE UNCHANGED vars
  BY <1>13 DEF vars, TypeInv, TypeOK, VersionInv
<1> QED
  BY <1>1, <1>2, <1>3, <1>4, <1>5, <1>6, <1>7, <1>8, <1>9, <1>10, <1>11, <1>12,
     <1>13, <1>14, <1>15, <1>16 DEF Next, LoadStep

LEMMA TypeInvariant == Spec => []TypeInv
<1>1. Init => TypeInv
  <2> SUFFICES ASSUME Init PROVE TypeInv
    OBVIOUS
  <2>1. priority \in Seq(Sources)
    BY PriorityAssumption DEF Init
  <2>2. {Absent, Original} \subseteq Values
    BY DEF Values
  <2>3. bad \subseteq Items
    BY DEF Init, Items
  <2>4. /\ 0 \in 0..MaxEdits /\ 0 \in 0..MaxLoads
        /\ 1 \in 1..(Len(priority) + 1) /\ 1 \in Nat \ {0}
    BY LoadBounds, <2>1
  <2>5. /\ version \in [Items -> 0..MaxEdits] /\ VersionInv
        /\ stage \in [Loads -> 1..(Len(priority) + 1)]
        /\ item \in [Loads -> Nat \ {0}]
    BY <2>4 DEF Init, VersionInv
  <2>6. env \in [Keys -> Values] /\ k \in [Loads -> [Keys -> Values]]
    BY <2>2, Zenon DEF Init
  <2>7. /\ loadTotal \in [Results -> Nat]
        /\ sourceTotal \in [Sources \X Results -> Nat]
    BY DEF Init
  <2>8. /\ status \in [Loads -> {"idle", "defaults", "sources", "ok", "failed"}]
        /\ clean \in [Loads -> BOOLEAN]
        /\ dotenv \in [Loads -> {"start", "read", "set"}]
        /\ parsed \in [Loads -> Values] /\ unset \in [Loads -> SUBSET Keys]
    BY <2>2 DEF Init
  <2> QED
    BY <2>3, <2>4, <2>5, <2>6, <2>7, <2>8, Zenon DEF Init, TypeInv, TypeOK
<1> QED
  BY <1>1, TypeInvNext, PTL DEF Spec

\* Every variable keeps its type.
THEOREM LoaderTypeCorrect == Spec => []TypeOK
<1>1. TypeInv => TypeOK
  BY DEF TypeInv
<1> QED
  BY TypeInvariant, <1>1, PTL
-----------------------------------------------------------------------------
(* Where a source stands.                                                    *)

\* Place gives the last place of a source in the priority.
LEMMA PlaceLemma ==
  ASSUME priority \in Seq(Sources), NEW src
  PROVE  /\ Place(src) \in 0..Len(priority)
         /\ Place(src) > 0 => priority[Place(src)] = src
         /\ \A p \in 1..Len(priority) : priority[p] = src => p <= Place(src)
<1> DEFINE S == {0} \cup {i \in 1..Len(priority) : priority[i] = src}
<1>1. Len(priority) \in Nat
  OBVIOUS
<1>2. S \in SUBSET Nat /\ S # {} /\ \A i \in S : i <= Len(priority)
  BY <1>1
<1>3. Max(S) \in S /\ \A i \in S : i <= Max(S)
  BY <1>1, <1>2, MaxNat
<1>4. Place(src) = Max(S)
  BY DEF Place
<1> QED
  BY <1>1, <1>2, <1>3, <1>4

\* The defaults, which are no source, come before every stage.
LEMMA DefaultsPlace ==
  ASSUME priority \in Seq(Sources)
  PROVE  Place("defaults") = 0
<1>1. \A p \in 1..Len(priority) : priority[p] # "defaults"
  BY DEF Sources
<1> QED
  BY <1>1, PlaceLemma
-----------------------------------------------------------------------------
(* What a load has behind it.                                                *)

\* A load is at a dotenv file; a step within godotenv.Load moves no load on.
DotenvStep(l) == \/ ReadDotenv(l) \/ LookAtEnviron(l) \/ DotenvReturns(l)
                 \/ \E x \in Keys : SetVariable(l, x)
Within(l) ==
  /\ In(l, "dotenv")
  /\ UNCHANGED <<optVars, contentVars, cancelled, status, stage, item, k, clean,
                 begun, metricVars>>

LEMMA DotenvKinds ==
  ASSUME NEW l \in Loads, DotenvStep(l)
  PROVE  /\ In(l, "dotenv")
         /\ \/ SourceFails(l, "dotenv")
            \/ ItemDone(l) /\ k' = k
            \/ Within(l)
<1>1. CASE ReadDotenv(l)
  BY <1>1 DEF ReadDotenv, Within
<1>2. CASE ~ReadDotenv(l)
  BY <1>2 DEF DotenvStep, LookAtEnviron, DotenvReturns, SetVariable, Within
<1> QED
  BY <1>1, <1>2

\* Load l is at work, or returned a config, and nothing was edited since.
Loading(l) == clean[l] /\ status[l] \in {"sources", "ok"}

\* Load l is done with an item, at one of the places of its source, or at the
\* last: a source may be listed more than once, and is then loaded again.
Met(l, it)  == \E p \in 1..Len(priority) :
  priority[p] = it[1] /\ (p < stage[l] \/ (p = stage[l] /\ it[2] < item[l]))
Past(l, it) == \/ Place(it[1]) < stage[l]
               \/ Place(it[1]) = stage[l] /\ it[2] < item[l]

\* Where loads begin and end, and what is never edited.
StageInv ==
  /\ <<"defaults", 2>> \notin bad
  /\ \A l \in Loads :
       /\ status[l] = "defaults" =>
            stage[l] = 1 /\ item[l] = 1 /\ k[l] = [x \in Keys |-> Absent]
       /\ status[l] = "ok" => stage[l] > Len(priority)
       /\ item[l] = 1 \/ (stage[l] <= Len(priority) /\ item[l] <= Count(Source(l)))
       /\ edits = 0 /\ status[l] \in {"defaults", "sources", "ok"} => clean[l]

\* The environment counts as one item too.
EnvItem  == <<"env", 1>>
AnyItems == Items \cup {EnvItem}

LEMMA ItemIndex ==
  ASSUME NEW it \in AnyItems
  PROVE  /\ it = <<it[1], it[2]>> /\ it[2] \in Nat \ {0}
         /\ it[1] = "defaults" \/ (it[1] \in Sources /\ it[2] <= Count(it[1]))
BY CountAssumption DEF AnyItems, EnvItem, Items, Count, Sources

LEMMA ValueIsNew ==
  ASSUME NEW it \in Items
  PROVE  Value(it) # Absent /\ Value(it) # Original
<1>1. <<"absent", 0>> \notin Items /\ <<"env", 1>> \notin Items
  BY DEF Items
<1> QED
  BY <1>1 DEF Value, Absent, Original

\* A step of a load begins it, fails or moves it on, or ends it.
LEMMA StepKinds ==
  ASSUME NEW l \in Loads, LoadStep(l)
  PROVE  \/ Begin(l)
         \/ DefaultsFail(l)
         \/ LoadDefaults(l)
         \/ \E src \in Sources : In(l, src) /\ SourceFails(l, src)
         \/ \E src \in Sources : In(l, src) /\ ItemDone(l)
         \/ EmptyStage(l)
         \/ Finish(l)
         \/ Within(l)
BY DotenvKinds DEF LoadStep, DotenvStep, ConfigFile, CustomSource, Environment,
   Arguments, Sources

\* A step of a load leaves the options, the contents and other loads alone.
LEMMA StepShape ==
  ASSUME TypeInv, NEW l \in Loads, LoadStep(l)
  PROVE  /\ UNCHANGED <<priority, defines, bad, version, edits>>
         /\ \A o \in Loads \ {l} :
              /\ status'[o] = status[o] /\ stage'[o] = stage[o]
              /\ item'[o] = item[o] /\ k'[o] = k[o] /\ clean'[o] = clean[o]
<1> USE DEF optVars, contentVars
<1> SUFFICES ASSUME NEW o \in Loads
             PROVE  /\ UNCHANGED <<priority, defines, bad, version, edits>>
                    /\ o # l => /\ status'[o] = status[o] /\ stage'[o] = stage[o]
                                /\ item'[o] = item[o] /\ k'[o] = k[o]
                                /\ clean'[o] = clean[o]
  OBVIOUS
<1>0. /\ DOMAIN status = Loads /\ DOMAIN stage = Loads /\ DOMAIN item = Loads
      /\ DOMAIN k = Loads /\ DOMAIN clean = Loads
  BY DEF TypeInv, TypeOK
<1>1. ASSUME NEW src, SourceFails(l, src)
      PROVE  /\ UNCHANGED <<priority, defines, bad, version, edits, stage, item, k, clean>>
             /\ o # l => status'[o] = status[o]
  BY <1>0, <1>1 DEF SourceFails
<1>2. ASSUME ItemDone(l)
      PROVE  /\ UNCHANGED <<priority, defines, bad, version, edits, status, clean>>
             /\ o # l => stage'[o] = stage[o] /\ item'[o] = item[o]
  BY <1>0, <1>2 DEF ItemDone
<1>3. CASE DotenvStep(l)
  BY <1>0, <1>1, <1>2, <1>3, DotenvKinds DEF Within
<1>4. CASE ConfigFile(l)
  BY <1>0, <1>1, <1>2, <1>4 DEF ConfigFile
<1>5. CASE CustomSource(l)
  BY <1>0, <1>1, <1>2, <1>5 DEF CustomSource
<1>6. CASE Environment(l)
  BY <1>0, <1>2, <1>6 DEF Environment
<1>7. CASE Arguments(l)
  BY <1>0, <1>1, <1>2, <1>7 DEF Arguments
<1>8. CASE Begin(l)
  BY <1>0, <1>8 DEF Begin
<1>9. CASE DefaultsFail(l) \/ LoadDefaults(l)
  BY <1>0, <1>9 DEF DefaultsFail, LoadDefaults
<1>10. CASE EmptyStage(l) \/ Finish(l)
  BY <1>0, <1>10 DEF EmptyStage, Finish
<1> QED
  BY <1>3, <1>4, <1>5, <1>6, <1>7, <1>8, <1>9, <1>10 DEF LoadStep, DotenvStep

\* When an item is done, the load is at another.
LEMMA ItemMoves ==
  ASSUME TypeInv, NEW l \in Loads, ItemDone(l), stage[l] <= Len(priority)
  PROVE  item' # item \/ stage' # stage
<1>1. /\ item'[l] = (IF item[l] = Count(Source(l)) THEN 1 ELSE item[l] + 1)
      /\ stage'[l] = (IF item[l] = Count(Source(l)) THEN stage[l] + 1 ELSE stage[l])
      /\ item[l] \in Nat /\ stage[l] \in Nat
  BY PriorityAssumption DEF TypeInv, TypeOK, ItemDone
<1> QED
  BY <1>1

\* When an item is done, it is all that the load has newly behind it.
LEMMA ItemProgress ==
  ASSUME TypeInv, NEW l \in Loads, NEW src \in Sources, In(l, src), ItemDone(l),
         NEW it \in AnyItems
  PROVE  /\ Met(l, it)' => Met(l, it) \/ it = Current(l)
         /\ Past(l, it)' => Past(l, it) \/ it = Current(l)
         /\ status' = status /\ clean' = clean
<1>1. /\ priority \in Seq(Sources) /\ priority' = priority /\ status' = status
      /\ clean' = clean
  BY PriorityAssumption DEF TypeInv, TypeOK, ItemDone, optVars
<1>2. /\ stage[l] \in 1..Len(priority) /\ item[l] \in Nat \ {0}
      /\ Source(l) = src /\ priority[stage[l]] = src /\ Current(l) = <<src, item[l]>>
  BY <1>1 DEF In, Source, Current, TypeInv, TypeOK
<1>3. \/ stage'[l] = stage[l] + 1 /\ item'[l] = 1 /\ item[l] = Count(src)
      \/ stage'[l] = stage[l] /\ item'[l] = item[l] + 1
  BY <1>2 DEF ItemDone, TypeInv, TypeOK
<1>4. /\ it = <<it[1], it[2]>> /\ it[2] \in Nat \ {0}
      /\ it[1] = "defaults" \/ (it[1] \in Sources /\ it[2] <= Count(it[1]))
  BY ItemIndex
<1>5. Place(it[1])' = Place(it[1])
  BY <1>1 DEF Place
<1>6. ASSUME it[1] = src, it # Current(l) PROVE it[2] # item[l]
  BY <1>2, <1>4, <1>6
<1>7. ASSUME Met(l, it)', it # Current(l) PROVE Met(l, it)
  <2>1. PICK p \in 1..Len(priority) : /\ priority[p] = it[1]
                                      /\ p < stage'[l] \/ (p = stage'[l] /\ it[2] < item'[l])
    BY <1>1, <1>7 DEF Met
  <2>2. p < stage[l] \/ (p = stage[l] /\ it[2] < item[l])
    <3>1. CASE p < stage[l]
      BY <3>1
    <3>2. CASE p = stage[l]
      <4>1. it[1] = src /\ it[2] # item[l] /\ src \in Sources /\ src # "defaults"
        BY <1>2, <1>6, <1>7, <2>1, <3>2 DEF Sources
      <4>2. Len(priority) \in Nat /\ it[2] <= Count(src)
        BY <1>1, <1>4, <4>1
      <4> QED
        BY <1>2, <1>3, <1>4, <2>1, <3>2, <4>1, <4>2
    <3>3. CASE p > stage[l]
      BY <1>1, <1>2, <1>3, <1>4, <2>1, <3>3
    <3> QED
      BY <1>1, <1>2, <3>1, <3>2, <3>3
  <2> QED
    BY <2>1, <2>2 DEF Met
<1>8. ASSUME Past(l, it)', it # Current(l) PROVE Past(l, it)
  <2> DEFINE p == Place(it[1])
  <2>1. p < stage'[l] \/ (p = stage'[l] /\ it[2] < item'[l])
    BY <1>5, <1>8 DEF Past
  <2>2. p \in Nat /\ (p > 0 => priority[p] = it[1])
    BY <1>1, PlaceLemma
  <2>3. p < stage[l] \/ (p = stage[l] /\ it[2] < item[l])
    <3>1. CASE p = stage[l]
      <4>1. it[1] = src /\ it[2] # item[l] /\ src \in Sources /\ src # "defaults"
        BY <1>2, <1>6, <1>8, <2>2, <3>1 DEF Sources
      <4>2. it[2] <= Count(src)
        BY <1>4, <4>1
      <4> HIDE DEF p
      <4> QED
        BY <1>2, <1>3, <1>4, <2>1, <3>1, <4>1, <4>2
    <3>2. CASE p # stage[l]
      <4> HIDE DEF p
      <4> QED
        BY <1>2, <1>3, <1>4, <2>1, <2>2, <3>2
    <3> QED
      BY <3>1, <3>2
  <2> QED
    BY <2>3 DEF Past
<1> QED
  BY <1>1, <1>7, <1>8

\* A stage without items leaves nothing behind it.
LEMMA EmptyProgress ==
  ASSUME TypeInv, StageInv, NEW l \in Loads, EmptyStage(l), NEW it \in AnyItems
  PROVE  /\ Met(l, it)' => Met(l, it)
         /\ Past(l, it)' => Past(l, it)
         /\ status' = status /\ clean' = clean
<1>1. /\ priority \in Seq(Sources) /\ priority' = priority /\ status' = status
      /\ clean' = clean /\ item' = item /\ stage'[l] = stage[l] + 1
  BY PriorityAssumption DEF TypeInv, TypeOK, EmptyStage, optVars
<1>2. /\ stage[l] \in 1..Len(priority) /\ Len(priority) \in Nat /\ item[l] \in Nat \ {0}
      /\ Count(priority[stage[l]]) = 0 /\ priority[stage[l]] \in Sources
      /\ item[l] = 1 /\ item'[l] = 1
  BY <1>1 DEF EmptyStage, Source, TypeInv, TypeOK, StageInv
<1>3. /\ it[2] \in Nat \ {0}
      /\ it[1] = "defaults" \/ (it[1] \in Sources /\ it[2] <= Count(it[1]))
  BY ItemIndex
<1>4. it[1] # priority[stage[l]]
  BY <1>2, <1>3 DEF Sources
<1>5. Place(it[1])' = Place(it[1]) /\ Place(it[1]) \in Nat /\ Place(it[1]) # stage[l]
  <2>1. Place(it[1])' = Place(it[1])
    BY <1>1 DEF Place
  <2> QED
    BY <1>1, <1>2, <1>4, <2>1, PlaceLemma
<1> QED
  BY <1>1, <1>2, <1>3, <1>4, <1>5 DEF Met, Past

\* The step a load takes when it is at an item is that of the item's source.
LEMMA ItemAction ==
  ASSUME TypeInv, NEW l \in Loads, LoadStep(l), NEW src \in Sources, In(l, src)
  PROVE  \/ src = "dotenv" /\ DotenvStep(l)
         \/ src = "file" /\ ConfigFile(l)
         \/ src = "custom" /\ CustomSource(l)
         \/ src = "env" /\ Environment(l)
         \/ src = "args" /\ Arguments(l)
<1>1. /\ status[l] = "sources" /\ stage[l] <= Len(priority) /\ Len(priority) \in Nat
      /\ stage[l] \in Nat /\ item[l] \in Nat \ {0} /\ item[l] <= Count(Source(l))
      /\ Source(l) = src
  BY PriorityAssumption DEF TypeInv, TypeOK, In
<1>2. ~Begin(l) /\ ~DefaultsFail(l) /\ ~LoadDefaults(l)
  BY <1>1 DEF Begin, DefaultsFail, LoadDefaults
<1>3. ~EmptyStage(l) /\ ~Finish(l)
  BY <1>1 DEF EmptyStage, Finish
<1>4. /\ DotenvStep(l) => Source(l) = "dotenv"
      /\ ConfigFile(l) => Source(l) = "file"
      /\ CustomSource(l) => Source(l) = "custom"
      /\ Environment(l) => Source(l) = "env"
      /\ Arguments(l) => Source(l) = "args"
  BY DotenvKinds DEF ConfigFile, CustomSource, Environment, Arguments, In
<1> QED
  BY <1>1, <1>2, <1>3, <1>4 DEF LoadStep, DotenvStep

\* Load l is done with an item it was at.
Merging(l, it) == it = Current(l) /\ In(l, it[1]) /\ ItemDone(l)

\* The steps of a load that goes on: it begins with its sources, or it has
\* nothing newly behind it but the item it was at.
LEMMA LoadProgress ==
  ASSUME TypeInv, StageInv, NEW l \in Loads, LoadStep(l), Loading(l)', NEW it \in AnyItems
  PROVE  \/ LoadDefaults(l)
         \/ /\ Loading(l)
            /\ Met(l, it)' => Met(l, it) \/ Merging(l, it)
            /\ Past(l, it)' => Past(l, it) \/ Merging(l, it)
<1>0. DOMAIN status = Loads
  BY DEF TypeInv, TypeOK
<1>1. ASSUME NEW src, SourceFails(l, src) PROVE FALSE
  BY <1>0, <1>1 DEF SourceFails, Loading
<1>2. ASSUME NEW src \in Sources, In(l, src), ItemDone(l)
      PROVE  /\ Loading(l)
             /\ Met(l, it)' => Met(l, it) \/ Merging(l, it)
             /\ Past(l, it)' => Past(l, it) \/ Merging(l, it)
  BY <1>2, ItemProgress DEF Loading, Merging, Current, In
<1>3. CASE DotenvStep(l)
  <2>1. CASE Within(l)
    BY <2>1 DEF Within, Loading, Met, Past, Place, optVars
  <2> QED
    BY <1>1, <1>2, <1>3, <2>1, DotenvKinds DEF Sources
<1>4. CASE ConfigFile(l)
  BY <1>1, <1>2, <1>4 DEF ConfigFile, Sources
<1>5. CASE CustomSource(l)
  BY <1>1, <1>2, <1>5 DEF CustomSource, Sources
<1>6. CASE Environment(l)
  BY <1>2, <1>6 DEF Environment, Sources
<1>7. CASE Arguments(l)
  BY <1>1, <1>2, <1>7 DEF Arguments, Sources
<1>8. CASE Begin(l) \/ DefaultsFail(l)
  BY <1>0, <1>8 DEF Begin, DefaultsFail, Loading
<1>9. CASE EmptyStage(l)
  BY <1>9, EmptyProgress DEF Loading
<1>10. CASE Finish(l)
  BY <1>10 DEF Finish, Loading, Met, Past, Place, optVars
<1> QED
  BY <1>3, <1>4, <1>5, <1>6, <1>7, <1>8, <1>9, <1>10 DEF LoadStep, DotenvStep

LEMMA StageInvNext == TypeInv /\ StageInv /\ [Next]_vars => StageInv'
<1> SUFFICES ASSUME TypeInv, StageInv, [Next]_vars PROVE StageInv'
  OBVIOUS
<1> USE DEF optVars, contentVars
<1>0. /\ DOMAIN status = Loads /\ DOMAIN stage = Loads /\ DOMAIN item = Loads
      /\ DOMAIN k = Loads /\ DOMAIN clean = Loads /\ edits \in Nat
  BY DEF TypeInv, TypeOK
<1>1. ASSUME NEW l \in Loads, LoadStep(l) PROVE StageInv'
  <2>1. /\ UNCHANGED <<priority, bad, edits>>
        /\ \A o \in Loads \ {l} :
             /\ status'[o] = status[o] /\ stage'[o] = stage[o]
             /\ item'[o] = item[o] /\ k'[o] = k[o] /\ clean'[o] = clean[o]
    BY <1>1, StepShape
  <2> DEFINE Own == /\ status'[l] = "defaults" =>
                         stage'[l] = 1 /\ item'[l] = 1 /\ k'[l] = [x \in Keys |-> Absent]
                    /\ status'[l] = "ok" => stage'[l] > Len(priority)
                    /\ \/ item'[l] = 1
                       \/ stage'[l] <= Len(priority) /\ item'[l] <= Count(priority[stage'[l]])
                    /\ edits = 0 /\ status'[l] \in {"defaults", "sources", "ok"} => clean'[l]
  <2>2. ASSUME NEW src, SourceFails(l, src) PROVE Own
    BY <1>0, <2>2 DEF SourceFails, StageInv, Source
  <2>3. ASSUME NEW src \in Sources, In(l, src), ItemDone(l) PROVE Own
    <3>1. \/ item'[l] = 1
          \/ /\ stage'[l] = stage[l] /\ item'[l] = item[l] + 1 /\ item[l] # Count(src)
             /\ priority[stage[l]] = src /\ item[l] <= Count(src) /\ stage[l] <= Len(priority)
      BY <1>0, <2>3 DEF ItemDone, In, Source
    <3>2. item[l] \in Nat /\ Count(src) \in Nat
      BY CountAssumption DEF TypeInv, TypeOK, Count, Sources
    <3>3. /\ item'[l] = 1
             \/ (stage'[l] <= Len(priority) /\ item'[l] <= Count(priority[stage'[l]]))
      BY <3>1, <3>2
    <3> QED
      BY <2>3, <3>3 DEF In, ItemDone, StageInv
  <2>4. Own
    <3>1. CASE DotenvStep(l)
      <4>1. CASE Within(l)
        BY <4>1 DEF Within, StageInv, Source
      <4> QED
        BY <2>2, <2>3, <3>1, <4>1, DotenvKinds DEF Sources
    <3>2. CASE ConfigFile(l)
      BY <2>2, <2>3, <3>2 DEF ConfigFile, Sources
    <3>3. CASE CustomSource(l)
      BY <2>2, <2>3, <3>3 DEF CustomSource, Sources
    <3>4. CASE Environment(l)
      BY <2>3, <3>4 DEF Environment, Sources
    <3>5. CASE Arguments(l)
      BY <2>2, <2>3, <3>5 DEF Arguments, Sources
    <3>6. CASE Begin(l)
      BY <1>0, <3>6 DEF Begin, StageInv, Active
    <3>7. CASE DefaultsFail(l) \/ LoadDefaults(l)
      BY <1>0, <3>7 DEF DefaultsFail, LoadDefaults, StageInv, Source
    <3>8. CASE EmptyStage(l)
      <4>1. item'[l] = 1
        BY <3>8 DEF EmptyStage, StageInv, TypeInv, TypeOK
      <4> QED
        BY <3>8, <4>1 DEF EmptyStage, StageInv
    <3>9. CASE Finish(l)
      BY <1>0, <3>9 DEF Finish, StageInv, Source
    <3> QED
      BY <1>1, <3>1, <3>2, <3>3, <3>4, <3>5, <3>6, <3>7, <3>8, <3>9
         DEF LoadStep, DotenvStep
  <2> QED
    BY <2>1, <2>4 DEF StageInv, Source
<1>2. ASSUME NEW it \in Items, Edit(it) PROVE StageInv'
  <2>1. edits' # 0 /\ <<"defaults", 2>> \notin bad'
    BY <1>0, <1>2 DEF Edit, StageInv
  <2> QED
    BY <1>2, <2>1 DEF Edit, StageInv, Source
<1>3. CASE Cancel \/ UNCHANGED vars
  BY <1>3 DEF Cancel, vars, StageInv, Source
<1> QED
  BY <1>1, <1>2, <1>3 DEF Next

LEMMA StageInvariant == Spec => []StageInv
<1>1. Init => StageInv
  BY DEF Init, StageInv
<1> QED
  BY <1>1, StageInvNext, TypeInvariant, PTL DEF Spec
-----------------------------------------------------------------------------
(* The dotenv files fill the gaps of the environment.                        *)

\* The good dotenv files that define a key.
GoodDotenv(x) == {d \in Items : d[1] = "dotenv" /\ d \notin bad /\ x \in defines[d]}

\* Where godotenv.Load is: what it has read and what it has yet to set.  When it
\* is done with a file, all that the file defines is set.
DotenvInv == \A l \in Loads :
  /\ dotenv[l] # "start" => In(l, "dotenv") /\ parsed[l] \notin {Absent, Original}
  /\ dotenv[l] # "set" => unset[l] = {}
  /\ dotenv[l] # "start" /\ clean[l] =>
       Current(l) \notin bad /\ parsed[l] = Value(Current(l))
  /\ \A x \in unset[l] : /\ x \in defines[Current(l)] /\ env[x] # Original
                         /\ Loads = {l} => env[x] = Absent
  /\ dotenv[l] = "set" =>
       \A x \in defines[Current(l)] \ unset[l] : env[x] # Absent

\* While a load is clean, so is every load at work.
CleanInv == \A l \in Loads : clean[l] => \A m \in Loads : Active(m) => clean[m]

\* A step of one load leaves the others where they are in godotenv.Load.
LEMMA DotenvShape ==
  ASSUME TypeInv, NEW l \in Loads, LoadStep(l), NEW o \in Loads \ {l}
  PROVE  dotenv'[o] = dotenv[o] /\ parsed'[o] = parsed[o] /\ unset'[o] = unset[o]
<1>0. DOMAIN dotenv = Loads /\ DOMAIN parsed = Loads /\ DOMAIN unset = Loads
  BY DEF TypeInv, TypeOK
<1>1. CASE DotenvStep(l)
  BY <1>0, <1>1 DEF DotenvStep, ReadDotenv, SourceFails, LookAtEnviron, SetVariable,
     DotenvReturns, dotenvVars
<1>2. CASE ~DotenvStep(l)
  BY <1>2 DEF LoadStep, DotenvStep, Begin, DefaultsFail, LoadDefaults, ConfigFile,
     CustomSource, Environment, Arguments, EmptyStage, Finish, SourceFails, dotenvVars
<1> QED
  BY <1>1, <1>2

\* Only a load at a dotenv file is within godotenv.Load, and its own steps are
\* those of a dotenv file.
LEMMA OtherSteps ==
  ASSUME TypeInv, DotenvInv, NEW l \in Loads, LoadStep(l), ~DotenvStep(l)
  PROVE  dotenv[l] = "start" /\ UNCHANGED <<env, dotenvVars>>
<1>1. UNCHANGED <<env, dotenvVars>>
  BY DEF LoadStep, DotenvStep, Begin, DefaultsFail, LoadDefaults, ConfigFile,
     CustomSource, Environment, Arguments, EmptyStage, Finish, SourceFails
<1>2. ~In(l, "dotenv")
  BY ItemAction DEF Sources
<1> QED
  BY <1>1, <1>2 DEF DotenvInv

\* A variable changes only when a load sets it.
LEMMA EnvStep ==
  ASSUME TypeInv, DotenvInv, [Next]_vars, NEW x \in Keys, env'[x] # env[x]
  PROVE  \E l \in Loads : SetVariable(l, x) /\ x \in unset[l] /\ env'[x] = parsed[l]
                          /\ In(l, "dotenv") /\ dotenv[l] = "set"
                          /\ parsed[l] \notin {Absent, Original}
<1>1. PICK l \in Loads : LoadStep(l)
  BY DEF Next, Cancel, Edit, vars
<1>2. DotenvStep(l)
  BY <1>1, OtherSteps
<1>3. PICK y \in Keys : SetVariable(l, y)
  BY <1>2 DEF DotenvStep, ReadDotenv, SourceFails, LookAtEnviron, DotenvReturns
<1>4. y = x /\ env'[x] = parsed[l]
  BY <1>3 DEF SetVariable, TypeInv, TypeOK
<1> QED
  BY <1>3, <1>4 DEF SetVariable, DotenvInv

\* A variable that is set stays set.
LEMMA EnvStaysSet ==
  ASSUME TypeInv, DotenvInv, [Next]_vars, NEW x \in Keys, env[x] # Absent
  PROVE  env'[x] # Absent
BY EnvStep

LEMMA CleanInvNext == TypeInv /\ CleanInv /\ [Next]_vars => CleanInv'
<1> SUFFICES ASSUME TypeInv, CleanInv, [Next]_vars PROVE CleanInv'
  OBVIOUS
<1>0. DOMAIN status = Loads /\ DOMAIN clean = Loads
  BY DEF TypeInv, TypeOK
<1>1. ASSUME NEW l \in Loads, LoadStep(l) PROVE CleanInv'
  <2>1. CASE Begin(l)
    <3>1. \A m \in Loads : clean'[m] = IF m = l THEN \A o \in Loads : Active(o) => clean[o]
                                               ELSE clean[m]
      BY <1>0, <2>1 DEF Begin
    <3>2. \A m \in Loads : Active(m)' => m = l \/ Active(m)
      BY <1>0, <2>1 DEF Begin, Active
    <3> QED
      BY <3>1, <3>2 DEF CleanInv
  <2>2. CASE ~Begin(l)
    <3>1. clean' = clean
      BY <1>1, <2>2, StepKinds DEF DefaultsFail, LoadDefaults, SourceFails, ItemDone,
         EmptyStage, Finish, Within
    <3>2. \A m \in Loads : Active(m)' => Active(m)
      BY <1>0, <1>1, <2>2, StepKinds DEF DefaultsFail, LoadDefaults, SourceFails,
         ItemDone, EmptyStage, Finish, Within, Active
    <3> QED
      BY <3>1, <3>2 DEF CleanInv
  <2> QED
    BY <2>1, <2>2
<1>2. ASSUME NEW it \in Items, Edit(it) PROVE CleanInv'
  BY <1>2 DEF Edit, CleanInv
<1>3. CASE Cancel \/ UNCHANGED vars
  BY <1>3 DEF Cancel, vars, CleanInv, Active
<1> QED
  BY <1>1, <1>2, <1>3 DEF Next

\* What DotenvInv says of one load.
DotenvOf(l) ==
  /\ dotenv[l] # "start" => In(l, "dotenv") /\ parsed[l] \notin {Absent, Original}
  /\ dotenv[l] # "set" => unset[l] = {}
  /\ dotenv[l] # "start" /\ clean[l] =>
       Current(l) \notin bad /\ parsed[l] = Value(Current(l))
  /\ \A x \in unset[l] : /\ x \in defines[Current(l)] /\ env[x] # Original
                         /\ Loads = {l} => env[x] = Absent
  /\ dotenv[l] = "set" =>
       \A x \in defines[Current(l)] \ unset[l] : env[x] # Absent

\* A load that is not moved on stays at its item.
LEMMA SamePlace ==
  ASSUME NEW l, priority' = priority, status'[l] = status[l], stage'[l] = stage[l],
         item'[l] = item[l]
  PROVE  In(l, "dotenv")' = In(l, "dotenv") /\ Current(l)' = Current(l)
BY DEF In, Source, Current

\* A load that is at the start of a file, or at none, has nothing to set.
LEMMA DotenvAtStart ==
  ASSUME NEW l, dotenv'[l] = "start", unset'[l] = {} PROVE DotenvOf(l)'
BY DEF DotenvOf

LEMMA DotenvInvNext == TypeInv /\ StageInv /\ DotenvInv /\ [Next]_vars => DotenvInv'
<1> SUFFICES ASSUME TypeInv, StageInv, DotenvInv, [Next]_vars, NEW o \in Loads
             PROVE  DotenvOf(o)'
  BY DEF DotenvInv, DotenvOf
<1> USE DEF Absent, Original
<1>0. /\ DOMAIN dotenv = Loads /\ DOMAIN parsed = Loads /\ DOMAIN unset = Loads
      /\ unset[o] \subseteq Keys /\ dotenv[o] \in {"start", "read", "set"}
      /\ defines \in [Items -> SUBSET Keys] /\ env \in [Keys -> Values]
      /\ DotenvOf(o)
  BY DEF TypeInv, TypeOK, DotenvInv, DotenvOf
<1>1. ASSUME NEW l \in Loads, LoadStep(l), l # o PROVE DotenvOf(o)'
  <2>1. /\ UNCHANGED <<priority, defines, bad, version>>
        /\ status'[o] = status[o] /\ stage'[o] = stage[o]
        /\ item'[o] = item[o] /\ clean'[o] = clean[o]
        /\ dotenv'[o] = dotenv[o] /\ parsed'[o] = parsed[o] /\ unset'[o] = unset[o]
    BY <1>1, StepShape, DotenvShape
  <2>2. /\ In(o, "dotenv")' = In(o, "dotenv") /\ Current(o)' = Current(o)
        /\ Value(Current(o))' = Value(Current(o))
    BY <2>1, SamePlace DEF Value
  <2>3. \A x \in Keys : env[x] # Original => env'[x] # Original
    BY EnvStep
  <2>4. \A x \in Keys : env[x] # Absent => env'[x] # Absent
    BY EnvStaysSet
  <2>5. Loads # {o}
    BY <1>1
  <2>6. dotenv[o] = "set" => defines[Current(o)] \subseteq Keys
    BY <1>0, CurrentItem DEF DotenvOf
  <2> QED
    BY <1>0, <2>1, <2>2, <2>3, <2>4, <2>5, <2>6 DEF DotenvOf
<1>2. CASE LoadStep(o) /\ ~DotenvStep(o)
  <2>1. dotenv'[o] = "start" /\ unset'[o] = {}
    BY <1>0, <1>2, OtherSteps DEF dotenvVars, DotenvOf
  <2> QED
    BY <2>1, DotenvAtStart
<1>3. CASE ReadDotenv(o)
  <2>1. dotenv[o] = "start" /\ unset[o] = {} /\ In(o, "dotenv")
    BY <1>0, <1>3 DEF ReadDotenv, DotenvOf
  <2>2. CASE UNCHANGED dotenvVars
    BY <2>1, <2>2, DotenvAtStart DEF dotenvVars
  <2>3. CASE ~ UNCHANGED dotenvVars
    <3>1. /\ dotenv'[o] = "read" /\ parsed'[o] = Value(Current(o)) /\ unset'[o] = {}
          /\ UNCHANGED <<priority, status, stage, item, bad, version>>
          /\ Current(o) \in Items \ bad
      BY <1>0, <1>3, <2>1, <2>3, CurrentItem
         DEF ReadDotenv, SourceFails, dotenvVars, optVars, contentVars
    <3>2. /\ In(o, "dotenv")' /\ Current(o)' = Current(o)
          /\ Value(Current(o))' = Value(Current(o))
      BY <2>1, <3>1, SamePlace DEF Value
    <3>3. Value(Current(o)) \notin {Absent, Original}
      BY <3>1, ValueIsNew
    <3> QED
      BY <3>1, <3>2, <3>3 DEF DotenvOf
  <2> QED
    BY <2>2, <2>3
<1>4. CASE LookAtEnviron(o)
  <2>1. /\ In(o, "dotenv") /\ dotenv[o] = "read"
        /\ dotenv'[o] = "set" /\ parsed'[o] = parsed[o] /\ unset'[o] = Unset(o)
        /\ UNCHANGED <<priority, status, stage, item, bad, version, defines, env, clean>>
    BY <1>0, <1>4 DEF LookAtEnviron, optVars, contentVars
  <2>2. /\ In(o, "dotenv")' /\ Current(o)' = Current(o)
        /\ Value(Current(o))' = Value(Current(o))
    BY <2>1, SamePlace DEF Value
  <2>3. \A x \in Unset(o) : x \in defines[Current(o)] /\ env[x] = Absent
    BY DEF Unset
  <2>4. \A x \in defines[Current(o)] \ Unset(o) : env[x] # Absent
    BY DEF Unset
  <2> QED
    BY <1>0, <2>1, <2>2, <2>3, <2>4 DEF DotenvOf
<1>5. ASSUME NEW y \in Keys, SetVariable(o, y) PROVE DotenvOf(o)'
  <2>1. /\ In(o, "dotenv") /\ dotenv[o] = "set" /\ y \in unset[o]
        /\ dotenv'[o] = "set" /\ parsed'[o] = parsed[o] /\ unset'[o] = unset[o] \ {y}
        /\ UNCHANGED <<priority, status, stage, item, bad, version, defines, clean>>
        /\ env' = [env EXCEPT ![y] = parsed[o]]
    BY <1>0, <1>5 DEF SetVariable, optVars, contentVars, DotenvOf
  <2>2. /\ In(o, "dotenv")' /\ Current(o)' = Current(o)
        /\ Value(Current(o))' = Value(Current(o))
    BY <2>1, SamePlace DEF Value
  <2>3. defines[Current(o)] \subseteq Keys
    BY <1>0, <2>1, CurrentItem
  <2>4. \A x \in Keys : env'[x] = IF x = y THEN parsed[o] ELSE env[x]
    BY <1>0, <2>1
  <2> QED
    BY <1>0, <2>1, <2>2, <2>3, <2>4 DEF DotenvOf
<1>6. CASE DotenvReturns(o)
  <2>1. dotenv'[o] = "start" /\ unset'[o] = {}
    BY <1>0, <1>6 DEF DotenvReturns
  <2> QED
    BY <2>1, DotenvAtStart
<1>7. ASSUME NEW it \in Items, Edit(it) PROVE DotenvOf(o)'
  <2>1. /\ UNCHANGED <<priority, status, stage, item, defines, env, dotenv, parsed, unset>>
        /\ clean'[o] = FALSE
    BY <1>7 DEF Edit, optVars, dotenvVars
  <2>2. In(o, "dotenv")' = In(o, "dotenv") /\ Current(o)' = Current(o)
    BY <2>1, SamePlace
  <2> QED
    BY <1>0, <2>1, <2>2 DEF DotenvOf
<1>8. CASE Cancel \/ UNCHANGED vars
  <2>1. UNCHANGED <<priority, status, stage, item, defines, bad, version, env, clean,
                    dotenv, parsed, unset>>
    BY <1>8 DEF Cancel, vars, optVars, contentVars, dotenvVars
  <2>2. /\ In(o, "dotenv")' = In(o, "dotenv") /\ Current(o)' = Current(o)
        /\ Value(Current(o))' = Value(Current(o))
    BY <2>1, SamePlace DEF Value
  <2> QED
    BY <1>0, <2>1, <2>2 DEF DotenvOf
<1> QED
  BY <1>1, <1>2, <1>3, <1>4, <1>5, <1>6, <1>7, <1>8 DEF Next, DotenvStep

LEMMA WithinInvariant == Spec => [](DotenvInv /\ CleanInv)
<1>1. Init => DotenvInv /\ CleanInv
  BY DEF Init, DotenvInv, CleanInv
<1> QED
  BY <1>1, DotenvInvNext, CleanInvNext, TypeInvariant, StageInvariant, PTL DEF Spec

\* A load leaves a variable set for each key of a good dotenv file it met.
MetInv == \A l \in Loads : Loading(l) =>
            \A x \in Keys : \A d \in GoodDotenv(x) : Met(l, d) => env[x] # Absent

LEMMA MetInvNext ==
  TypeInv /\ StageInv /\ DotenvInv /\ MetInv /\ [Next]_vars => MetInv'
<1> SUFFICES ASSUME TypeInv, StageInv, DotenvInv, MetInv, [Next]_vars,
                    NEW o \in Loads, Loading(o)', NEW x \in Keys,
                    NEW d \in GoodDotenv(x)', Met(o, d)'
             PROVE  env'[x] # Absent
  BY DEF MetInv
<1>1. d \in Items /\ d[1] = "dotenv"
  BY DEF GoodDotenv
<1>2. ASSUME env[x] # Absent PROVE env'[x] # Absent
  BY <1>2, EnvStaysSet
<1>3. ASSUME NEW l \in Loads, LoadStep(l) PROVE env'[x] # Absent
  <2>1. /\ UNCHANGED <<priority, defines, bad, version, edits>>
        /\ o # l => /\ status'[o] = status[o] /\ stage'[o] = stage[o]
                    /\ item'[o] = item[o] /\ clean'[o] = clean[o]
    BY <1>3, StepShape
  <2>2. d \in GoodDotenv(x)
    BY <2>1 DEF GoodDotenv
  <2>3. CASE o # l
    <3>1. Loading(o) /\ Met(o, d)
      BY <2>1, <2>3 DEF Loading, Met
    <3> QED
      BY <1>2, <2>2, <3>1 DEF MetInv
  <2>4. CASE o = l /\ LoadDefaults(l)
    <3>1. stage'[l] = 1 /\ item'[l] = 1 /\ priority \in Seq(Sources)
      BY <2>4, PriorityAssumption DEF LoadDefaults, StageInv, TypeInv, TypeOK
    <3>2. d[2] \in Nat \ {0}
      BY <1>1, ItemIndex DEF AnyItems
    <3> QED
      BY <2>4, <3>1, <3>2 DEF Met
  <2>5. CASE o = l /\ ~LoadDefaults(l)
    <3>1. Loading(l) /\ (Met(l, d) \/ Merging(l, d))
      BY <1>1, <1>3, <2>5, LoadProgress DEF AnyItems
    <3>2. CASE Met(l, d)
      BY <1>2, <2>2, <3>1, <3>2 DEF MetInv
    <3>3. CASE Merging(l, d)
      <4>1. In(l, "dotenv") /\ d = Current(l)
        BY <1>1, <3>3 DEF Merging
      <4>2. status'[l] \in {"sources", "ok"} /\ DOMAIN status = Loads
        <5>1. status'[l] \in {"sources", "ok"}
          BY <2>5 DEF Loading
        <5> QED
          BY <5>1 DEF TypeInv, TypeOK
      <4>3. DotenvStep(l)
        BY <1>3, <4>1, ItemAction DEF Sources
      <4>4. /\ ~SourceFails(l, "dotenv") /\ d \notin bad
            /\ item' # item \/ stage' # stage
        BY <2>2, <3>3, <4>1, <4>2, ItemMoves DEF SourceFails, GoodDotenv, Merging, In
      <4>5. DotenvReturns(l)
        BY <4>1, <4>3, <4>4
           DEF DotenvStep, ReadDotenv, LookAtEnviron, SetVariable
      <4>6. dotenv[l] = "set" /\ unset[l] = {} /\ x \in defines[Current(l)]
        BY <2>2, <4>1, <4>5 DEF DotenvReturns, GoodDotenv
      <4> QED
        BY <1>2, <4>6 DEF DotenvInv
    <3> QED
      BY <3>1, <3>2, <3>3
  <2> QED
    BY <2>3, <2>4, <2>5
<1>4. ASSUME NEW it \in Items, Edit(it) PROVE FALSE
  BY <1>4 DEF Edit, Loading
<1>5. CASE Cancel \/ UNCHANGED vars
  <2>1. UNCHANGED <<priority, defines, bad, status, stage, item, clean, env>>
    BY <1>5 DEF Cancel, vars, optVars, contentVars
  <2>2. d \in GoodDotenv(x) /\ Loading(o) /\ Met(o, d)
    BY <2>1 DEF GoodDotenv, Loading, Met
  <2> QED
    BY <2>1, <2>2 DEF MetInv
<1> QED
  BY <1>3, <1>4, <1>5 DEF Next

\* What a load has yet to set is unset, or set to the same value: no other good
\* file that defines it is behind the load.
UnsetInv == \A l \in Loads : clean[l] => \A x \in unset[l] :
  env[x] \in {Absent, parsed[l]} /\ \A d \in GoodDotenv(x) : ~Met(l, d)

\* Two loads that have yet to set a variable set it from the same file.
LEMMA SameValue ==
  ASSUME TypeInv, DotenvInv, UnsetInv, NEW l \in Loads, NEW m \in Loads,
         clean[l], clean[m], NEW x \in Keys, x \in unset[l], x \in unset[m]
  PROVE  parsed[l] = parsed[m]
<1>1. \A o \in {l, m} :
        /\ In(o, "dotenv") /\ Current(o) = <<"dotenv", item[o]>>
        /\ Current(o) \in GoodDotenv(x) /\ parsed[o] = Value(Current(o))
        /\ stage[o] \in 1..Len(priority) /\ priority[stage[o]] = "dotenv"
        /\ item[o] \in Nat
  <2> SUFFICES ASSUME NEW o \in {l, m}
               PROVE  /\ In(o, "dotenv") /\ Current(o) = <<"dotenv", item[o]>>
                      /\ Current(o) \in GoodDotenv(x) /\ parsed[o] = Value(Current(o))
                      /\ stage[o] \in 1..Len(priority) /\ priority[stage[o]] = "dotenv"
                      /\ item[o] \in Nat
    OBVIOUS
  <2>1. o \in Loads /\ clean[o] /\ x \in unset[o]
    OBVIOUS
  <2>2. /\ dotenv[o] = "set" /\ In(o, "dotenv") /\ x \in defines[Current(o)]
        /\ Current(o) \notin bad /\ parsed[o] = Value(Current(o))
    BY <2>1 DEF DotenvInv
  <2>3. Current(o) = <<"dotenv", item[o]>> /\ Current(o) \in Items
    BY <2>1, <2>2, CurrentItem
  <2>4. /\ stage[o] \in 1..Len(priority) /\ priority[stage[o]] = "dotenv"
        /\ item[o] \in Nat
    BY <2>1, <2>2, PriorityAssumption DEF In, Source, TypeInv, TypeOK
  <2> QED
    BY <2>2, <2>3, <2>4 DEF GoodDotenv
<1>2. ~Met(m, Current(l)) /\ ~Met(l, Current(m))
  BY <1>1 DEF UnsetInv
<1>3. ~ item[l] < item[m] /\ ~ item[m] < item[l]
  BY <1>1, <1>2 DEF Met
<1> QED
  BY <1>1, <1>3

LEMMA UnsetInvNext ==
  TypeInv /\ StageInv /\ DotenvInv /\ CleanInv /\ MetInv /\ UnsetInv /\ [Next]_vars
    => UnsetInv'
<1> SUFFICES ASSUME TypeInv, StageInv, DotenvInv, CleanInv, MetInv, UnsetInv, [Next]_vars,
                    NEW o \in Loads, clean'[o], NEW x \in unset'[o]
             PROVE  /\ env'[x] \in {Absent, parsed'[o]}
                    /\ \A d \in GoodDotenv(x)' : ~Met(o, d)'
  BY DEF UnsetInv, Absent
<1>0. /\ DOMAIN dotenv = Loads /\ DOMAIN parsed = Loads /\ DOMAIN unset = Loads
      /\ env \in [Keys -> Values] /\ unset[o] \subseteq Keys
  BY DEF TypeInv, TypeOK
<1>1. /\ UNCHANGED <<priority, defines, bad, version>>
      /\ GoodDotenv(x)' = GoodDotenv(x)
  <2>1. ASSUME NEW it \in Items, Edit(it) PROVE FALSE
    BY <2>1 DEF Edit
  <2>2. UNCHANGED <<priority, defines, bad, version>>
    BY <2>1, StepShape DEF Next, Cancel, vars, optVars, contentVars
  <2> QED
    BY <2>2 DEF GoodDotenv
<1>2. ASSUME clean[o], x \in unset[o], parsed'[o] = parsed[o], stage'[o] = stage[o],
             item'[o] = item[o], env'[x] \in {env[x], parsed[o]}
      PROVE  /\ env'[x] \in {Absent, parsed'[o]}
             /\ \A d \in GoodDotenv(x)' : ~Met(o, d)'
  BY <1>1, <1>2 DEF UnsetInv, Met
<1>3. ASSUME NEW l \in Loads, LoadStep(l), l # o
      PROVE  /\ env'[x] \in {Absent, parsed'[o]}
             /\ \A d \in GoodDotenv(x)' : ~Met(o, d)'
  <2>1. /\ clean[o] /\ x \in unset[o] /\ parsed'[o] = parsed[o]
        /\ stage'[o] = stage[o] /\ item'[o] = item[o] /\ x \in Keys
    BY <1>0, <1>3, StepShape, DotenvShape
  <2>2. ASSUME env'[x] # env[x] PROVE env'[x] = parsed[o]
    <3>1. PICK m \in Loads : x \in unset[m] /\ env'[x] = parsed[m] /\ In(m, "dotenv")
      BY <2>1, <2>2, EnvStep
    <3>2. clean[m]
      BY <2>1, <3>1 DEF CleanInv, Active, In
    <3> QED
      BY <2>1, <3>1, <3>2, SameValue
  <2> QED
    BY <1>2, <2>1, <2>2
<1>4. CASE LoadStep(o) /\ ~DotenvStep(o)
  BY <1>4, OtherSteps DEF DotenvInv, dotenvVars
<1>5. CASE ReadDotenv(o)
  <2>1. unset'[o] = unset[o] /\ dotenv[o] = "start"
    BY <1>5 DEF ReadDotenv, SourceFails, dotenvVars
  <2> QED
    BY <2>1 DEF DotenvInv
<1>6. CASE LookAtEnviron(o)
  <2>1. /\ unset'[o] = Unset(o) /\ env' = env /\ In(o, "dotenv") /\ clean[o]
        /\ stage'[o] = stage[o] /\ item'[o] = item[o]
    BY <1>0, <1>6 DEF LookAtEnviron
  <2>2. env[x] = Absent /\ x \in Keys
    BY <1>0, <2>1, CurrentItem DEF Unset, TypeInv, TypeOK
  <2>3. Loading(o)
    BY <2>1 DEF Loading, In
  <2> QED
    BY <1>1, <2>1, <2>2, <2>3 DEF MetInv, Met
<1>7. ASSUME NEW y \in Keys, SetVariable(o, y)
      PROVE  /\ env'[x] \in {Absent, parsed'[o]}
             /\ \A d \in GoodDotenv(x)' : ~Met(o, d)'
  BY <1>0, <1>2, <1>7 DEF SetVariable
<1>8. CASE DotenvReturns(o)
  BY <1>8 DEF DotenvReturns
<1>9. CASE Cancel \/ UNCHANGED vars
  BY <1>2, <1>9 DEF Cancel, vars, dotenvVars
<1>10. ASSUME NEW it \in Items, Edit(it) PROVE FALSE
  BY <1>10 DEF Edit
<1> QED
  BY <1>3, <1>4, <1>5, <1>6, <1>7, <1>8, <1>9, <1>10 DEF Next, DotenvStep

\* While some load is clean, a variable changes only when it is unset, and to
\* the present value of a good dotenv file.
LEMMA EnvFilled ==
  ASSUME TypeInv, DotenvInv, CleanInv, UnsetInv, [Next]_vars, NEW x \in Keys,
         env'[x] # env[x], NEW o \in Loads, clean[o]
  PROVE  \E l \in Loads :
           /\ In(l, "dotenv") /\ clean[l] /\ Current(l) \in Items \ bad
           /\ x \in defines[Current(l)] /\ env[x] = Absent
           /\ env'[x] = Value(Current(l))
<1>1. PICK l \in Loads : /\ x \in unset[l] /\ env'[x] = parsed[l]
                         /\ In(l, "dotenv") /\ dotenv[l] = "set"
  BY EnvStep
<1>2. clean[l]
  BY <1>1 DEF CleanInv, Active, In
<1>3. env[x] = Absent
  BY <1>1, <1>2 DEF UnsetInv
<1>4. /\ Current(l) \in Items \ bad /\ x \in defines[Current(l)]
      /\ parsed[l] = Value(Current(l))
  BY <1>1, <1>2, CurrentItem DEF DotenvInv
<1> QED
  BY <1>1, <1>2, <1>3, <1>4

\* With nothing edited, a variable the loads set has the value of the first file.
FirstInv ==
  \A x \in Keys : edits = 0 /\ env[x] \notin {Absent, Original} =>
    \E d \in GoodDotenv(x) : /\ Place("dotenv") > 0 /\ env[x] = Value(d)
                             /\ \A o \in GoodDotenv(x) : d[2] <= o[2]

LEMMA FirstInvNext ==
  TypeInv /\ StageInv /\ DotenvInv /\ CleanInv /\ MetInv /\ UnsetInv /\ FirstInv
    /\ [Next]_vars => FirstInv'
<1> SUFFICES ASSUME TypeInv, StageInv, DotenvInv, CleanInv, MetInv, UnsetInv, FirstInv,
                    [Next]_vars,
                    NEW x \in Keys, edits' = 0, env'[x] \notin {Absent, Original}
             PROVE  \E d \in GoodDotenv(x)' :
                      /\ Place("dotenv")' > 0 /\ env'[x] = Value(d)'
                      /\ \A o \in GoodDotenv(x)' : d[2] <= o[2]
  BY DEF FirstInv, Absent, Original
<1>1. UNCHANGED <<priority, defines, bad, version, edits>>
  <2>1. ASSUME NEW it \in Items, Edit(it) PROVE FALSE
    BY <2>1 DEF Edit, TypeInv, TypeOK
  <2> QED
    BY <2>1, StepShape DEF Next, Cancel, vars, optVars, contentVars
<1>2. /\ GoodDotenv(x)' = GoodDotenv(x) /\ Place("dotenv")' = Place("dotenv")
      /\ \A d \in Items : Value(d)' = Value(d)
  BY <1>1 DEF GoodDotenv, Place, Value
<1>3. CASE env'[x] = env[x]
  <2>1. PICK d \in GoodDotenv(x) : /\ Place("dotenv") > 0 /\ env[x] = Value(d)
                                   /\ \A o \in GoodDotenv(x) : d[2] <= o[2]
    BY <1>1, <1>3 DEF FirstInv
  <2>2. Value(d)' = Value(d)
    BY <1>2 DEF GoodDotenv
  <2> QED
    BY <1>2, <1>3, <2>1, <2>2
<1>4. CASE env'[x] # env[x]
  <2>0. PICK m \in Loads : In(m, "dotenv")
    BY <1>4, EnvStep
  <2>7. clean[m]
    BY <1>1, <2>0 DEF In, StageInv
  <2>1. PICK l \in Loads : /\ In(l, "dotenv") /\ Current(l) \in Items \ bad
                           /\ x \in defines[Current(l)] /\ env[x] = Absent
                           /\ env'[x] = Value(Current(l))
    BY <1>4, <2>7, EnvFilled
  <2>2. /\ priority \in Seq(Sources) /\ stage[l] \in 1..Len(priority)
        /\ item[l] \in Nat /\ priority[stage[l]] = "dotenv"
        /\ Current(l) = <<"dotenv", item[l]>>
    BY <2>1, PriorityAssumption DEF TypeInv, TypeOK, In, Source, Current
  <2>3. Place("dotenv") > 0
    BY <2>2, PlaceLemma
  <2>4. Current(l) \in GoodDotenv(x)
    BY <2>1, <2>2 DEF GoodDotenv
  <2>5. Loading(l)
    BY <1>1, <2>1 DEF In, Loading, StageInv
  <2>6. ASSUME NEW o \in GoodDotenv(x) PROVE item[l] <= o[2]
    <3>1. o[1] = "dotenv" /\ o[2] \in Nat
      BY ItemIndex DEF GoodDotenv, AnyItems
    <3>2. ~Met(l, o)
      BY <2>1, <2>5 DEF MetInv
    <3> QED
      BY <2>2, <3>1, <3>2 DEF Met
  <2>8. \E d \in GoodDotenv(x) : /\ env'[x] = Value(d)
                                 /\ \A o \in GoodDotenv(x) : d[2] <= o[2]
    BY <2>1, <2>2, <2>4, <2>6
  <2>9. PICK d \in GoodDotenv(x) : /\ env'[x] = Value(d)
                                   /\ \A o \in GoodDotenv(x) : d[2] <= o[2]
    BY <2>8
  <2>10. Value(d)' = Value(d)
    BY <1>2 DEF GoodDotenv
  <2> QED
    BY <1>2, <2>3, <2>9, <2>10
<1> QED
  BY <1>3, <1>4

LEMMA DotenvInvariant == Spec => [](MetInv /\ UnsetInv /\ FirstInv)
<1>1. Init => MetInv /\ UnsetInv /\ FirstInv
  <2> SUFFICES ASSUME Init PROVE MetInv /\ UnsetInv /\ FirstInv
    OBVIOUS
  <2>1. MetInv
    BY DEF Init, MetInv, Loading
  <2>2. FirstInv
    BY DEF Init, FirstInv
  <2>3. UnsetInv
    BY DEF Init, UnsetInv
  <2> QED
    BY <2>1, <2>2, <2>3
<1> QED
  BY <1>1, MetInvNext, UnsetInvNext, FirstInvNext, TypeInvariant, StageInvariant,
     WithinInvariant, PTL DEF Spec

\* A variable that is set is never removed.  It is replaced only if it came from
\* a dotenv file, beside the load that set it, by one that found it unset and
\* began, or runs beside one that began, before an edit.
THEOREM LoaderKeepsEnv == Spec => EnvNotClobbered
<1>1. TypeInv /\ DotenvInv /\ UnsetInv /\ [Next]_vars
        => [\A x \in Keys : env[x] # Absent =>
              \/ env'[x] = env[x]
              \/ /\ env[x] # Original
                 /\ \E l \in Loads : /\ x \in unset[l] /\ ~clean[l] /\ Loads # {l}
                                    /\ parsed[l] # Absent /\ env'[x] = parsed[l]]_env
  <2> SUFFICES ASSUME TypeInv, DotenvInv, UnsetInv, [Next]_vars, NEW x \in Keys,
                      env[x] # Absent, env'[x] # env[x]
               PROVE  /\ env[x] # Original
                      /\ \E l \in Loads : /\ x \in unset[l] /\ ~clean[l] /\ Loads # {l}
                                         /\ parsed[l] # Absent /\ env'[x] = parsed[l]
    OBVIOUS
  <2>1. PICK l \in Loads : x \in unset[l] /\ env'[x] = parsed[l] /\ parsed[l] # Absent
    BY EnvStep
  <2>2. env[x] # Original /\ Loads # {l}
    BY <2>1 DEF DotenvInv
  <2>3. ~clean[l]
    BY <2>1 DEF UnsetInv
  <2> QED
    BY <2>1, <2>2, <2>3
<1> QED
  BY <1>1, TypeInvariant, WithinInvariant, DotenvInvariant, PTL DEF Spec, EnvNotClobbered

\* When a load has returned a config and nothing was edited since it began, the
\* environment has a value for every key of a good dotenv file; if nothing was
\* ever edited, that of the first file to define it.
THEOREM LoaderFillsGaps == Spec => []DotenvFillsGaps
<1>1. TypeInv /\ StageInv /\ MetInv /\ FirstInv => DotenvFillsGaps
  <2> SUFFICES ASSUME TypeInv, StageInv, MetInv, FirstInv, NEW l \in Loads, NEW x \in Keys,
                      Loaded(l), Enabled("dotenv")
               PROVE  LET D == {it \in Defining(x) : it[1] = "dotenv"} IN
                      /\ D # {} => env[x] # Absent
                      /\ edits = 0 /\ env[x] # Original =>
                           env[x] = IF D = {} THEN Absent
                                    ELSE Value(CHOOSE d \in D : \A o \in D : d[2] <= o[2])
    BY DEF DotenvFillsGaps
  <2> DEFINE D == {it \in Defining(x) : it[1] = "dotenv"}
  <2>1. D = GoodDotenv(x)
    BY DEF Defining, GoodDotenv
  <2>2. Loading(l) /\ stage[l] > Len(priority)
    BY DEF Loaded, Loading, StageInv
  <2>3. \A d \in D : Met(l, d)
    <3>1. /\ priority \in Seq(Sources) /\ Place("dotenv") \in 1..Len(priority)
          /\ priority[Place("dotenv")] = "dotenv" /\ stage[l] \in Nat
      BY PriorityAssumption, PlaceLemma DEF TypeInv, TypeOK, Enabled
    <3> QED
      BY <2>2, <3>1 DEF Met
  <2>4. D # {} => env[x] # Absent
    BY <2>1, <2>2, <2>3 DEF MetInv
  <2>5. ASSUME edits = 0, env[x] # Original
        PROVE  env[x] = IF D = {} THEN Absent
                        ELSE Value(CHOOSE d \in D : \A o \in D : d[2] <= o[2])
    <3>1. CASE env[x] = Absent
      BY <2>4, <3>1
    <3>2. CASE env[x] # Absent
      <4>1. PICK d \in D : env[x] = Value(d) /\ \A o \in D : d[2] <= o[2]
        BY <2>1, <2>5, <3>2 DEF FirstInv
      <4> DEFINE c == CHOOSE c \in D : \A o \in D : c[2] <= o[2]
      <4>2. c \in D /\ \A o \in D : c[2] <= o[2]
        BY <4>1
      <4>3. \A o \in D : o = <<"dotenv", o[2]>> /\ o[2] \in Nat
        BY ItemIndex DEF Defining, AnyItems
      <4> HIDE DEF c
      <4>4. c = d
        <5>1. c[2] <= d[2] /\ d[2] <= c[2]
          BY <4>1, <4>2
        <5>2. c[2] = d[2]
          BY <4>1, <4>2, <4>3, <5>1
        <5> QED
          BY <4>1, <4>2, <4>3, <5>2
      <4> QED
        BY <4>1, <4>4 DEF c
    <3> QED
      BY <3>1, <3>2
  <2> QED
    BY <2>4, <2>5
<1> QED
  BY <1>1, TypeInvariant, StageInvariant, DotenvInvariant, PTL
-----------------------------------------------------------------------------
(* The last of the sources wins.                                             *)

\* The items key x can get its value from, and the value each gives.
Givers(x) ==
  {it \in Defining(x) : it[1] # "dotenv"} \cup
  (IF Enabled("env") /\ env[x] # Absent THEN {EnvItem} ELSE {})
Given(w, x) == IF w[1] = "env" THEN env[x] ELSE Value(w)

\* Of the items that load l has behind it, key x has the value of the last.  An
\* item of a source that is listed again may count already before its last turn.
Merged(l, x) ==
  \/ k[l][x] = Absent /\ \A it \in Givers(x) : ~Past(l, it)
  \/ \E w \in Givers(x) : /\ k[l][x] = Given(w, x)
                          /\ \A it \in Givers(x) : Past(l, it) => ~Before(w, it)

DotenvFirst == Enabled("dotenv") /\ Enabled("env") => Place("dotenv") < Place("env")
MergedInv   == DotenvFirst => \A l \in Loads : Loading(l) => \A x \in Keys : Merged(l, x)

LEMMA GiversLemma ==
  ASSUME TypeInv, NEW x \in Keys, NEW it \in AnyItems
  PROVE  it \in Givers(x) <=>
           IF it = EnvItem THEN Enabled("env") /\ env[x] # Absent
           ELSE /\ it \in Items /\ it[1] \notin {"dotenv", "env"}
                /\ Enabled(it[1]) /\ it \notin bad /\ x \in defines[it]
<1>1. \A i \in Items : i[1] # "env"
  BY DEF Items
<1> QED
  BY <1>1 DEF Givers, Defining, AnyItems, EnvItem

LEMMA GiversAreItems == ASSUME NEW x PROVE Givers(x) \subseteq AnyItems
BY DEF Givers, Defining, AnyItems

\* A step that gives a load's key nothing new keeps what is known of the key,
\* even when another load sets a variable of the environment: a load that has
\* the environment behind it has met the dotenv files, so it was set before.
LEMMA MergedKept ==
  ASSUME TypeInv, DotenvInv, CleanInv, MetInv, UnsetInv, DotenvFirst, [Next]_vars,
         UNCHANGED <<priority, defines, bad, version>>,
         NEW o \in Loads, Loading(o), NEW x \in Keys, Merged(o, x),
         k'[o][x] = k[o][x], \A it \in Givers(x)' : Past(o, it)' => Past(o, it)
  PROVE  Merged(o, x)'
<1>1. /\ \A src : Place(src)' = Place(src)
      /\ \A it \in Items : Value(it)' = Value(it)
  BY DEF Place, Value
<1>2. /\ Enabled("env")' = Enabled("env")
      /\ {it \in Defining(x) : it[1] # "dotenv"}' = {it \in Defining(x) : it[1] # "dotenv"}
  BY <1>1 DEF Enabled, Defining
<1>3. \A a, b : Before(a, b)' = Before(a, b)
  BY <1>1 DEF Before
<1>4. CASE env'[x] = env[x]
  <2>1. Givers(x)' = Givers(x)
    BY <1>2, <1>4 DEF Givers, Absent
  <2>2. \A w \in Givers(x) : Given(w, x)' = Given(w, x)
    BY <1>1, <1>4 DEF Givers, Given, Defining, EnvItem
  <2> QED
    BY <1>3, <2>1, <2>2 DEF Merged, Absent
<1>5. CASE env'[x] # env[x]
  <2>1. PICK l \in Loads : /\ In(l, "dotenv") /\ Current(l) \in Items \ bad
                           /\ x \in defines[Current(l)] /\ env[x] = Absent
    BY <1>5, EnvFilled DEF Loading
  <2>2. /\ priority \in Seq(Sources) /\ stage[l] \in 1..Len(priority)
        /\ priority[stage[l]] = "dotenv" /\ Current(l)[1] = "dotenv"
        /\ stage[o] \in Nat
    BY <2>1, PriorityAssumption DEF TypeInv, TypeOK, In, Source, Current
  <2>3. /\ Place("dotenv") \in 1..Len(priority)
        /\ priority[Place("dotenv")] = "dotenv"
    BY <2>2, PlaceLemma
  <2>4. ~Met(o, Current(l))
    <3>1. Current(l) \in GoodDotenv(x)
      BY <2>1, <2>2 DEF GoodDotenv
    <3> QED
      BY <2>1, <3>1 DEF MetInv
  <2>5. ~ (Enabled("env") /\ Past(o, EnvItem))
    <3> SUFFICES ASSUME Enabled("env"), Past(o, EnvItem) PROVE FALSE
      OBVIOUS
    <3>1. Place("dotenv") < Place("env")
      BY <2>3 DEF DotenvFirst, Enabled
    <3>2. Place("env") \in Nat /\ Place("env") <= stage[o]
      BY <2>2, PlaceLemma DEF Past, EnvItem
    <3>3. Place("dotenv") < stage[o]
      BY <2>2, <2>3, <3>1, <3>2
    <3> QED
      BY <2>2, <2>3, <2>4, <3>3 DEF Met
  <2>6. /\ Givers(x) = {it \in Defining(x) : it[1] # "dotenv"}
        /\ Givers(x) \subseteq Givers(x)'
        /\ Givers(x)' \subseteq Givers(x) \cup {EnvItem}
    BY <1>2, <2>1 DEF Givers
  <2>7. EnvItem \in Givers(x)' => Enabled("env") \/ EnvItem \in Givers(x)
    BY <1>2, <2>6 DEF Givers
  <2>8. \A it \in Givers(x) : it \in Items /\ it[1] # "env"
    BY <2>6 DEF Defining, Items
  <2>9. \A w \in Givers(x) : Given(w, x)' = Given(w, x)
    BY <1>1, <2>8 DEF Given
  <2>10. \A it \in Givers(x)' : Past(o, it)' => it \in Givers(x) /\ Past(o, it)
    BY <2>5, <2>6, <2>7
  <2> QED
    BY <1>3, <2>6, <2>9, <2>10 DEF Merged, Absent
<1> QED
  BY <1>4, <1>5

\* Merging the item that a load is at makes it the last one behind the load.
LEMMA MergedItem ==
  ASSUME TypeInv, NEW o \in Loads, NEW x \in Keys, NEW it \in AnyItems,
         Merging(o, it), UNCHANGED <<priority, defines, bad, version, env>>,
         it \in Givers(x), k'[o][x] = Given(it, x),
         \A i \in Givers(x) : Past(o, i)' => Past(o, i) \/ i = it
  PROVE  Merged(o, x)'
<1>1. /\ \A src : Place(src)' = Place(src)
      /\ \A i : Value(i)' = Value(i)
  BY DEF Place, Value
<1>2. Givers(x)' = Givers(x)
  BY <1>1 DEF Givers, Defining, Enabled, Absent
<1>3. Given(it, x)' = Given(it, x)
  BY <1>1 DEF Given
<1>4. /\ priority \in Seq(Sources) /\ stage[o] \in 1..Len(priority) /\ item[o] \in Nat
      /\ priority[stage[o]] = it[1] /\ it[2] = item[o]
  BY PriorityAssumption DEF TypeInv, TypeOK, Merging, In, Source, Current
<1>5. Place(it[1]) \in Nat /\ stage[o] <= Place(it[1]) /\ stage[o] \in Nat
  BY <1>4, PlaceLemma
<1>6. \A i \in Givers(x) : Past(o, i) => ~Before(it, i)
  <2> SUFFICES ASSUME NEW i \in Givers(x), Past(o, i), Before(it, i) PROVE FALSE
    OBVIOUS
  <2>1. Place(i[1]) \in Nat /\ i[2] \in Nat
    BY <1>4, PlaceLemma, GiversAreItems, ItemIndex
  <2> QED
    BY <1>4, <1>5, <2>1 DEF Past, Before
<1>7. ~Before(it, it)
  BY <1>4, <1>5 DEF Before
<1>8. \A a, b : Before(a, b)' = Before(a, b)
  BY <1>1 DEF Before
<1> QED
  BY <1>2, <1>3, <1>6, <1>7, <1>8 DEF Merged

\* What merging an item into a config gives a key.
LEMMA MergeGives ==
  ASSUME NEW b \in [Keys -> Values], NEW it, NEW x \in Keys
  PROVE  Merge(b, it)[x] = IF x \in defines[it] THEN Value(it) ELSE b[x]
BY DEF Merge

\* The defaults are all that a load has behind it when it turns to its sources.
LEMMA MergedDefaults ==
  ASSUME TypeInv, StageInv, NEW o \in Loads, LoadDefaults(o), NEW x \in Keys
  PROVE  Merged(o, x)'
<1> DEFINE d1 == <<"defaults", 1>>
           d2 == <<"defaults", 2>>
<1>1. /\ UNCHANGED <<priority, defines, bad, version, env>>
      /\ stage'[o] = 1 /\ item'[o] = 1 /\ k[o] = [y \in Keys |-> Absent]
      /\ k' = [k EXCEPT ![o] = Merge(Merge(k[o], d1), d2)]
      /\ d1 \notin bad /\ d2 \notin bad
  BY DEF LoadDefaults, StageInv, optVars, contentVars
<1>2. /\ priority \in Seq(Sources) /\ DOMAIN k = Loads /\ d1 \in Items /\ d2 \in Items
      /\ k[o] \in [Keys -> Values]
  BY PriorityAssumption DEF TypeInv, TypeOK, Items
<1>3. k'[o][x] = IF x \in defines[d2] THEN Value(d2)
                 ELSE IF x \in defines[d1] THEN Value(d1) ELSE Absent
  <2>1. Merge(k[o], d1) \in [Keys -> Values]
    BY <1>2, MergeType
  <2>2. k'[o][x] = Merge(Merge(k[o], d1), d2)[x]
    BY <1>1, <1>2
  <2> QED
    BY <1>1, <1>2, <2>1, <2>2, MergeGives
<1>4. Place("defaults") = 0
  BY <1>2, DefaultsPlace
<1>5. \A i \in {d1, d2} : i \in Givers(x) <=> x \in defines[i]
  <2>1. \A i \in {d1, d2} : /\ i \in AnyItems /\ i # EnvItem /\ i[1] = "defaults"
                            /\ i \in Items \ bad
    BY <1>1, <1>2 DEF AnyItems, EnvItem
  <2>2. Enabled("defaults")
    BY DEF Enabled
  <2> QED
    BY <2>1, <2>2, GiversLemma
<1>6. /\ \A src : Place(src)' = Place(src)
      /\ \A i : Value(i)' = Value(i)
  BY <1>1 DEF Place, Value
<1>7. Givers(x)' = Givers(x)
  BY <1>1, <1>6 DEF Givers, Defining, Enabled, Absent
<1>8. \A i \in Givers(x) : Past(o, i)' => i \in {d1, d2}
  <2> SUFFICES ASSUME NEW i \in Givers(x), Past(o, i)' PROVE i \in {d1, d2}
    OBVIOUS
  <2>1. i \in AnyItems /\ Place(i[1]) \in Nat /\ i[2] \in Nat \ {0}
    BY <1>2, PlaceLemma, GiversAreItems, ItemIndex
  <2>2. Place(i[1]) = 0
    BY <1>1, <1>6, <2>1 DEF Past
  <2>3. i[1] = "defaults"
    BY <2>1, <2>2, GiversLemma DEF Enabled, EnvItem
  <2>4. \A j \in AnyItems : j[1] = "defaults" => j \in {d1, d2}
    BY DEF AnyItems, EnvItem, Items
  <2> QED
    BY <2>1, <2>3, <2>4
<1>9. /\ ~Before(d1, d1)' /\ ~Before(d2, d1)' /\ ~Before(d2, d2)'
  BY <1>4, <1>6 DEF Before
<1>10. \A w \in {d1, d2} : Given(w, x)' = Value(w)
  BY <1>6 DEF Given
<1>11. CASE x \in defines[d2]
  BY <1>3, <1>5, <1>7, <1>8, <1>9, <1>10, <1>11 DEF Merged
<1>12. CASE x \notin defines[d2] /\ x \in defines[d1]
  BY <1>3, <1>5, <1>7, <1>8, <1>9, <1>10, <1>12 DEF Merged
<1>13. CASE x \notin defines[d2] /\ x \notin defines[d1]
  BY <1>3, <1>5, <1>7, <1>8, <1>13 DEF Merged, Absent
<1> QED
  BY <1>11, <1>12, <1>13

\* A step of the load itself, with its sources.
LEMMA MergedOwnStep ==
  ASSUME TypeInv, StageInv, DotenvInv, CleanInv, MetInv, UnsetInv, DotenvFirst,
         [Next]_vars, NEW o \in Loads, LoadStep(o), ~LoadDefaults(o), Loading(o)', NEW x \in Keys,
         Loading(o) => Merged(o, x)
  PROVE  Merged(o, x)'
<1>1. /\ UNCHANGED <<priority, defines, bad, version>>
      /\ priority \in Seq(Sources) /\ DOMAIN status = Loads /\ DOMAIN k = Loads
      /\ k[o] \in [Keys -> Values] /\ status'[o] # "failed"
  <2>1. status'[o] # "failed"
    BY DEF Loading
  <2> QED
    BY <2>1, StepShape, PriorityAssumption DEF TypeInv, TypeOK
<1>2. Loading(o) /\ Merged(o, x)
  <2>1. EnvItem \in AnyItems
    BY DEF AnyItems
  <2> QED
    BY <2>1, LoadProgress
<1>3. \A i \in AnyItems : Past(o, i)' => Past(o, i) \/ Merging(o, i)
  BY LoadProgress
<1>4. Givers(x)' \subseteq AnyItems
  BY DEF Givers, Defining, AnyItems
<1>5. ASSUME NEW it \in AnyItems, Merging(o, it) PROVE Merged(o, x)'
  <2>1. /\ it = Current(o) /\ In(o, it[1]) /\ ItemDone(o)
        /\ it[1] \in Sources /\ it = <<it[1], it[2]>> /\ it[2] \in Nat
    <3>1. it[1] # "defaults"
      <4>1. stage[o] <= Len(priority) /\ Source(o) = it[1]
        BY <1>5 DEF Merging, In
      <4>2. Source(o) \in Sources
        BY <4>1, SourceType
      <4> QED
        BY <4>1, <4>2 DEF Sources
    <3> QED
      BY <1>5, <3>1, ItemIndex DEF Merging
  <2>2. Enabled(it[1])
    <3>1. stage[o] \in 1..Len(priority) /\ priority[stage[o]] = it[1]
      BY <1>1, <2>1 DEF In, Source, TypeInv, TypeOK
    <3> QED
      BY <1>1, <3>1, PlaceLemma DEF Enabled
  <2>3. \A i \in AnyItems : Past(o, i)' => Past(o, i) \/ i = it
    BY <1>3, <2>1 DEF Merging
  <2>4. ASSUME NEW src, SourceFails(o, src) PROVE FALSE
    BY <1>1, <2>4 DEF SourceFails
  <2>5. ASSUME UNCHANGED env, it \in Givers(x) => k'[o][x] = Given(it, x),
               it \notin Givers(x) => k'[o][x] = k[o][x]
        PROVE  Merged(o, x)'
    <3>1. CASE it \in Givers(x)
      <4>1. \A i \in Givers(x) : Past(o, i)' => Past(o, i) \/ i = it
        BY <2>3, GiversAreItems
      <4> QED
        BY <1>1, <1>5, <2>5, <3>1, <4>1, MergedItem
    <3>2. CASE it \notin Givers(x)
      <4>1. Givers(x)' = Givers(x)
        <5>1. \A src : Place(src)' = Place(src)
          BY <1>1 DEF Place
        <5> QED
          BY <1>1, <2>5, <5>1 DEF Givers, Defining, Enabled, Absent
      <4>2. \A i \in Givers(x)' : Past(o, i)' => Past(o, i)
        BY <1>4, <2>3, <3>2, <4>1
      <4> QED
        BY <1>1, <1>2, <2>5, <3>2, <4>2, MergedKept
    <3> QED
      BY <3>1, <3>2
  <2>6. ASSUME it[1] # "env", it[1] # "dotenv", Current(o) \notin bad,
               k' = [k EXCEPT ![o] = Merge(k[o], Current(o))]
        PROVE  /\ it \in Givers(x) => k'[o][x] = Given(it, x)
               /\ it \notin Givers(x) => k'[o][x] = k[o][x]
    <3>1. k'[o][x] = IF x \in defines[it] THEN Value(it) ELSE k[o][x]
      BY <1>1, <2>1, <2>6, MergeGives
    <3>2. it \in Items /\ it # EnvItem
      BY <2>6 DEF AnyItems, EnvItem
    <3>3. it \in Givers(x) <=> x \in defines[it]
      BY <2>1, <2>2, <2>6, <3>2, GiversLemma
    <3> QED
      BY <2>6, <3>1, <3>3 DEF Given
  <2>7. CASE it[1] = "dotenv" /\ DotenvStep(o)
    <3>1. k' = k
      BY <2>4, <2>7, DotenvKinds DEF Within
    <3>2. it \notin Givers(x)'
      BY <2>7 DEF Givers, EnvItem
    <3>3. \A i \in Givers(x)' : Past(o, i)' => Past(o, i)
      BY <1>4, <2>3, <3>2
    <3> QED
      BY <1>1, <1>2, <3>1, <3>3, MergedKept
  <2>8. CASE it[1] = "file" /\ ConfigFile(o)
    BY <2>4, <2>5, <2>6, <2>8 DEF ConfigFile
  <2>9. CASE it[1] = "custom" /\ CustomSource(o)
    BY <2>4, <2>5, <2>6, <2>9 DEF CustomSource
  <2>10. CASE it[1] = "env" /\ Environment(o)
    <3>1. it = EnvItem
      BY <2>10 DEF AnyItems, Items, EnvItem
    <3>2. /\ k'[o][x] = IF env[x] = Absent THEN k[o][x] ELSE env[x]
          /\ UNCHANGED env
      BY <1>1, <2>10 DEF Environment
    <3>3. it \in Givers(x) <=> env[x] # Absent
      BY <2>2, <3>1, GiversLemma DEF EnvItem
    <3> QED
      BY <2>5, <2>10, <3>2, <3>3 DEF Given
  <2>11. CASE it[1] = "args" /\ Arguments(o)
    BY <2>4, <2>5, <2>6, <2>11 DEF Arguments
  <2> QED
    BY <2>1, <2>7, <2>8, <2>9, <2>10, <2>11, ItemAction
<1>6. CASE \A i \in AnyItems : ~Merging(o, i)
  <2>1. k'[o] = k[o]
    <3>1. ASSUME NEW src \in Sources, In(o, src), ItemDone(o) PROVE FALSE
      <4>1. Current(o) \in AnyItems /\ Current(o)[1] = src
        <5>1. CASE src = "env"
          <6>1. item[o] = 1
            BY <3>1, <5>1 DEF In, Count, TypeInv, TypeOK
          <6> QED
            BY <3>1, <5>1, <6>1 DEF Current, In, AnyItems, EnvItem
        <5>2. CASE src = "unknown"
          BY <3>1, <5>2 DEF In, Count, TypeInv, TypeOK
        <5>3. CASE src \in {"dotenv", "file", "custom", "args"}
          BY <3>1, <5>3, CurrentItem DEF AnyItems
        <5> QED
          BY <5>1, <5>2, <5>3 DEF Sources
      <4> QED
        BY <1>6, <3>1, <4>1 DEF Merging
    <3>2. ASSUME NEW src, SourceFails(o, src) PROVE FALSE
      BY <1>1, <3>2 DEF SourceFails
    <3>3. ~ConfigFile(o) /\ ~CustomSource(o) /\ ~Environment(o)
          /\ ~Arguments(o)
      BY <3>1, <3>2 DEF ConfigFile, CustomSource, Environment, Arguments, Sources
    <3>4. ~Begin(o) /\ ~DefaultsFail(o)
      BY <1>1, <1>2 DEF Begin, DefaultsFail, Loading
    <3>5. EmptyStage(o) \/ Finish(o) \/ DotenvStep(o)
      BY <3>3, <3>4 DEF LoadStep, DotenvStep
    <3>6. CASE DotenvStep(o)
      BY <3>1, <3>2, <3>6, DotenvKinds DEF Within, Sources
    <3> QED
      BY <3>5, <3>6 DEF EmptyStage, Finish
  <2>2. \A i \in Givers(x)' : Past(o, i)' => Past(o, i)
    BY <1>3, <1>4, <1>6
  <2> QED
    BY <1>1, <1>2, <2>1, <2>2, MergedKept
<1> QED
  BY <1>5, <1>6

LEMMA MergedInvNext ==
  TypeInv /\ StageInv /\ DotenvInv /\ CleanInv /\ MetInv /\ UnsetInv /\ MergedInv
    /\ [Next]_vars => MergedInv'
<1> SUFFICES ASSUME TypeInv, StageInv, DotenvInv, CleanInv, MetInv, UnsetInv, MergedInv,
                    [Next]_vars, DotenvFirst',
                    NEW o \in Loads, Loading(o)', NEW x \in Keys
             PROVE  Merged(o, x)'
  BY DEF MergedInv
<1>1. UNCHANGED <<priority, defines, bad, version>>
  <2>1. ASSUME NEW it \in Items, Edit(it) PROVE FALSE
    BY <2>1 DEF Edit, Loading
  <2> QED
    BY <2>1, StepShape DEF Next, Cancel, vars, optVars, contentVars
<1>2. DotenvFirst
  <2>1. \A src : Place(src)' = Place(src)
    BY <1>1 DEF Place
  <2> QED
    BY <2>1 DEF DotenvFirst, Enabled
<1>3. Loading(o) => Merged(o, x)
  BY <1>2 DEF MergedInv
<1>4. CASE LoadStep(o)
  BY <1>2, <1>3, <1>4, MergedDefaults, MergedOwnStep
<1>5. CASE ~LoadStep(o)
  <2>1. /\ status'[o] = status[o] /\ stage'[o] = stage[o]
        /\ item'[o] = item[o] /\ k'[o] = k[o] /\ clean'[o] = clean[o]
    <3>1. ASSUME NEW it \in Items, Edit(it) PROVE FALSE
      BY <3>1 DEF Edit, Loading
    <3>2. CASE Cancel \/ UNCHANGED vars
      BY <3>2 DEF Cancel, vars
    <3> QED
      BY <1>5, <3>1, <3>2, StepShape DEF Next
  <2>2. Loading(o)
    BY <2>1 DEF Loading
  <2>3. \A i \in Givers(x)' : Past(o, i)' => Past(o, i)
    <3>1. \A src : Place(src)' = Place(src)
      BY <1>1 DEF Place
    <3> QED
      BY <2>1, <3>1 DEF Past
  <2> QED
    BY <1>1, <1>2, <1>3, <2>1, <2>2, <2>3, MergedKept
<1> QED
  BY <1>4, <1>5

LEMMA MergedInvariant == Spec => []MergedInv
<1>1. Init => MergedInv
  BY DEF Init, MergedInv, Loading
<1> QED
  BY <1>1, MergedInvNext, TypeInvariant, StageInvariant, WithinInvariant,
     DotenvInvariant, PTL DEF Spec

\* Of two items of enabled sources, one is merged before the other.
LEMMA BeforeIsTotal ==
  ASSUME TypeInv, NEW a \in AnyItems, NEW b \in AnyItems, a # b,
         Enabled(a[1]), Enabled(b[1])
  PROVE  /\ Before(a, b) \/ Before(b, a)
         /\ ~ (Before(a, b) /\ Before(b, a))
<1>1. priority \in Seq(Sources) /\ Place("defaults") = 0
  BY PriorityAssumption, DefaultsPlace DEF TypeInv, TypeOK
<1>2. /\ a = <<a[1], a[2]>> /\ a[2] \in Nat
      /\ b = <<b[1], b[2]>> /\ b[2] \in Nat
  BY ItemIndex
<1>3. /\ Place(a[1]) \in Nat /\ (Place(a[1]) > 0 => priority[Place(a[1])] = a[1])
      /\ Place(b[1]) \in Nat /\ (Place(b[1]) > 0 => priority[Place(b[1])] = b[1])
  BY <1>1, PlaceLemma
<1>4. Place(a[1]) = Place(b[1]) => a[1] = b[1]
  BY <1>1, <1>3 DEF Enabled
<1>5. Place(a[1]) = Place(b[1]) => a[2] # b[2]
  BY <1>2, <1>4
<1> QED
  BY <1>2, <1>3, <1>5 DEF Before

\* A load that returns a config, with nothing edited since it began, has given
\* each key the value of the last enabled source that defines it, the dotenv
\* files counting through the environment, whatever other loads did.
THEOREM LoaderPrecedence == Spec => []Precedence
<1>1. TypeInv /\ StageInv /\ MergedInv => Precedence
  <2> SUFFICES ASSUME TypeInv, StageInv, MergedInv, DotenvFirst,
                      NEW l \in Loads, Loaded(l), NEW x \in Keys
               PROVE  k[l][x] = Expected(x)
    BY DEF Precedence, DotenvFirst
  <2>1. Merged(l, x) /\ stage[l] > Len(priority)
    BY DEF MergedInv, Loaded, Loading, StageInv
  <2>2. Expected(x) = LastOf(Givers(x), x)
    BY DEF Expected, Givers, EnvItem
  <2>3. \A it \in Givers(x) : it \in AnyItems /\ Enabled(it[1])
    BY DEF Givers, Defining, AnyItems, EnvItem
  <2>4. \A it \in Givers(x) : Past(l, it)
    <3>1. priority \in Seq(Sources) /\ stage[l] \in Nat
      BY PriorityAssumption DEF TypeInv, TypeOK
    <3>2. \A src : Place(src) < stage[l]
      BY <2>1, <3>1, PlaceLemma
    <3> QED
      BY <3>2 DEF Past
  <2>5. CASE k[l][x] = Absent /\ \A it \in Givers(x) : ~Past(l, it)
    BY <2>2, <2>4, <2>5 DEF LastOf
  <2>6. ASSUME NEW w \in Givers(x), k[l][x] = Given(w, x),
               \A it \in Givers(x) : Past(l, it) => ~Before(w, it)
        PROVE  k[l][x] = Expected(x)
    <3> DEFINE Final(c) == \A it \in Givers(x) \ {c} : Before(it, c)
               c == CHOOSE c \in Givers(x) : Final(c)
    <3>1. Final(w)
      BY <2>3, <2>4, <2>6, BeforeIsTotal
    <3>2. c \in Givers(x) /\ Final(c)
      BY <3>1
    <3> HIDE DEF c
    <3>3. c = w
      BY <2>4, <2>6, <3>2
    <3>4. LastOf(Givers(x), x) = IF c[1] = "env" THEN env[x] ELSE Value(c)
      BY DEF LastOf, c
    <3> QED
      BY <2>2, <2>6, <3>3, <3>4 DEF Given
  <2> QED
    BY <2>1, <2>5, <2>6 DEF Merged
<1> QED
  BY <1>1, TypeInvariant, StageInvariant, MergedInvariant, PTL
-----------------------------------------------------------------------------
(* The counters agree.                                                       *)

\* The loads at work, and those of them that have a source behind them.
Running     == {l \in Loads : status[l] \in {"defaults", "sources"}}
Beyond(src) == {l \in Loads : status[l] = "sources" /\ stage[l] > Place(src)}

\* Each load begun is at work or was counted once.
LoadsCounted ==
  /\ IsFiniteSet(Running)
  /\ loadTotal["success"] + loadTotal["error"] + Cardinality(Running) = begun

\* Unless the defaults fail, each failed load was counted with one source.
FailuresCounted ==
  \/ <<"defaults", 1>> \in bad
  \/ loadTotal["error"] = Failures("dotenv") + Failures("file") + Failures("custom")
                           + Failures("env") + Failures("args") + Failures("unknown")

\* A source has a success for each config returned, and for each load at work
\* that has it behind it.
SuccessesCounted ==
  \A src \in Sources \ {"custom", "unknown"} : Place(src) > 0 =>
    sourceTotal[<<src, "success">>] >= loadTotal["success"] + Cardinality(Beyond(src))

\* What CountLoad and CountSource do to the counters.
LEMMA CountLoadLemma ==
  ASSUME TypeInv, NEW res \in Results, CountLoad(res), NEW r \in Results
  PROVE  loadTotal'[r] = loadTotal[r] + (IF r = res THEN 1 ELSE 0)
BY DEF TypeInv, TypeOK, CountLoad

LEMMA CountSourceLemma ==
  ASSUME TypeInv, NEW src \in Sources, NEW res \in Results, CountSource(src, res),
         NEW s \in Sources, NEW r \in Results
  PROVE  sourceTotal'[<<s, r>>] =
           sourceTotal[<<s, r>>] + (IF s = src /\ r = res THEN 1 ELSE 0)
<1>1. /\ sourceTotal \in [Sources \X Results -> Nat]
      /\ <<s, r>> \in Sources \X Results /\ <<src, res>> \in Sources \X Results
  BY DEF TypeInv, TypeOK
<1>2. sourceTotal[<<s, r>>] \in Nat
  BY <1>1
<1>3. CASE s = src /\ r = res
  BY <1>1, <1>2, <1>3 DEF CountSource
<1>4. CASE ~ (s = src /\ r = res)
  <2>1. <<s, r>> # <<src, res>>
    BY <1>4
  <2> QED
    BY <1>1, <1>2, <1>4, <2>1 DEF CountSource
<1> QED
  BY <1>3, <1>4

LEMMA CounterTypes ==
  ASSUME TypeInv
  PROVE  /\ loadTotal["success"] \in Nat /\ loadTotal["error"] \in Nat
         /\ begun \in Nat
         /\ \A s \in Sources, r \in Results : sourceTotal[<<s, r>>] \in Nat
<1>1. \A s \in Sources, r \in Results : <<s, r>> \in Sources \X Results
  OBVIOUS
<1> QED
  BY <1>1 DEF TypeInv, TypeOK, Results

\* The load of the step joins the loads at work, leaves them, or neither.
LEMMA RunningStep ==
  ASSUME TypeInv, NEW l \in Loads, LoadStep(l)
  PROVE  \/ /\ l \notin Running /\ Running' = Running \cup {l}
            /\ begun' = begun + 1 /\ loadTotal' = loadTotal
         \/ /\ l \in Running /\ Running' = Running \ {l} /\ begun' = begun
            /\ CountLoad("success") \/ CountLoad("error")
         \/ Running' = Running /\ begun' = begun /\ loadTotal' = loadTotal
<1>0. DOMAIN status = Loads
  BY DEF TypeInv, TypeOK
<1>1. CASE Begin(l)
  BY <1>0, <1>1 DEF Begin, Running, metricVars
<1>2. CASE DefaultsFail(l)
  BY <1>0, <1>2 DEF DefaultsFail, Running
<1>3. CASE LoadDefaults(l)
  BY <1>0, <1>3 DEF LoadDefaults, Running, metricVars
<1>4. ASSUME NEW src, In(l, src), SourceFails(l, src)
      PROVE  l \in Running /\ Running' = Running \ {l} /\ begun' = begun /\ CountLoad("error")
  BY <1>0, <1>4 DEF SourceFails, In, Running
<1>5. ASSUME ItemDone(l)
      PROVE  Running' = Running /\ begun' = begun /\ loadTotal' = loadTotal
  BY <1>5 DEF ItemDone, Running
<1>6. CASE EmptyStage(l)
  BY <1>6 DEF EmptyStage, Running
<1>7. CASE Finish(l)
  BY <1>0, <1>7 DEF Finish, Running
<1>8. CASE Within(l)
  BY <1>8 DEF Within, Running, metricVars
<1> QED
  BY <1>1, <1>2, <1>3, <1>4, <1>5, <1>6, <1>7, <1>8, StepKinds

LEMMA LoadsCountedNext == TypeInv /\ LoadsCounted /\ [Next]_vars => LoadsCounted'
<1> SUFFICES ASSUME TypeInv, LoadsCounted, [Next]_vars PROVE LoadsCounted'
  OBVIOUS
<1>0. /\ loadTotal["success"] \in Nat /\ loadTotal["error"] \in Nat /\ begun \in Nat
      /\ IsFiniteSet(Running) /\ Cardinality(Running) \in Nat
  BY CounterTypes, FS_CardinalityType DEF LoadsCounted
<1>1. ASSUME NEW l \in Loads, LoadStep(l) PROVE LoadsCounted'
  <2>1. CASE /\ l \notin Running /\ Running' = Running \cup {l}
             /\ begun' = begun + 1 /\ loadTotal' = loadTotal
    <3>1. IsFiniteSet(Running') /\ Cardinality(Running') = Cardinality(Running) + 1
      BY <1>0, <2>1, FS_AddElement
    <3> QED
      BY <1>0, <2>1, <3>1 DEF LoadsCounted
  <2>2. CASE /\ l \in Running /\ Running' = Running \ {l} /\ begun' = begun
             /\ CountLoad("success") \/ CountLoad("error")
    <3>1. IsFiniteSet(Running') /\ Cardinality(Running') = Cardinality(Running) - 1
      BY <1>0, <2>2, FS_RemoveElement
    <3>2. loadTotal'["success"] + loadTotal'["error"] =
            loadTotal["success"] + loadTotal["error"] + 1
      BY <1>0, <2>2, CountLoadLemma DEF Results
    <3>3. loadTotal'["success"] \in Nat /\ loadTotal'["error"] \in Nat
      BY TypeInvNext, CounterTypes DEF TypeInv, TypeOK, Results
    <3> QED
      BY <1>0, <2>2, <3>1, <3>2, <3>3 DEF LoadsCounted
  <2>3. CASE Running' = Running /\ begun' = begun /\ loadTotal' = loadTotal
    BY <2>3 DEF LoadsCounted
  <2> QED
    BY <1>1, <2>1, <2>2, <2>3, RunningStep
<1>2. CASE Cancel \/ (\E it \in Items : Edit(it)) \/ UNCHANGED vars
  BY <1>2 DEF Cancel, Edit, vars, metricVars, LoadsCounted, Running
<1> QED
  BY <1>1, <1>2 DEF Next

LEMMA FailuresCountedNext ==
  TypeInv /\ FailuresCounted /\ [Next]_vars => FailuresCounted'
<1> SUFFICES ASSUME TypeInv, FailuresCounted, [Next]_vars PROVE FailuresCounted'
  OBVIOUS
<1>0. \A s \in Sources : Failures(s) \in Nat
  BY CounterTypes DEF Failures, Results
<1>1. ASSUME NEW l \in Loads, LoadStep(l) PROVE FailuresCounted'
  <2>1. bad' = bad
    BY <1>1, StepShape
  <2>2. ASSUME loadTotal'["error"] = loadTotal["error"],
               \A s \in Sources : Failures(s)' = Failures(s)
        PROVE  FailuresCounted'
    BY <2>1, <2>2 DEF FailuresCounted, Sources
  <2>3. ASSUME NEW s \in Sources, CountSource(s, "success")
        PROVE  \A src \in Sources : Failures(src)' = Failures(src)
    <3> SUFFICES ASSUME NEW src \in Sources PROVE Failures(src)' = Failures(src)
      OBVIOUS
    <3>1. sourceTotal'[<<src, "error">>] = sourceTotal[<<src, "error">>] + 0
      BY <2>3, CountSourceLemma DEF Results
    <3>2. sourceTotal[<<src, "error">>] \in Nat
      BY CounterTypes DEF Results
    <3> QED
      BY <3>1, <3>2 DEF Failures
  <2>4. CASE Begin(l) \/ LoadDefaults(l)
    BY <2>2, <2>4 DEF Begin, LoadDefaults, metricVars, Failures
  <2>5. CASE DefaultsFail(l)
    BY <2>1, <2>5 DEF DefaultsFail, FailuresCounted
  <2>6. ASSUME NEW src \in Sources, SourceFails(l, src) PROVE FailuresCounted'
    <3>1. \A s \in Sources : Failures(s)' = Failures(s) + (IF s = src THEN 1 ELSE 0)
      BY <2>6, CountSourceLemma DEF SourceFails, Failures, Results
    <3>2. loadTotal'["error"] = loadTotal["error"] + 1
      BY <2>6, CountLoadLemma DEF SourceFails, Results
    <3>3. loadTotal["error"] \in Nat
      BY CounterTypes
    <3> QED
      BY <1>0, <2>1, <3>1, <3>2, <3>3 DEF FailuresCounted, Sources
  <2>7. ASSUME NEW src \in Sources, In(l, src), ItemDone(l) PROVE FailuresCounted'
    <3>1. loadTotal' = loadTotal /\ (CountSource(src, "success") \/ UNCHANGED sourceTotal)
      BY <2>7 DEF ItemDone, In
    <3> QED
      BY <2>2, <2>3, <3>1 DEF Failures
  <2>8. CASE EmptyStage(l)
    <3>1. /\ loadTotal' = loadTotal /\ Source(l) \in Sources
          /\ CountSource(Source(l), "success") \/ UNCHANGED sourceTotal
      BY <2>8, SourceType DEF EmptyStage
    <3> QED
      BY <2>2, <2>3, <3>1 DEF Failures
  <2>9. CASE Finish(l)
    <3>1. loadTotal'["error"] = loadTotal["error"]
      BY <2>9 DEF Finish, CountLoad, TypeInv, TypeOK, Results
    <3> QED
      BY <2>2, <2>9, <3>1 DEF Finish, Failures
  <2>10. CASE Within(l)
    BY <2>2, <2>10 DEF Within, metricVars, Failures
  <2> QED
    BY <1>1, <2>4, <2>5, <2>6, <2>7, <2>8, <2>9, <2>10, StepKinds
<1>2. ASSUME NEW it \in Items, Edit(it) PROVE FailuresCounted'
  <2>1. <<"defaults", 1>> \in bad => <<"defaults", 1>> \in bad'
    BY <1>2 DEF Edit
  <2> QED
    BY <1>2, <2>1 DEF Edit, metricVars, FailuresCounted, Failures
<1>3. CASE Cancel \/ UNCHANGED vars
  BY <1>3 DEF Cancel, vars, contentVars, metricVars, FailuresCounted, Failures
<1> QED
  BY <1>1, <1>2, <1>3 DEF Next

\* A load puts a source behind it when it counts a success of the source, and
\* has every source behind it when it is counted itself.
LEMMA BeyondStep ==
  ASSUME TypeInv, StageInv, NEW l \in Loads, LoadStep(l),
         NEW src \in Sources \ {"custom", "unknown"}, Place(src) > 0
  PROVE  \/ /\ Beyond(src)' \subseteq Beyond(src)
            /\ loadTotal'["success"] = loadTotal["success"]
         \/ /\ l \in Beyond(src) /\ Beyond(src)' = Beyond(src) \ {l}
            /\ CountLoad("success")
         \/ /\ l \notin Beyond(src) /\ Beyond(src)' = Beyond(src) \cup {l}
            /\ loadTotal' = loadTotal /\ CountSource(src, "success")
<1>0. /\ DOMAIN status = Loads /\ DOMAIN stage = Loads /\ loadTotal \in [Results -> Nat]
      /\ stage[l] \in Nat /\ priority \in Seq(Sources) /\ priority' = priority
      /\ \A o \in Loads \ {l} : status'[o] = status[o] /\ stage'[o] = stage[o]
  BY StepShape, PriorityAssumption DEF TypeInv, TypeOK
<1>1. /\ Place(src)' = Place(src) /\ Place(src) \in 1..Len(priority)
      /\ priority[Place(src)] = src /\ Len(priority) \in Nat
  <2>1. Place(src)' = Place(src)
    BY <1>0 DEF Place
  <2> QED
    BY <1>0, <2>1, PlaceLemma
<1>2. /\ l \in Beyond(src) <=> status[l] = "sources" /\ stage[l] > Place(src)
      /\ l \in Beyond(src)' <=> status'[l] = "sources" /\ stage'[l] > Place(src)
      /\ \A o \in Loads \ {l} : o \in Beyond(src)' <=> o \in Beyond(src)
      /\ Beyond(src) \subseteq Loads /\ Beyond(src)' \subseteq Loads
  BY <1>0, <1>1 DEF Beyond
<1>3. ASSUME l \notin Beyond(src)', loadTotal'["success"] = loadTotal["success"]
      PROVE  /\ Beyond(src)' \subseteq Beyond(src)
             /\ loadTotal'["success"] = loadTotal["success"]
  BY <1>2, <1>3
<1>4. CASE Begin(l)
  BY <1>0, <1>2, <1>3, <1>4 DEF Begin, metricVars
<1>5. CASE DefaultsFail(l)
  <2>1. loadTotal'["success"] = loadTotal["success"]
    BY <1>0, <1>5 DEF DefaultsFail, CountLoad, Results
  <2> QED
    BY <1>0, <1>2, <1>3, <1>5, <2>1 DEF DefaultsFail
<1>6. CASE LoadDefaults(l)
  <2>1. stage'[l] = 1
    BY <1>6 DEF LoadDefaults, StageInv
  <2> QED
    BY <1>1, <1>2, <1>3, <1>6, <2>1 DEF LoadDefaults, metricVars
<1>7. ASSUME NEW s \in Sources, SourceFails(l, s)
      PROVE  /\ Beyond(src)' \subseteq Beyond(src)
             /\ loadTotal'["success"] = loadTotal["success"]
  <2>1. loadTotal'["success"] = loadTotal["success"]
    BY <1>0, <1>7 DEF SourceFails, CountLoad, Results
  <2> QED
    BY <1>0, <1>2, <1>3, <1>7, <2>1 DEF SourceFails
<1>8. ASSUME status' = status, loadTotal' = loadTotal, status[l] = "sources",
             \/ stage'[l] = stage[l]
             \/ /\ stage'[l] = stage[l] + 1 /\ stage[l] <= Len(priority)
                /\ priority[stage[l]] = src => CountSource(src, "success")
      PROVE  \/ /\ Beyond(src)' \subseteq Beyond(src)
                /\ loadTotal'["success"] = loadTotal["success"]
             \/ /\ l \notin Beyond(src) /\ Beyond(src)' = Beyond(src) \cup {l}
                /\ loadTotal' = loadTotal /\ CountSource(src, "success")
  <2>1. CASE stage[l] = Place(src) /\ stage'[l] = stage[l] + 1
    BY <1>0, <1>1, <1>2, <1>8, <2>1
  <2>2. CASE ~ (stage[l] = Place(src) /\ stage'[l] = stage[l] + 1)
    <3>1. l \in Beyond(src)' => l \in Beyond(src)
      BY <1>0, <1>1, <1>2, <1>8, <2>2
    <3> QED
      BY <1>2, <1>8, <3>1
  <2> QED
    BY <2>1, <2>2
<1>9. ASSUME NEW s \in Sources, In(l, s), ItemDone(l)
      PROVE  \/ /\ Beyond(src)' \subseteq Beyond(src)
                /\ loadTotal'["success"] = loadTotal["success"]
             \/ /\ l \notin Beyond(src) /\ Beyond(src)' = Beyond(src) \cup {l}
                /\ loadTotal' = loadTotal /\ CountSource(src, "success")
  <2>1. /\ status' = status /\ loadTotal' = loadTotal /\ status[l] = "sources"
        /\ stage[l] <= Len(priority) /\ Source(l) = priority[stage[l]]
    BY <1>9 DEF In, ItemDone, Source
  <2>2. CASE item[l] = Count(Source(l))
    BY <1>0, <1>8, <1>9, <2>1, <2>2 DEF ItemDone
  <2>3. CASE item[l] # Count(Source(l))
    BY <1>0, <1>8, <1>9, <2>1, <2>3 DEF ItemDone
  <2> QED
    BY <2>2, <2>3
<1>10. CASE EmptyStage(l)
  <2>1. /\ status' = status /\ loadTotal' = loadTotal /\ status[l] = "sources"
        /\ stage[l] <= Len(priority) /\ Source(l) = priority[stage[l]]
        /\ stage'[l] = stage[l] + 1
        /\ Source(l) \notin {"custom", "unknown"} => CountSource(Source(l), "success")
    BY <1>0, <1>10 DEF EmptyStage, Source
  <2> QED
    BY <1>8, <2>1
<1>11. CASE Finish(l)
  <2>1. l \in Beyond(src) /\ l \notin Beyond(src)' /\ CountLoad("success")
    BY <1>0, <1>1, <1>2, <1>11 DEF Finish
  <2> QED
    BY <1>2, <2>1
<1>12. CASE Within(l)
  <2>1. status' = status /\ stage' = stage /\ loadTotal' = loadTotal
    BY <1>12 DEF Within, metricVars
  <2> QED
    BY <1>2, <2>1
<1> QED
  BY <1>4, <1>5, <1>6, <1>7, <1>9, <1>10, <1>11, <1>12, StepKinds

\* The counters of the sources never go down.
LEMMA SuccessesGrow ==
  ASSUME TypeInv, NEW l \in Loads, LoadStep(l), NEW s \in Sources
  PROVE  sourceTotal'[<<s, "success">>] >= sourceTotal[<<s, "success">>]
<1>0. sourceTotal[<<s, "success">>] \in Nat
  BY CounterTypes DEF Results
<1>1. ASSUME NEW src \in Sources, NEW res \in Results, CountSource(src, res)
      PROVE  sourceTotal'[<<s, "success">>] >= sourceTotal[<<s, "success">>]
  <2>1. sourceTotal'[<<s, "success">>] =
          sourceTotal[<<s, "success">>] + (IF s = src /\ "success" = res THEN 1 ELSE 0)
    BY <1>1, CountSourceLemma DEF Results
  <2> QED
    BY <1>0, <2>1
<1>2. CASE UNCHANGED sourceTotal
  BY <1>0, <1>2
<1>3. CASE Begin(l) \/ DefaultsFail(l) \/ LoadDefaults(l) \/ Finish(l) \/ Within(l)
  BY <1>2, <1>3 DEF Begin, DefaultsFail, LoadDefaults, Finish, Within, metricVars
<1>4. ASSUME NEW src \in Sources, SourceFails(l, src)
      PROVE  sourceTotal'[<<s, "success">>] >= sourceTotal[<<s, "success">>]
  BY <1>1, <1>4 DEF SourceFails, Results
<1>5. ASSUME NEW src \in Sources, In(l, src), ItemDone(l)
      PROVE  sourceTotal'[<<s, "success">>] >= sourceTotal[<<s, "success">>]
  <2>1. CountSource(src, "success") \/ UNCHANGED sourceTotal
    BY <1>5 DEF ItemDone, In
  <2> QED
    BY <1>1, <1>2, <2>1 DEF Results
<1>6. CASE EmptyStage(l)
  <2>1. /\ Source(l) \in Sources
        /\ CountSource(Source(l), "success") \/ UNCHANGED sourceTotal
    BY <1>6, SourceType DEF EmptyStage
  <2> QED
    BY <1>1, <1>2, <2>1 DEF Results
<1> QED
  BY <1>3, <1>4, <1>5, <1>6, StepKinds

LEMMA SuccessesCountedNext ==
  TypeInv /\ StageInv /\ LoadsCounted /\ SuccessesCounted /\ [Next]_vars
    => SuccessesCounted'
<1> SUFFICES ASSUME TypeInv, StageInv, LoadsCounted, SuccessesCounted, [Next]_vars,
                    NEW src \in Sources \ {"custom", "unknown"}, Place(src)' > 0
             PROVE  sourceTotal'[<<src, "success">>] >=
                      loadTotal'["success"] + Cardinality(Beyond(src)')
  BY DEF SuccessesCounted
<1>0. priority' = priority /\ Place(src)' = Place(src)
  <2>1. priority' = priority
    BY StepShape DEF Next, Cancel, Edit, vars, optVars
  <2> QED
    BY <2>1 DEF Place
<1>1. /\ IsFiniteSet(Beyond(src)) /\ Cardinality(Beyond(src)) \in Nat
      /\ sourceTotal[<<src, "success">>] >= loadTotal["success"] + Cardinality(Beyond(src))
      /\ loadTotal["success"] \in Nat /\ sourceTotal[<<src, "success">>] \in Nat
  <2>1. IsFiniteSet(Running) /\ Beyond(src) \subseteq Running
    BY DEF LoadsCounted, Beyond, Running
  <2>2. IsFiniteSet(Beyond(src))
    BY <2>1, FS_Subset
  <2> QED
    BY <1>0, <2>2, FS_CardinalityType, CounterTypes DEF SuccessesCounted, Results
<1>2. ASSUME NEW l \in Loads, LoadStep(l)
      PROVE  sourceTotal'[<<src, "success">>] >=
               loadTotal'["success"] + Cardinality(Beyond(src)')
  <2> DEFINE B == Beyond(src)'
  <2>1. /\ sourceTotal'[<<src, "success">>] >= sourceTotal[<<src, "success">>]
        /\ sourceTotal'[<<src, "success">>] \in Nat
    BY <1>2, SuccessesGrow, TypeInvNext DEF TypeInv, TypeOK, Results
  <2>2. CASE /\ B \subseteq Beyond(src)
             /\ loadTotal'["success"] = loadTotal["success"]
    <3>1. IsFiniteSet(B) /\ Cardinality(B) <= Cardinality(Beyond(src))
      BY <1>1, <2>2, FS_Subset
    <3>2. Cardinality(B) \in Nat
      BY <3>1, FS_CardinalityType
    <3> HIDE DEF B
    <3>3. sourceTotal'[<<src, "success">>] >= loadTotal'["success"] + Cardinality(B)
      BY <1>1, <2>1, <2>2, <3>1, <3>2
    <3> QED
      BY <3>3 DEF B
  <2>3. CASE /\ l \in Beyond(src) /\ B = Beyond(src) \ {l} /\ CountLoad("success")
    <3>1. Cardinality(B) = Cardinality(Beyond(src)) - 1
      BY <1>1, <2>3, FS_RemoveElement
    <3>2. loadTotal'["success"] = loadTotal["success"] + 1
      BY <2>3, CountLoadLemma DEF Results
    <3> HIDE DEF B
    <3>3. sourceTotal'[<<src, "success">>] >= loadTotal'["success"] + Cardinality(B)
      BY <1>1, <2>1, <3>1, <3>2
    <3> QED
      BY <3>3 DEF B
  <2>4. CASE /\ l \notin Beyond(src) /\ B = Beyond(src) \cup {l}
             /\ loadTotal' = loadTotal /\ CountSource(src, "success")
    <3>1. Cardinality(B) = Cardinality(Beyond(src)) + 1
      BY <1>1, <2>4, FS_AddElement
    <3>2. sourceTotal'[<<src, "success">>] = sourceTotal[<<src, "success">>] + 1
      BY <2>4, CountSourceLemma DEF Results
    <3> HIDE DEF B
    <3>3. sourceTotal'[<<src, "success">>] >= loadTotal'["success"] + Cardinality(B)
      BY <1>1, <2>4, <3>1, <3>2
    <3> QED
      BY <3>3 DEF B
  <2> QED
    BY <1>0, <1>2, <2>2, <2>3, <2>4, BeyondStep
<1>3. CASE Cancel \/ (\E it \in Items : Edit(it)) \/ UNCHANGED vars
  <2>1. UNCHANGED <<status, stage, metricVars>>
    BY <1>3 DEF Cancel, Edit, vars
  <2>2. Beyond(src)' = Beyond(src)
    BY <1>0, <2>1 DEF Beyond
  <2> QED
    BY <1>1, <2>1, <2>2 DEF metricVars
<1> QED
  BY <1>2, <1>3 DEF Next

LEMMA MetricsInvariant == Spec => [](LoadsCounted /\ FailuresCounted /\ SuccessesCounted)
<1>1. Init => LoadsCounted /\ FailuresCounted /\ SuccessesCounted
  <2> SUFFICES ASSUME Init PROVE LoadsCounted /\ FailuresCounted /\ SuccessesCounted
    OBVIOUS
  <2>1. Running = {} /\ \A src : Beyond(src) = {}
    BY DEF Init, Running, Beyond
  <2>2. /\ loadTotal["success"] = 0 /\ loadTotal["error"] = 0 /\ begun = 0
        /\ \A s \in Sources, r \in Results : sourceTotal[<<s, r>>] = 0
    <3>1. \A s \in Sources, r \in Results : <<s, r>> \in Sources \X Results
      OBVIOUS
    <3> QED
      BY <3>1 DEF Init, Results
  <2>3. LoadsCounted
    BY <2>1, <2>2, FS_EmptySet DEF LoadsCounted
  <2>4. FailuresCounted
    BY <2>2 DEF FailuresCounted, Failures, Sources, Results
  <2>5. SuccessesCounted
    <3> SUFFICES ASSUME NEW src \in Sources
                 PROVE  sourceTotal[<<src, "success">>] >=
                          loadTotal["success"] + Cardinality(Beyond(src))
      BY DEF SuccessesCounted
    <3>1. Cardinality(Beyond(src)) = 0
      BY <2>1, FS_EmptySet
    <3>2. sourceTotal[<<src, "success">>] = 0
      BY <2>2 DEF Results
    <3> QED
      BY <2>2, <3>1, <3>2
  <2> QED
    BY <2>3, <2>4, <2>5
<1> QED
  BY <1>1, LoadsCountedNext, FailuresCountedNext, SuccessesCountedNext, TypeInvariant,
     StageInvariant, PTL DEF Spec

\* When no load is at work the counters agree: every load was counted once, every
\* failed one with the source that failed, and every config returned with a
\* success of each source.
THEOREM LoaderMetricsAgree == Spec => []MetricsAgree
<1>1. TypeInv /\ LoadsCounted /\ FailuresCounted /\ SuccessesCounted => MetricsAgree
  <2> SUFFICES ASSUME TypeInv, LoadsCounted, FailuresCounted, SuccessesCounted,
                      \A l \in Loads : status[l] \in {"idle", "ok", "failed"}
               PROVE  /\ loadTotal["success"] + loadTotal["error"] = begun
                      /\ FailuresCounted
                      /\ \A src \in Sources \ {"custom", "unknown"} : Place(src) > 0 =>
                           sourceTotal[<<src, "success">>] >= loadTotal["success"]
    BY DEF MetricsAgree, FailuresCounted
  <2>1. Running = {} /\ \A src : Beyond(src) = {}
    BY DEF Running, Beyond
  <2>2. loadTotal["success"] \in Nat /\ loadTotal["error"] \in Nat
    BY CounterTypes
  <2>3. loadTotal["success"] + loadTotal["error"] = begun
    <3>1. Cardinality(Running) = 0
      BY <2>1, FS_EmptySet
    <3> QED
      BY <2>2, <3>1 DEF LoadsCounted
  <2>4. ASSUME NEW src \in Sources \ {"custom", "unknown"}, Place(src) > 0
        PROVE  sourceTotal[<<src, "success">>] >= loadTotal["success"]
    <3>1. Cardinality(Beyond(src)) = 0
      BY <2>1, FS_EmptySet
    <3>2. sourceTotal[<<src, "success">>] >= loadTotal["success"] + Cardinality(Beyond(src))
      BY <2>4 DEF SuccessesCounted
    <3> QED
      BY <2>2, <3>1, <3>2
  <2> QED
    BY <2>3, <2>4
<1> QED
  BY <1>1, TypeInvariant, MetricsInvariant, PTL
=============================================================================
