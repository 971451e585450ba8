------------------------- MODULE TypedStreamProofs -------------------------
(***************************************************************************)
(* Theorems about the decoder, for any stream and any size of its tables.  *)
(***************************************************************************)
EXTENDS TypedStream, SequenceTheorems, TLAPS

-----------------------------------------------------------------------------
(* Types                                                                   *)

\* Appending a sequence to another of the same type.
LEMMA ConcatTypes ==
    ASSUME NEW S, NEW s \in Seq(S), NEW t \in Seq(S)
    PROVE  s \o t \in Seq(S) /\ Len(s \o t) = Len(s) + Len(t)
  BY ConcatProperties

\* The entries the actions make are entries.
LEMMA EntryKinds ==
    /\ Hole \in Entries /\ Embedded \in Entries
    /\ \A c \in Classes : ClassOf(c) \in Entries
    /\ \A vs \in Seq(Values) \ {<<>>} :
        DataOf(vs) \in Entries /\ \A c \in Classes : Entry("object", c, vs) \in Entries
  BY DEF Entries, Bare, ClassEntries, Data, Objects, Hole, Embedded, ClassOf, DataOf, Entry

\* What is known of an entry by its kind.
LEMMA EntryFields ==
    ASSUME NEW e \in Entries
    PROVE  /\ e.class \in Classes \cup {NoClass} /\ e.out \in Seq(Values)
           /\ e.kind = "class" => e.class \in Classes
  <1>1. <<>> \in Seq(Values)
    BY EmptySeq
  <1> QED
    BY <1>1 DEF Entries, Bare, ClassEntries, Data, Objects

\* An entry of the table is one.
LEMMA AtIsEntry ==
    ASSUME TypeOK, NEW k \in Nat, k < Len(objectTable)
    PROVE  At(k) \in Entries
  BY DEF TypeOK, TableTypes, At

\* The tables and the group start in their types.
LEMMA TypeInit == Init => TypeOK
  BY EmptySeq DEF Init, TypeOK, TableTypes, GroupTypes, NoSpot

\* An emitted entry keeps the components in their type.
LEMMA EmitTypes ==
    ASSUME TypeOK, NEW c \in Entries, Emit(c)
    PROVE  /\ phase' = "loop"
           /\ components' \in Seq(Entries)
  BY AppendProperties DEF TypeOK, Emit

\* A group that begins is in its type.
LEMMA BeginTypes ==
    ASSUME NEW ts \in Seq(Types), Begin(ts)
    PROVE  GroupTypes'
  BY EmptySeq DEF Begin, GroupTypes

\* A new entry and its name keep the tables in their types.
LEMMA EnterTypes ==
    ASSUME TypeOK, NEW e \in Entries, NEW c \in Classes \cup {NoClass},
           objectTable' = Append(objectTable, e), named' = Append(named, c)
    PROVE  /\ objectTable' \in Seq(Entries) /\ Len(objectTable) \in Nat
           /\ named' \in Seq(Classes \cup {NoClass})
           /\ Len(named') = Len(objectTable')
  BY AppendProperties, LenProperties DEF TypeOK, TableTypes

\* Every step that reads types keeps the types.
LEMMA TypeGroupSteps ==
    ASSUME TypeOK,
           \/ \E ts \in TypeGroups : NewTypes(ts) \/ ReadNewEmbedded(ts)
           \/ \E k \in 0 .. MaxTypes : OldTypes(k) \/ ReadOldEmbedded(k)
           \/ ReadNoEmbedded
    PROVE  TypeOK'
  <1>0. /\ \A ts \in TypeGroups : ts \in Seq(Types) /\ Append(typesTable, ts) \in Seq(Seq(Types))
        /\ MaxTypes \in Nat
    BY AppendProperties, TypedStreamAssumption DEF TypeOK, TableTypes
  <1>1. ASSUME NEW ts \in TypeGroups, NewTypes(ts) PROVE TypeOK'
    <2>1. GroupTypes'
      BY <1>0, <1>1, BeginTypes DEF NewTypes
    <2> QED
      BY <1>0, <1>1, <2>1 DEF NewTypes, TypeOK, TableTypes
  <1>2. ASSUME NEW ts \in TypeGroups, ReadNewEmbedded(ts) PROVE TypeOK'
    <2>1. GroupTypes'
      BY <1>0, <1>2, BeginTypes DEF ReadNewEmbedded
    <2>2. /\ objectTable' \in Seq(Entries) /\ Len(objectTable) \in Nat
          /\ named' \in Seq(Classes \cup {NoClass}) /\ Len(named') = Len(objectTable')
      BY <1>2, EntryKinds, EnterTypes DEF ReadNewEmbedded
    <2> QED
      BY <1>0, <1>2, <2>1, <2>2 DEF ReadNewEmbedded, TypeOK, TableTypes
  <1>3. ASSUME NEW k \in 0 .. MaxTypes, k < Len(typesTable) PROVE typesTable[k + 1] \in Seq(Types)
    BY <1>0, <1>3, LenProperties, ElementOfSeq DEF TypeOK, TableTypes
  <1>4. ASSUME NEW k \in 0 .. MaxTypes, OldTypes(k) PROVE TypeOK'
    <2>1. GroupTypes'
      BY <1>3, <1>4, BeginTypes DEF OldTypes
    <2> QED
      BY <1>4, <2>1 DEF OldTypes, TypeOK, TableTypes, tables
  <1>5. ASSUME NEW k \in 0 .. MaxTypes, ReadOldEmbedded(k) PROVE TypeOK'
    <2>1. GroupTypes'
      BY <1>3, <1>5, BeginTypes DEF ReadOldEmbedded
    <2>2. CASE UNCHANGED <<objectTable, named, seenEmbedded>>
      BY <1>5, <2>1, <2>2 DEF ReadOldEmbedded, TypeOK, TableTypes
    <2>3. CASE /\ objectTable' = Append(objectTable, Embedded)
               /\ named' = Append(named, NoClass)
               /\ seenEmbedded' = seenEmbedded \cup {k}
      <3>1. /\ objectTable' \in Seq(Entries)
            /\ named' \in Seq(Classes \cup {NoClass}) /\ Len(named') = Len(objectTable')
        BY <2>3, EntryKinds, EnterTypes
      <3> QED
        BY <1>0, <1>5, <2>1, <2>3, <3>1 DEF ReadOldEmbedded, TypeOK, TableTypes
    <2> QED
      BY <1>5, <2>2, <2>3 DEF ReadOldEmbedded
  <1>6. ASSUME ReadNoEmbedded PROVE TypeOK'
    <2>1. GroupTypes'
      BY <1>6, BeginTypes, EmptySeq DEF ReadNoEmbedded
    <2> QED
      BY <1>6, <2>1 DEF ReadNoEmbedded, TypeOK, TableTypes, tables
  <1> QED
    BY <1>1, <1>2, <1>4, <1>5, <1>6

\* Every step that reads a value or an object keeps the types.
LEMMA TypeValueSteps ==
    ASSUME TypeOK,
           \/ ReadValue \/ NilObject
           \/ \E chain \in Chains : NewObject(chain)
           \/ \E k \in 0 .. MaxObjects : KnownObject(k) \/ OtherReference(k)
    PROVE  TypeOK'
  <1>0. /\ MaxObjects \in Nat /\ Len(objectTable) \in Nat
        /\ todo # <<>> => Tail(todo) \in Seq(Types)
    BY LenProperties, HeadTailProperties, TypedStreamAssumption DEF TypeOK, TableTypes, GroupTypes
  <1>1. ASSUME ReadValue PROVE TypeOK'
    <2>1. PICK type \in Scalars \cup {"string"} : Reading(type) /\ outV' = Append(outV, type)
      BY <1>1 DEF ReadValue
    <2>2. outV' \in Seq(Values)
      BY <2>1, AppendProperties DEF TypeOK, GroupTypes, Values
    <2> QED
      BY <1>0, <1>1, <2>1, <2>2 DEF ReadValue, Reading, tables, TypeOK, TableTypes, GroupTypes
  <1>2. ASSUME NilObject PROVE TypeOK'
    <2>1. /\ objectTable' \in Seq(Entries)
          /\ named' \in Seq(Classes \cup {NoClass}) /\ Len(named') = Len(objectTable')
      BY <1>2, EntryKinds, EnterTypes DEF NilObject
    <2> QED
      BY <1>0, <1>2, <2>1 DEF NilObject, Reading, TypeOK, TableTypes, GroupTypes
  <1>3. ASSUME NEW chain \in Chains, NewObject(chain) PROVE TypeOK'
    <2> DEFINE cs == [i \in 1 .. Len(chain) |-> ClassOf(chain[i])]
               ns == [i \in 1 .. Len(chain) |-> NoClass]
               ts == [i \in 1 .. Len(chain) |-> <<"name">>]
               withHole == Append(objectTable, Hole)
               withName == Append(named, chain[1])
    <2>1. /\ chain \in Seq(Classes) /\ Len(chain) \in Nat \ {0}
          /\ \A i \in 1 .. Len(chain) : chain[i] \in Classes
      BY TypedStreamAssumption, LenProperties, ElementOfSeq, EmptySeq
    <2>2. cs \in Seq(Entries) /\ Len(cs) = Len(chain)
      BY <2>1, EntryKinds, IsASeq, LenProperties
    <2>3. ns \in Seq(Classes \cup {NoClass}) /\ Len(ns) = Len(chain)
      BY <2>1, IsASeq, LenProperties
    <2>4. ts \in Seq(Seq(Types))
      BY <2>1, IsASeq DEF Types, Scalars
    <2>5. /\ withHole \in Seq(Entries) /\ Len(withHole) = Len(objectTable) + 1
          /\ withName \in Seq(Classes \cup {NoClass}) /\ Len(withName) = Len(objectTable) + 1
      BY <2>1, EntryKinds, AppendProperties DEF TypeOK, TableTypes
    <2>6. /\ objectTable' \in Seq(Entries) /\ named' \in Seq(Classes \cup {NoClass})
          /\ Len(named') = Len(objectTable') /\ typesTable' \in Seq(Seq(Types))
      <3> HIDE DEF cs, ns, ts, withHole, withName
      <3>1. /\ objectTable' = withHole \o cs
            /\ named' = withName \o ns
            /\ typesTable' = typesTable \o ts
        BY <1>3 DEF NewObject, cs, ns, ts, withHole, withName
      <3>2. /\ withHole \o cs \in Seq(Entries)
            /\ Len(withHole \o cs) = Len(withHole) + Len(cs)
        BY <2>2, <2>5, ConcatTypes
      <3>3. /\ withName \o ns \in Seq(Classes \cup {NoClass})
            /\ Len(withName \o ns) = Len(withName) + Len(ns)
        BY <2>3, <2>5, ConcatTypes
      <3>4. typesTable' \in Seq(Seq(Types))
        BY <3>1, <2>4, ConcatProperties DEF TypeOK, TableTypes
      <3> QED
        BY <2>2, <2>3, <2>5, <3>1, <3>2, <3>3, <3>4, Zenon
    <2> QED
      BY <1>0, <1>3, <2>6 DEF NewObject, Reading, TypeOK, TableTypes, GroupTypes
  <1>4. ASSUME NEW k \in 0 .. MaxObjects, KnownObject(k) PROVE TypeOK'
    <2>1. At(k) \in Entries
      BY <1>0, <1>4, AtIsEntry DEF KnownObject
    <2>2. phase' = "loop" /\ components' \in Seq(Entries)
      BY <1>4, <2>1, EmitTypes DEF KnownObject
    <2>3. GroupTypes'
      BY <1>4, BeginTypes, EmptySeq DEF KnownObject
    <2> QED
      BY <1>4, <2>2, <2>3 DEF KnownObject, TypeOK, TableTypes
  <1>5. ASSUME NEW k \in 0 .. MaxObjects, OtherReference(k) PROVE TypeOK'
    <2> DEFINE e == IF k = Len(objectTable) THEN Hole ELSE At(k)
    <2>1. e \in Entries
      BY <1>0, <1>5, AtIsEntry, EntryKinds DEF OtherReference
    <2> HIDE DEF e
    <2>2. e.class \in Classes \cup {NoClass} /\ e.out \in Seq(Values)
      BY <2>1, EntryFields
    <2>3. PICK start \in BOOLEAN :
            /\ outV' = outV \o (IF e.kind = "class" THEN <<"class">> ELSE e.out)
            /\ named' = Append(named, IF start THEN e.class ELSE NoClass)
      BY <1>5 DEF OtherReference, e
    <2>4. <<"class">> \in Seq(Values)
      BY DEF Values
    <2>5. outV' \in Seq(Values)
      BY <2>2, <2>3, <2>4, ConcatProperties DEF TypeOK, GroupTypes
    <2>6. /\ objectTable' \in Seq(Entries)
          /\ named' \in Seq(Classes \cup {NoClass}) /\ Len(named') = Len(objectTable')
      BY <1>5, <2>2, <2>3, EntryKinds, EnterTypes DEF OtherReference
    <2> QED
      BY <1>0, <1>5, <2>5, <2>6 DEF OtherReference, Reading, TypeOK, TableTypes, GroupTypes
  <1> QED
    BY <1>1, <1>2, <1>3, <1>4, <1>5

\* Values that go to the place kept keep the types.
LEMMA FillTypes ==
    ASSUME TypeOK, NEW e \in Entries, placeholder < Len(objectTable), Placed,
           objectTable' = [objectTable EXCEPT ![placeholder + 1] = e]
    PROVE  objectTable' \in Seq(Entries) /\ Len(objectTable') = Len(objectTable)
  BY ExceptSeq, LenProperties DEF TypeOK, TableTypes, Placed, NoSpot

\* Every step that ends a group or the stream keeps the types.
LEMMA TypeEndSteps ==
    ASSUME TypeOK, PlaceholderOpen,
           \/ FillObject \/ FillData \/ LooseData \/ NoResult
           \/ BadReference \/ EmptyTypes \/ EndOfStream \/ Malformed
    PROVE  TypeOK'
  <1>0. <<>> \in Seq(Types) /\ (Placed => placeholder \in Nat /\ placeholder < Len(objectTable))
    BY EmptySeq DEF Placed, PlaceholderOpen, TypeOK, TableTypes
  <1>1. ASSUME FillObject PROVE TypeOK'
    <2> DEFINE c == At(placeholder + 1).class
               o == Entry("object", c, outV)
    <2>1. At(placeholder + 1) \in Entries
      BY <1>0, <1>1, AtIsEntry DEF FillObject, ClassFollows
    <2>2. c \in Classes
      BY <1>1, <2>1, EntryFields DEF FillObject, ClassFollows
    <2>3. o \in Entries
      BY <1>1, <2>2, EntryKinds DEF FillObject, Placed, TypeOK, GroupTypes
    <2> HIDE DEF c, o
    <2>4. objectTable' = [objectTable EXCEPT ![placeholder + 1] = o] /\ Emit(o) /\ Placed
      BY <1>1 DEF FillObject, c, o
    <2>5. objectTable' \in Seq(Entries) /\ Len(objectTable') = Len(objectTable)
      BY <1>0, <2>3, <2>4, FillTypes
    <2>6. phase' = "loop" /\ components' \in Seq(Entries)
      BY <2>3, <2>4, EmitTypes
    <2>7. GroupTypes'
      BY <1>0, <1>1, BeginTypes DEF FillObject
    <2> QED
      BY <1>1, <2>5, <2>6, <2>7 DEF FillObject, TypeOK, TableTypes
  <1>2. DataOf(outV) \in Entries \/ outV = <<>>
    BY EntryKinds DEF TypeOK, GroupTypes
  <1>3. ASSUME FillData PROVE TypeOK'
    <2>1. objectTable' \in Seq(Entries) /\ Len(objectTable') = Len(objectTable)
      BY <1>0, <1>2, <1>3, FillTypes DEF FillData, Placed
    <2>2. phase' = "loop" /\ components' \in Seq(Entries)
      BY <1>2, <1>3, EmitTypes DEF FillData, Placed
    <2>3. GroupTypes'
      BY <1>0, <1>3, BeginTypes DEF FillData
    <2> QED
      BY <1>3, <2>1, <2>2, <2>3 DEF FillData, TypeOK, TableTypes
  <1>4. ASSUME LooseData PROVE TypeOK'
    <2>1. phase' = "loop" /\ components' \in Seq(Entries)
      BY <1>2, <1>4, EmitTypes DEF LooseData
    <2>2. GroupTypes'
      BY <1>0, <1>4, BeginTypes DEF LooseData
    <2> QED
      BY <1>4, <2>1, <2>2 DEF LooseData, tables, TypeOK, TableTypes
  <1>5. ASSUME NoResult PROVE TypeOK'
    <2>1. GroupTypes'
      BY <1>0, <1>5, BeginTypes DEF NoResult
    <2> QED
      BY <1>5, <2>1 DEF NoResult, tables, TypeOK, TableTypes
  <1>6. ASSUME BadReference \/ EmptyTypes \/ EndOfStream \/ Malformed PROVE TypeOK'
    BY <1>6 DEF BadReference, EmptyTypes, EndOfStream, Malformed, tables, group, TypeOK, TableTypes, GroupTypes
  <1> QED
    BY <1>1, <1>3, <1>4, <1>5, <1>6

-----------------------------------------------------------------------------
(* The tables                                                              *)

\* The table is extended by entries that are no objects.
Extended ==
    /\ Len(objectTable) <= Len(objectTable')
    /\ \A i \in 1 .. Len(objectTable) : objectTable'[i] = objectTable[i] /\ named'[i] = named[i]
    /\ \A i \in Len(objectTable) + 1 .. Len(objectTable') : objectTable'[i].kind # "object"

\* One more entry, and the class it was opened with.
Entered(e, c) ==
    /\ Len(objectTable) \in Nat /\ Len(objectTable') = Len(objectTable) + 1
    /\ \A i \in 1 .. Len(objectTable) : objectTable'[i] = objectTable[i] /\ named'[i] = named[i]
    /\ objectTable'[Len(objectTable) + 1] = e /\ named'[Len(objectTable) + 1] = c

\* The entries that are kept when a place is filled.
Others(spot) ==
    /\ Len(objectTable') = Len(objectTable) /\ named' = named
    /\ \A i \in 1 .. Len(objectTable) : i # spot + 1 => objectTable'[i] = objectTable[i]

EntriesStayStep ==
    \A i \in DOMAIN objectTable :
        /\ i \in DOMAIN objectTable'
        /\ objectTable[i].kind \notin {"placeholder", "data"}
            => objectTable'[i] = objectTable[i]

Inv == TypeOK /\ PlaceholderOpen /\ ClassAtHand /\ ClassKept /\ ComponentsReadable

\* What one more entry does to the table.
LEMMA EnterOne ==
    ASSUME TypeOK, NEW e \in Entries, NEW c \in Classes \cup {NoClass},
           objectTable' = Append(objectTable, e), named' = Append(named, c)
    PROVE  Entered(e, c)
  BY AppendProperties, LenProperties DEF TypeOK, TableTypes, Entered

\* A hole and a chain of classes after it.
LEMMA EnterChain ==
    ASSUME TypeOK, NEW chain \in Chains, NewObject(chain)
    PROVE  /\ Extended
           /\ placeholder' = Len(objectTable) /\ placeholder' + 1 < Len(objectTable')
           /\ objectTable'[Len(objectTable) + 1] = Hole
           /\ objectTable'[Len(objectTable) + 2].class = chain[1]
           /\ named'[Len(objectTable) + 1] = chain[1]
  <1> DEFINE n == Len(objectTable)
             cs == [i \in 1 .. Len(chain) |-> ClassOf(chain[i])]
             ns == [i \in 1 .. Len(chain) |-> NoClass]
             withHole == Append(objectTable, Hole)
             withName == Append(named, chain[1])
  <1>1. /\ chain \in Seq(Classes) /\ Len(chain) \in Nat \ {0} /\ n \in Nat
        /\ \A i \in 1 .. Len(chain) : chain[i] \in Classes
    BY TypedStreamAssumption, LenProperties, ElementOfSeq, EmptySeq DEF TypeOK, TableTypes
  <1>2. /\ cs \in Seq(Entries) /\ Len(cs) = Len(chain)
        /\ \A i \in 1 .. Len(chain) : cs[i] = ClassOf(chain[i])
    BY <1>1, EntryKinds, IsASeq, LenProperties
  <1>3. ns \in Seq(Classes \cup {NoClass}) /\ Len(ns) = Len(chain)
    BY <1>1, IsASeq, LenProperties
  <1>4. /\ withHole \in Seq(Entries) /\ Len(withHole) = n + 1 /\ withHole[n + 1] = Hole
        /\ \A i \in 1 .. n : withHole[i] = objectTable[i]
    BY EntryKinds, AppendProperties, LenProperties DEF TypeOK, TableTypes
  <1>5. /\ withName \in Seq(Classes \cup {NoClass}) /\ Len(withName) = n + 1
        /\ withName[n + 1] = chain[1]
        /\ \A i \in 1 .. n : withName[i] = named[i]
    BY <1>1, AppendProperties, LenProperties DEF TypeOK, TableTypes
  <1> HIDE DEF cs, ns, withHole, withName
  <1>6. /\ objectTable' = withHole \o cs /\ named' = withName \o ns
        /\ placeholder' = n
    BY DEF NewObject, cs, ns, withHole, withName
  <1>7. /\ Len(withHole \o cs) = Len(withHole) + Len(cs)
        /\ \A i \in 1 .. Len(withHole) + Len(cs) :
            (withHole \o cs)[i] = IF i <= Len(withHole) THEN withHole[i] ELSE cs[i - Len(withHole)]
    BY <1>2, <1>4, ConcatProperties
  <1>8. \A i \in 1 .. Len(withName) + Len(ns) :
            (withName \o ns)[i] = IF i <= Len(withName) THEN withName[i] ELSE ns[i - Len(withName)]
    BY <1>3, <1>5, ConcatProperties
  <1>9. n + 1 \in Nat /\ Len(objectTable') = n + 1 + Len(chain)
    BY <1>1, <1>2, <1>4, <1>6, <1>7
  <1>10. ASSUME NEW i \in 1 .. n + 1
         PROVE  objectTable'[i] = withHole[i] /\ named'[i] = withName[i]
    <2>1. i \in 1 .. n + 1 + Len(chain) /\ i <= n + 1
      BY <1>1
    <2>2. (withHole \o cs)[i] = withHole[i]
      BY <1>2, <1>4, <1>7, <2>1
    <2>3. (withName \o ns)[i] = withName[i]
      BY <1>3, <1>5, <1>8, <2>1
    <2> QED
      BY <1>6, <2>2, <2>3
  <1>11. ASSUME NEW i \in n + 2 .. n + 1 + Len(chain)
         PROVE  objectTable'[i] = ClassOf(chain[i - (n + 1)])
    <2>1. i \in 1 .. n + 1 + Len(chain) /\ ~(i <= n + 1) /\ i - (n + 1) \in 1 .. Len(chain)
      BY <1>1
    <2>2. (withHole \o cs)[i] = cs[i - (n + 1)]
      BY <1>2, <1>4, <1>7, <2>1
    <2> QED
      BY <1>2, <1>6, <2>1, <2>2
  <1>12. \A c : ClassOf(c).kind = "class" /\ ClassOf(c).class = c /\ Hole.kind = "placeholder"
    BY DEF ClassOf, Hole, Entry
  <1>13. objectTable'[n + 1] = Hole /\ named'[n + 1] = chain[1]
    BY <1>1, <1>4, <1>5, <1>10
  <1>14. objectTable'[n + 2].class = chain[1]
    <2>1. n + 2 \in n + 2 .. n + 1 + Len(chain) /\ (n + 2) - (n + 1) = 1
      BY <1>1
    <2>2. objectTable'[n + 2] = ClassOf(chain[1])
      BY <1>11, <2>1
    <2> QED
      BY <1>12, <2>2
  <1>15. ASSUME NEW i \in n + 1 .. Len(objectTable')
         PROVE  objectTable'[i].kind # "object"
    <2>1. CASE i = n + 1
      BY <1>12, <1>13, <2>1
    <2>2. CASE i \in n + 2 .. n + 1 + Len(chain)
      BY <1>11, <1>12, <2>2
    <2> QED
      BY <1>1, <1>9, <2>1, <2>2
  <1>16. \A i \in 1 .. n : i \in 1 .. n + 1 /\ objectTable'[i] = objectTable[i] /\ named'[i] = named[i]
    BY <1>1, <1>4, <1>5, <1>10
  <1>17. Extended
    BY <1>1, <1>9, <1>15, <1>16 DEF Extended
  <1> QED
    BY <1>1, <1>6, <1>9, <1>13, <1>14, <1>17

\* Writing to a place in the table.
LEMMA FillOne ==
    ASSUME TypeOK, PlaceholderOpen, Placed, NEW e \in Entries,
           objectTable' = [objectTable EXCEPT ![placeholder + 1] = e], named' = named
    PROVE  Others(placeholder) /\ placeholder \in Nat /\ objectTable'[placeholder + 1] = e
  BY ExceptSeq, LenProperties DEF TypeOK, TableTypes, Placed, PlaceholderOpen, Others, NoSpot

-----------------------------------------------------------------------------
(* The invariant                                                           *)

\* What every step does to the tables and the components.
Kept == PlaceholderOpen' /\ ClassAtHand' /\ ClassKept' /\ ComponentsReadable' /\ EntriesStayStep

\* Extending the table keeps its entries and the class of its objects.
LEMMA ExtendedKeeps ==
    ASSUME TypeOK, TypeOK', ClassKept, Extended
    PROVE  ClassKept' /\ EntriesStayStep
  <1>1. /\ DOMAIN objectTable = 1 .. Len(objectTable) /\ Len(objectTable) \in Nat
        /\ DOMAIN objectTable' = 1 .. Len(objectTable') /\ Len(objectTable') \in Nat
    BY LenProperties DEF TypeOK, TableTypes
  <1> QED
    BY <1>1 DEF Extended, ClassKept, EntriesStayStep

\* An entry is emitted that can be read.
LEMMA EmitReadable ==
    ASSUME TypeOK, ComponentsReadable, NEW c \in Entries, c.kind \in {"object", "data"}, Emit(c)
    PROVE  ComponentsReadable'
  <1>1. /\ components' = Append(components, c)
        /\ Len(components') = Len(components) + 1 /\ Len(components) \in Nat
        /\ DOMAIN components = 1 .. Len(components)
        /\ DOMAIN components' = 1 .. Len(components')
        /\ \A i \in 1 .. Len(components) : components'[i] = components[i]
        /\ components'[Len(components) + 1] = c
    BY AppendProperties, LenProperties DEF TypeOK, Emit
  <1> QED
    BY <1>1 DEF ComponentsReadable

\* Steps that leave the table and its place alone.
LEMMA KeptIdle ==
    ASSUME Inv, UNCHANGED <<objectTable, placeholder, named>>, ComponentsReadable'
    PROVE  Kept
  BY DEF Inv, Kept, PlaceholderOpen, ClassAtHand, ClassFollows, At, ClassKept, EntriesStayStep

\* Embedded types are entered while a place may be kept.
LEMMA KeptEmbedded ==
    ASSUME Inv, TypeOK', Entered(Embedded, NoClass), UNCHANGED <<placeholder, components>>
    PROVE  Kept
  <1>1. /\ Len(objectTable) \in Nat /\ Len(objectTable') = Len(objectTable) + 1
        /\ \A i \in 1 .. Len(objectTable) : objectTable'[i] = objectTable[i] /\ named'[i] = named[i]
        /\ objectTable'[Len(objectTable) + 1] = Embedded
    BY DEF Entered
  <1>2. Embedded.kind = "types"
    BY DEF Embedded, Entry
  <1>3. Extended
    <2>1. \A i \in Len(objectTable) + 1 .. Len(objectTable') : i = Len(objectTable) + 1
      BY <1>1
    <2> QED
      BY <1>1, <1>2, <2>1 DEF Extended
  <1>4. placeholder # NoSpot => placeholder \in Nat
    BY DEF Inv, TypeOK, TableTypes
  <1>5. PlaceholderOpen'
    BY <1>1, <1>4 DEF Inv, PlaceholderOpen, At
  <1>6. ClassAtHand'
    <2> SUFFICES ASSUME placeholder # NoSpot, ClassFollows'
                 PROVE  At(placeholder + 1)'.class = named'[placeholder + 1]
      BY DEF ClassAtHand, At
    <2>1. placeholder + 1 < Len(objectTable)
      BY <1>1, <1>2, <1>4 DEF ClassFollows, At
    <2>2. ClassFollows
      BY <1>1, <1>4, <2>1 DEF ClassFollows, At
    <2>3. objectTable[placeholder + 1 + 1].class = named[placeholder + 1]
      BY <2>2 DEF Inv, ClassAtHand, At
    <2>4. /\ objectTable'[placeholder + 1 + 1] = objectTable[placeholder + 1 + 1]
          /\ named'[placeholder + 1] = named[placeholder + 1]
      BY <1>1, <1>4, <2>1
    <2> QED
      BY <2>3, <2>4 DEF At
  <1> QED
    BY <1>3, <1>5, <1>6, ExtendedKeeps DEF Inv, Kept, ComponentsReadable

\* A place is reserved and nothing follows it yet.
LEMMA KeptHole ==
    ASSUME Inv, TypeOK', NEW c \in Classes \cup {NoClass}, Entered(Hole, c),
           placeholder' = Len(objectTable), UNCHANGED components
    PROVE  Kept
  <1>1. /\ Len(objectTable) \in Nat /\ Len(objectTable') = Len(objectTable) + 1
        /\ \A i \in 1 .. Len(objectTable) : objectTable'[i] = objectTable[i] /\ named'[i] = named[i]
        /\ objectTable'[Len(objectTable) + 1] = Hole
    BY DEF Entered
  <1>2. Hole.kind = "placeholder"
    BY DEF Hole, Entry
  <1>3. Extended
    <2>1. \A i \in Len(objectTable) + 1 .. Len(objectTable') : i = Len(objectTable) + 1
      BY <1>1
    <2> QED
      BY <1>1, <1>2, <2>1 DEF Extended
  <1>4. PlaceholderOpen'
    BY <1>1, <1>2 DEF PlaceholderOpen, At
  <1>5. ClassAtHand'
    BY <1>1 DEF ClassAtHand, ClassFollows
  <1> QED
    BY <1>3, <1>4, <1>5, ExtendedKeeps DEF Inv, Kept, ComponentsReadable

\* A place is reserved and the chain of its class follows.
LEMMA KeptNewObject ==
    ASSUME Inv, TypeOK', NEW chain \in Chains, NewObject(chain)
    PROVE  Kept
  <1>1. /\ Extended
        /\ placeholder' = Len(objectTable) /\ placeholder' + 1 < Len(objectTable')
        /\ objectTable'[Len(objectTable) + 1] = Hole
        /\ objectTable'[Len(objectTable) + 2].class = chain[1]
        /\ named'[Len(objectTable) + 1] = chain[1]
    BY EnterChain DEF Inv
  <1>2. Hole.kind = "placeholder"
    BY DEF Hole, Entry
  <1>3. /\ Len(objectTable) \in Nat /\ Len(objectTable') \in Nat
        /\ (Len(objectTable) + 1) + 1 = Len(objectTable) + 2
    BY LenProperties DEF Inv, TypeOK, TableTypes
  <1>4. PlaceholderOpen'
    BY <1>1, <1>2, <1>3 DEF PlaceholderOpen, At
  <1>5. ClassAtHand'
    BY <1>1, <1>3 DEF ClassAtHand, At
  <1> QED
    BY <1>1, <1>4, <1>5, ExtendedKeeps DEF Inv, Kept, NewObject, ComponentsReadable

\* A reference to a complete object takes the place back.
LEMMA KeptKnownObject ==
    ASSUME Inv, NEW k \in Nat, KnownObject(k)
    PROVE  Kept
  <1>1. At(k) \in Entries
    BY AtIsEntry DEF Inv, KnownObject
  <1>2. ComponentsReadable'
    BY <1>1, EmitReadable DEF Inv, KnownObject
  <1> QED
    BY <1>2 DEF Inv, KnownObject, Kept, PlaceholderOpen, ClassAtHand, ClassKept, EntriesStayStep

\* Values go to the place kept: it holds no object, class or types.
LEMMA KeptFill ==
    ASSUME Inv, NEW e \in Entries, Placed,
           objectTable' = [objectTable EXCEPT ![placeholder + 1] = e], named' = named,
           e.kind \in {"object", "data"}, Emit(e),
           e.kind = "object" => e.class = named[placeholder + 1],
           \/ placeholder' = NoSpot
           \/ placeholder' = placeholder /\ ~ClassFollows /\ e.kind = "data"
    PROVE  Kept
  <1>1. Others(placeholder) /\ placeholder \in Nat /\ objectTable'[placeholder + 1] = e
    BY FillOne DEF Inv
  <1>2. /\ Len(objectTable) \in Nat /\ DOMAIN objectTable = 1 .. Len(objectTable)
        /\ DOMAIN objectTable' = 1 .. Len(objectTable)
        /\ placeholder < Len(objectTable) /\ placeholder # NoSpot
        /\ objectTable[placeholder + 1].kind \in {"placeholder", "data"}
    BY <1>1, LenProperties DEF Inv, TypeOK, TableTypes, PlaceholderOpen, Placed, At, Others
  <1>3. EntriesStayStep
    BY <1>1, <1>2 DEF EntriesStayStep, Others
  <1>4. ClassKept'
    BY <1>1, <1>2 DEF Inv, ClassKept, Others
  <1>5. ComponentsReadable'
    BY EmitReadable DEF Inv
  <1>6. PlaceholderOpen'
    BY <1>1, <1>2 DEF PlaceholderOpen, At, Others
  <1>7. ClassAtHand'
    <2>1. CASE placeholder' = NoSpot
      BY <2>1 DEF ClassAtHand
    <2>2. CASE placeholder' = placeholder /\ ~ClassFollows
      <3>1. ~ClassFollows'
        BY <1>1, <1>2, <2>2 DEF ClassFollows, At, Others
      <3> QED
        BY <3>1 DEF ClassAtHand
    <2> QED
      BY <2>1, <2>2
  <1> QED
    BY <1>3, <1>4, <1>5, <1>6, <1>7 DEF Kept

\* Every step keeps the types.
LEMMA TypeStep == TypeOK /\ PlaceholderOpen /\ [Next]_vars => TypeOK'
  <1> SUFFICES ASSUME TypeOK, PlaceholderOpen, [Next]_vars PROVE TypeOK'
    OBVIOUS
  <1>1. CASE UNCHANGED vars
    BY <1>1 DEF vars, tables, group, TypeOK, TableTypes, GroupTypes
  <1>2. CASE Next
    BY <1>2, TypeGroupSteps, TypeValueSteps, TypeEndSteps DEF Next
  <1> QED
    BY <1>1, <1>2

\* Every step keeps the rest of the invariant, and the entries of the table.
LEMMA KeptStep == Inv /\ TypeOK' /\ [Next]_vars => Kept
  <1> SUFFICES ASSUME Inv, TypeOK', [Next]_vars PROVE Kept
    OBVIOUS
  <1>0. MaxObjects \in Nat /\ MaxTypes \in Nat /\ TypeOK
    BY TypedStreamAssumption DEF Inv
  <1>1. CASE UNCHANGED <<objectTable, placeholder, named, components>>
    BY <1>1, KeptIdle DEF Inv, ComponentsReadable
  <1>2. ASSUME NEW ts \in TypeGroups, ReadNewEmbedded(ts) PROVE Kept
    BY <1>0, <1>2, EntryKinds, EnterOne, KeptEmbedded DEF ReadNewEmbedded
  <1>3. ASSUME NEW k \in 0 .. MaxTypes, ReadOldEmbedded(k) PROVE Kept
    <2>1. CASE UNCHANGED <<objectTable, named, seenEmbedded>>
      BY <1>1, <1>3, <2>1 DEF ReadOldEmbedded
    <2>2. CASE objectTable' = Append(objectTable, Embedded) /\ named' = Append(named, NoClass)
      BY <1>0, <1>3, <2>2, EntryKinds, EnterOne, KeptEmbedded DEF ReadOldEmbedded
    <2> QED
      BY <1>3, <2>1, <2>2 DEF ReadOldEmbedded
  <1>4. ASSUME NEW chain \in Chains, NewObject(chain) PROVE Kept
    BY <1>4, KeptNewObject
  <1>5. ASSUME NilObject PROVE Kept
    BY <1>0, <1>5, EntryKinds, EnterOne, KeptHole DEF NilObject
  <1>6. ASSUME NEW k \in 0 .. MaxObjects, KnownObject(k) PROVE Kept
    BY <1>0, <1>6, KeptKnownObject
  <1>7. ASSUME NEW k \in 0 .. MaxObjects, OtherReference(k) PROVE Kept
    <2> DEFINE e == IF k = Len(objectTable) THEN Hole ELSE At(k)
    <2>1. e \in Entries
      BY <1>0, <1>7, AtIsEntry, EntryKinds, LenProperties DEF OtherReference, TypeOK, TableTypes
    <2> HIDE DEF e
    <2>2. PICK start \in BOOLEAN : named' = Append(named, IF start THEN e.class ELSE NoClass)
      BY <1>7 DEF OtherReference, e
    <2>3. (IF start THEN e.class ELSE NoClass) \in Classes \cup {NoClass}
      BY <2>1, EntryFields
    <2> QED
      BY <1>0, <1>7, <2>2, <2>3, EntryKinds, EnterOne, KeptHole DEF OtherReference
  <1>8. \A vs \in Seq(Values) \ {<<>>} :
            DataOf(vs).kind = "data" /\ \A c : Entry("object", c, vs).kind = "object" /\ Entry("object", c, vs).class = c
    BY DEF DataOf, Entry
  <1>9. ASSUME FillObject PROVE Kept
    <2> DEFINE c == At(placeholder + 1).class
               o == Entry("object", c, outV)
    <2>1. placeholder + 1 \in Nat /\ placeholder + 1 < Len(objectTable)
      BY <1>9 DEF FillObject, Placed, ClassFollows, Inv, TypeOK, TableTypes
    <2>2. c \in Classes /\ c = named[placeholder + 1]
      BY <1>0, <1>9, <2>1, AtIsEntry, EntryFields DEF FillObject, Placed, ClassFollows, Inv, ClassAtHand
    <2>3. outV \in Seq(Values) \ {<<>>}
      BY <1>0, <1>9 DEF FillObject, Placed, TypeOK, GroupTypes
    <2>4. o \in Entries /\ o.kind = "object" /\ o.class = c
      BY <1>8, <2>2, <2>3, EntryKinds
    <2>5. /\ objectTable' = [objectTable EXCEPT ![placeholder + 1] = o] /\ Emit(o)
          /\ Placed /\ named' = named /\ placeholder' = NoSpot
      BY <1>9 DEF FillObject
    <2> HIDE DEF c, o
    <2> QED
      BY <2>2, <2>4, <2>5, KeptFill
  <1>10. ASSUME FillData PROVE Kept
    <2>1. outV \in Seq(Values) \ {<<>>}
      BY <1>0, <1>10 DEF FillData, Placed, TypeOK, GroupTypes
    <2>2. DataOf(outV) \in Entries /\ DataOf(outV).kind = "data"
      BY <1>8, <2>1, EntryKinds
    <2> QED
      BY <1>10, <2>2, KeptFill DEF FillData
  <1>11. ASSUME LooseData PROVE Kept
    <2>1. outV \in Seq(Values) \ {<<>>}
      BY <1>0, <1>11 DEF LooseData, TypeOK, GroupTypes
    <2>2. DataOf(outV) \in Entries /\ DataOf(outV).kind = "data"
      BY <1>8, <2>1, EntryKinds
    <2>3. ComponentsReadable'
      BY <1>11, <2>2, EmitReadable DEF LooseData, Inv
    <2> QED
      BY <1>11, <2>3, KeptIdle DEF LooseData, tables
  <1>12. ASSUME \/ \E ts \in TypeGroups : NewTypes(ts)
                \/ \E k \in 0 .. MaxTypes : OldTypes(k)
                \/ ReadValue \/ ReadNoEmbedded \/ BadReference \/ EmptyTypes
                \/ NoResult \/ EndOfStream \/ Malformed \/ UNCHANGED vars
         PROVE  UNCHANGED <<objectTable, placeholder, named, components>>
    BY <1>12 DEF NewTypes, OldTypes, ReadValue, ReadNoEmbedded, BadReference, EmptyTypes,
                 NoResult, EndOfStream, Malformed, tables, vars
  <1> QED
    BY <1>1, <1>2, <1>3, <1>4, <1>5, <1>6, <1>7, <1>9, <1>10, <1>11, <1>12 DEF Next

\* The decoder starts with empty tables.
LEMMA InvInit == Init => Inv
  <1> SUFFICES ASSUME Init PROVE Inv
    OBVIOUS
  <1>1. TypeOK
    BY TypeInit
  <1>2. DOMAIN objectTable = {} /\ DOMAIN components = {} /\ placeholder = NoSpot
    BY DEF Init
  <1> QED
    BY <1>1, <1>2 DEF Inv, PlaceholderOpen, ClassAtHand, ClassKept, ComponentsReadable

\* The invariant is inductive.
LEMMA InvStep == Inv /\ [Next]_vars => Inv' /\ EntriesStayStep
  BY TypeStep, KeptStep DEF Inv, Kept

\* It holds of every stream, at every step of the decoder.
THEOREM DecoderInvariant == Spec => []Inv
  BY InvInit, InvStep, PTL DEF Spec

-----------------------------------------------------------------------------
(* What it gives                                                           *)

\* The tables, the group and the result of the decoder stay in their types.
THEOREM DecoderTypes == Spec => []TypeOK
  <1>1. Inv => TypeOK
    BY DEF Inv
  <1> QED
    BY <1>1, DecoderInvariant, PTL

\* No write through the placeholder leaves the table or destroys an entry.
THEOREM PlaceStaysOpen == Spec => []PlaceholderOpen
  <1>1. Inv => PlaceholderOpen
    BY DEF Inv
  <1> QED
    BY <1>1, DecoderInvariant, PTL

\* An object is of the class its stream opened it with.
THEOREM ObjectsKeepTheirClass == Spec => []ClassKept
  <1>1. Inv => ClassKept
    BY DEF Inv
  <1> QED
    BY <1>1, DecoderInvariant, PTL

\* No accessor of a component panics on the kind of the component.
THEOREM ComponentsCanBeRead == Spec => []ComponentsReadable
  <1>1. Inv => ComponentsReadable
    BY DEF Inv
  <1> QED
    BY <1>1, DecoderInvariant, PTL

\* References of the stream stay good.
THEOREM ReferencesStay == Spec => EntriesStay
  <1>1. Inv /\ [Next]_vars => [EntriesStayStep]_vars
    BY InvStep
  <1>2. Spec => [][EntriesStayStep]_vars
    BY <1>1, DecoderInvariant, PTL DEF Spec
  <1> QED
    BY <1>2 DEF EntriesStay, EntriesStayStep

=============================================================================
