---------------------------- MODULE TypedStream ----------------------------
(***************************************************************************)
(* The decoder of pkg/macos/typedstream.go: it turns the attributedBody of *)
(* a message, a serialised tree of objects, into a list of components.     *)
(*                                                                         *)
(* The stream is a sequence of groups: the types of some values, then the  *)
(* values.  It is chosen as the decoder reads it, any token at any place,  *)
(* and may end anywhere, so that what holds here holds for every stream.   *)
(* A token is a reference, a new list of types, a chain of new classes or  *)
(* a value; its bytes, the cursor and the END bytes skipped are left out.  *)
(* References count from 0, as in the stream.                              *)
(***************************************************************************)
EXTENDS Integers, Sequences

CONSTANTS
    Classes,      \* names of classes
    NoClass,      \* no class at all
    TypeGroups,   \* lists of types a stream may introduce
    Chains,       \* class chains a stream may introduce, most derived first
    MaxObjects,   \* bound on the object table
    MaxTypes,     \* bound on the type table
    MaxComponents \* bound on the components

Scalars == {"int", "uint", "float", "array", "unknown", "name"}
Types == {"object", "embedded", "string"} \cup Scalars

ASSUME TypedStreamAssumption ==
    /\ NoClass \notin Classes
    /\ TypeGroups \subseteq Seq(Types) \ {<<>>}
    /\ Chains \subseteq Seq(Classes) \ {<<>>}
    /\ MaxObjects \in Nat /\ MaxTypes \in Nat /\ MaxComponents \in Nat

VARIABLES
    phase,        \* what the decoder is doing
    objectTable,  \* objects, classes and embedded types seen
    typesTable,   \* lists of types seen; class names are in it as well
    placeholder,  \* the entry kept for the object being read, or NoSpot
    seenEmbedded, \* seenEmbededTypes
    todo,         \* types of the current group still to be read
    outV,         \* values of the current group
    isObj,        \* was there an object among them?
    components,   \* the result
    named         \* class each entry's object was opened with (history)

tables == <<objectTable, typesTable, placeholder, seenEmbedded, named>>
group == <<todo, outV, isObj>>
vars == <<phase, tables, group, components>>

NoSpot == -1
Entry(k, c, vs) == [kind |-> k, class |-> c, out |-> vs]
Hole == Entry("placeholder", NoClass, <<>>)
Embedded == Entry("types", NoClass, <<>>)
DataOf(vs) == Entry("data", NoClass, vs)
ClassOf(c) == Entry("class", c, <<>>)

\* The entry a reference of the stream means.
At(k) == objectTable[k + 1]

Init ==
    /\ phase = "loop"
    /\ objectTable = <<>> /\ typesTable = <<>> /\ placeholder = NoSpot
    /\ seenEmbedded = {} /\ named = <<>>
    /\ todo = <<>> /\ outV = <<>> /\ isObj = FALSE
    /\ components = <<>>

-----------------------------------------------------------------------------
(* Groups and their types                                                  *)

Begin(ts) == todo' = ts /\ outV' = <<>> /\ isObj' = FALSE

NewTypes(ts) ==
    /\ phase = "loop" /\ Len(typesTable) < MaxTypes
    /\ typesTable' = Append(typesTable, ts)
    /\ Begin(ts)
    /\ phase' = "types"
    /\ UNCHANGED <<objectTable, placeholder, seenEmbedded, named, components>>

\* A reference past the end of typesTable means nothing and is skipped.
OldTypes(k) ==
    /\ phase = "loop" /\ k < Len(typesTable)
    /\ Begin(typesTable[k + 1])
    /\ phase' = "types"
    /\ UNCHANGED <<tables, components>>

Reading(type) == phase = "types" /\ todo # <<>> /\ Head(todo) = type

Emit(c) ==
    /\ Len(components) < MaxComponents
    /\ components' = Append(components, c)
    /\ phase' = "loop"

-----------------------------------------------------------------------------
(* Values                                                                  *)

ReadValue ==
    /\ \E type \in Scalars \cup {"string"} :
        Reading(type) /\ outV' = Append(outV, type)
    /\ todo' = Tail(todo)
    /\ UNCHANGED <<phase, tables, isObj, components>>

\* Embedded data brings types of its own; what was read of the group is dropped.
\* New types are remembered under their place in objectTable, old ones under
\* their place in typesTable.
ReadNewEmbedded(ts) ==
    /\ Reading("embedded")
    /\ Len(objectTable) < MaxObjects /\ Len(typesTable) < MaxTypes
    /\ objectTable' = Append(objectTable, Embedded)
    /\ named' = Append(named, NoClass)
    /\ seenEmbedded' = seenEmbedded \cup {Len(objectTable)}
    /\ typesTable' = Append(typesTable, ts)
    /\ Begin(ts)
    /\ UNCHANGED <<phase, placeholder, components>>

ReadOldEmbedded(k) ==
    /\ Reading("embedded") /\ k < Len(typesTable)
    /\ \/ /\ k \in seenEmbedded
          /\ UNCHANGED <<objectTable, named, seenEmbedded>>
       \/ /\ k \notin seenEmbedded /\ Len(objectTable) < MaxObjects
          /\ objectTable' = Append(objectTable, Embedded)
          /\ named' = Append(named, NoClass)
          /\ seenEmbedded' = seenEmbedded \cup {k}
    /\ Begin(typesTable[k + 1])
    /\ UNCHANGED <<phase, typesTable, placeholder, components>>

ReadNoEmbedded ==
    /\ Reading("embedded")
    /\ Begin(<<>>)
    /\ phase' = "loop"
    /\ UNCHANGED <<tables, components>>

-----------------------------------------------------------------------------
(* Objects                                                                 *)

\* A hole is reserved for the object, then its classes are entered.  What ends
\* the chain, a reference or EMPTY, is not kept.
NewObject(chain) ==
    /\ Reading("object")
    /\ Len(objectTable) + Len(chain) < MaxObjects /\ Len(typesTable) + Len(chain) <= MaxTypes
    /\ placeholder' = Len(objectTable)
    /\ objectTable' = Append(objectTable, Hole) \o [i \in 1 .. Len(chain) |-> ClassOf(chain[i])]
    /\ named' = Append(named, chain[1]) \o [i \in 1 .. Len(chain) |-> NoClass]
    /\ typesTable' = typesTable \o [i \in 1 .. Len(chain) |-> <<"name">>]
    /\ todo' = Tail(todo) /\ isObj' = TRUE
    /\ UNCHANGED <<phase, seenEmbedded, outV, components>>

NilObject ==
    /\ Reading("object") /\ Len(objectTable) < MaxObjects
    /\ placeholder' = Len(objectTable)
    /\ objectTable' = Append(objectTable, Hole) /\ named' = Append(named, NoClass)
    /\ todo' = Tail(todo) /\ isObj' = TRUE
    /\ UNCHANGED <<phase, typesTable, seenEmbedded, outV, components>>

\* Mutant: the entry is dropped and still counts as the place of an object.
KnownObject_KeepsPlace(k) ==
    /\ Reading("object") /\ k < Len(objectTable) /\ At(k).kind = "object"
    /\ Begin(<<>>)
    /\ placeholder' = Len(objectTable)
    /\ Emit(At(k))
    /\ UNCHANGED <<objectTable, typesTable, seenEmbedded, named>>

\* Mutant: whatever is referred to is the result.
KnownObject_AnyEntry(k) ==
    /\ Reading("object") /\ k < Len(objectTable)
    /\ Begin(<<>>)
    /\ placeholder' = NoSpot
    /\ Emit(At(k))
    /\ UNCHANGED <<objectTable, typesTable, seenEmbedded, named>>

\* A reference to an object that is complete: it is the result of the group, the
\* hole reserved for it is taken back, and types still to be read are forgotten.
KnownObject(k) ==
    /\ Reading("object") /\ k < Len(objectTable) /\ At(k).kind = "object"
    /\ Begin(<<>>)
    /\ placeholder' = NoSpot
    /\ Emit(At(k))
    /\ UNCHANGED <<objectTable, typesTable, seenEmbedded, named>>

\* A reference to anything else, which may be the hole just reserved: values of
\* data are copied, a class counts as a value.  START opens a new object of that
\* class; readObject does not tell it from a plain reference.
OtherReference(k) ==
    /\ Reading("object") /\ Len(objectTable) < MaxObjects
    /\ k <= Len(objectTable)
    /\ placeholder' = Len(objectTable)
    /\ objectTable' = Append(objectTable, Hole)
    /\ \E start \in BOOLEAN :
        LET e == IF k = Len(objectTable) THEN Hole ELSE At(k) IN
        /\ e.kind # "object"
        /\ outV' = outV \o (IF e.kind = "class" THEN <<"class">> ELSE e.out)
        /\ named' = Append(named, IF start THEN e.class ELSE NoClass)
    /\ todo' = Tail(todo) /\ isObj' = TRUE
    /\ UNCHANGED <<phase, typesTable, seenEmbedded, components>>

\* An index of the stream is used on the table unchecked.
BadReference ==
    /\ Reading("object")
    /\ phase' = "panicked"
    /\ UNCHANGED <<tables, group, components>>

\* The first of no types at all is looked at.
EmptyTypes ==
    /\ phase = "loop" \/ Reading("embedded")
    /\ phase' = "panicked"
    /\ UNCHANGED <<tables, group, components>>

-----------------------------------------------------------------------------
(* The end of a group                                                      *)

Finishing == phase = "types" /\ todo = <<>>
Placed == placeholder # NoSpot /\ outV # <<>>
ClassFollows == placeholder + 1 < Len(objectTable) /\ At(placeholder + 1).kind = "class"

\* Mutant: the class is the last one entered, not the one after the hole.
FillObject_LastClass ==
    /\ Finishing /\ Placed /\ ClassFollows
    /\ LET o == Entry("object", At(Len(objectTable) - 1).class, outV) IN
        objectTable' = [objectTable EXCEPT ![placeholder + 1] = o] /\ Emit(o)
    /\ placeholder' = NoSpot
    /\ Begin(<<>>)
    /\ UNCHANGED <<typesTable, seenEmbedded, named>>

\* Mutant: the class is looked for in the hole.
FillObject_HoleClass ==
    /\ Finishing /\ Placed /\ ClassFollows
    /\ LET o == Entry("object", At(placeholder).class, outV) IN
        objectTable' = [objectTable EXCEPT ![placeholder + 1] = o] /\ Emit(o)
    /\ placeholder' = NoSpot
    /\ Begin(<<>>)
    /\ UNCHANGED <<typesTable, seenEmbedded, named>>

\* Values of an object whose classes were entered after its hole.
FillObject ==
    /\ Finishing /\ Placed /\ ClassFollows
    /\ LET o == Entry("object", At(placeholder + 1).class, outV) IN
        objectTable' = [objectTable EXCEPT ![placeholder + 1] = o] /\ Emit(o)
    /\ placeholder' = NoSpot
    /\ Begin(<<>>)
    /\ UNCHANGED <<typesTable, seenEmbedded, named>>

\* Mutant: data is entered behind the hole.
FillData_Behind ==
    /\ Finishing /\ Placed /\ ~ClassFollows
    /\ objectTable' = [objectTable EXCEPT ![Len(objectTable)] = DataOf(outV)]
    /\ Emit(DataOf(outV))
    /\ Begin(<<>>)
    /\ UNCHANGED <<typesTable, placeholder, seenEmbedded, named>>

\* Any other values go to the hole, which stays open: the next group overwrites
\* them.  The two cases before this one in the code are never met: a Class is in
\* outV by value where a pointer is looked for, and the hole never holds an
\* object (PlaceholderOpen).
FillData ==
    /\ Finishing /\ Placed /\ ~ClassFollows
    /\ objectTable' = [objectTable EXCEPT ![placeholder + 1] = DataOf(outV)]
    /\ Emit(DataOf(outV))
    /\ Begin(<<>>)
    /\ UNCHANGED <<typesTable, placeholder, seenEmbedded, named>>

LooseData ==
    /\ Finishing /\ placeholder = NoSpot /\ outV # <<>> /\ ~isObj
    /\ Emit(DataOf(outV))
    /\ Begin(<<>>)
    /\ UNCHANGED tables

\* An object without values yet gives no component.
NoResult ==
    /\ Finishing
    /\ outV = <<>> \/ (placeholder = NoSpot /\ isObj)
    /\ phase' = "loop"
    /\ Begin(<<>>)
    /\ UNCHANGED <<tables, components>>

EndOfStream ==
    /\ phase = "loop"
    /\ phase' = "done"
    /\ UNCHANGED <<tables, group, components>>

\* The stream ends within a token, or a token does not fit.
Malformed ==
    /\ phase \in {"loop", "types"}
    /\ phase' = "failed"
    /\ UNCHANGED <<tables, group, components>>

-----------------------------------------------------------------------------

Next ==
    \/ \E ts \in TypeGroups : NewTypes(ts) \/ ReadNewEmbedded(ts)
    \/ \E k \in 0 .. MaxTypes : OldTypes(k) \/ ReadOldEmbedded(k)
    \/ ReadValue \/ ReadNoEmbedded
    \/ \E chain \in Chains : NewObject(chain)
    \/ \E k \in 0 .. MaxObjects : KnownObject(k) \/ OtherReference(k)
    \/ NilObject \/ BadReference \/ EmptyTypes
    \/ FillObject \/ FillData \/ LooseData \/ NoResult
    \/ EndOfStream \/ Malformed

Spec == Init /\ [][Next]_vars

-----------------------------------------------------------------------------
(* Properties                                                              *)

Values == Scalars \cup {"string", "class"}
Bare == [kind : {"placeholder", "types"}, class : {NoClass}, out : {<<>>}]
ClassEntries == [kind : {"class"}, class : Classes, out : {<<>>}]
Objects == [kind : {"object"}, class : Classes, out : Seq(Values) \ {<<>>}]
Data == [kind : {"data"}, class : {NoClass}, out : Seq(Values) \ {<<>>}]
Entries == Bare \cup ClassEntries \cup Objects \cup Data

TableTypes ==
    /\ objectTable \in Seq(Entries) /\ typesTable \in Seq(Seq(Types))
    /\ placeholder \in Nat \cup {NoSpot}
    /\ seenEmbedded \subseteq Nat
    /\ named \in Seq(Classes \cup {NoClass}) /\ Len(named) = Len(objectTable)

GroupTypes == todo \in Seq(Types) /\ outV \in Seq(Values) /\ isObj \in BOOLEAN

\* What the tables, the current group and the result of the decoder range over.
\* An object has a class and values: readTypes takes one without for a copy.
TypeOK ==
    /\ phase \in {"loop", "types", "done", "failed", "panicked"}
    /\ TableTypes
    /\ GroupTypes
    /\ components \in Seq(Entries)

\* The place kept for an object is in the table and free: the writes through
\* *t.placeholder (typedstream.go:223, 239, 261) neither panic nor destroy an
\* object, a class or embedded types.
PlaceholderOpen ==
    placeholder # NoSpot =>
        placeholder < Len(objectTable) /\ At(placeholder).kind \in {"placeholder", "data"}

\* An object is of the class it was opened with, whatever was read between its
\* START and its values.
ClassKept ==
    \A i \in DOMAIN objectTable :
        objectTable[i].kind = "object" => objectTable[i].class = named[i]

\* Why: while the place is kept, only the chain read for it may follow it.
ClassAtHand ==
    (placeholder # NoSpot /\ ClassFollows) => At(placeholder + 1).class = named[placeholder + 1]

\* A component is an object or data, never an entry whose accessors panic
\* (archivableclass.go, archivableplaceholder.go, archivabletypes.go).
ComponentsReadable ==
    \A i \in DOMAIN components : components[i].kind \in {"object", "data"}

\* References stay good: the table never shrinks, and an object, a class or
\* embedded types once entered stay as they are.
EntriesStay ==
    [][\A i \in DOMAIN objectTable :
        /\ i \in DOMAIN objectTable'
        /\ objectTable[i].kind \notin {"placeholder", "data"}
            => objectTable'[i] = objectTable[i]]_vars

\* An object opened with a class seen before becomes an object of that class
\* when its values come, not mere data.
ObjectsFormed ==
    \A i \in DOMAIN objectTable :
        (named[i] # NoClass /\ objectTable[i].kind = "data") => "class" \in
            {objectTable[i].out[j] : j \in DOMAIN objectTable[i].out}
=============================================================================
