---------------------------- MODULE MessageParts ----------------------------
(***************************************************************************)
(* What Matrix shows of one message while the Messages app edits its parts *)
(* and takes parts back.                                                   *)
(*                                                                         *)
(* A version of the row is decoded (messages.go, messagecomponent.go,      *)
(* edited.go), converted into message parts (message.go), and paired with  *)
(* the parts shown so far (ConvertEditMessage).  Events of a portal are    *)
(* handled in the order they were queued, with the row as it was read; the *)
(* watcher may pass over versions.  Texts are known by the part and the    *)
(* version they come from.                                                 *)
(***************************************************************************)
EXTENDS Integers, SequencesExt

CONSTANTS
    N,        \* parts of the message as it was sent
    MaxEdits, \* bound on the edits of each part
    MaxQueue, \* bound on the events waiting in the portal
    MaxRuns   \* bound on the runs of attributes in the body

ASSUME MessagePartsAssumption ==
    N \in Nat \ {0} /\ MaxEdits \in Nat /\ MaxQueue \in Nat /\ MaxRuns \in Nat \ {0}

VARIABLES
    row,     \* the row of chat.db
    queue,   \* remote events of this message in the portal
    read,    \* the version read last, or the row before there was one
    shown,   \* the parts stored for the message: ID and content
    handled  \* the version whose conversion was handled last (history)

vars == <<row, queue, read, shown, handled>>

Parts == 1 .. N
Kinds == {"plain", "unsupported"}
Row == [kind : Kinds,            \* item type and balloon of the message
        edits : [Parts -> 0 .. MaxEdits],  \* ec: how often each part was edited
        unsent : SUBSET Parts,   \* rp: parts taken back
        retracted : BOOLEAN,     \* date_retracted
        runs : 1 .. MaxRuns,     \* runs of attributes in the body
        decodes : BOOLEAN,       \* does attributedBody decode?
        text : BOOLEAN]          \* are the plain columns set?

Untouched == [i \in Parts |-> 0]
NoRow == [kind |-> "none"]
Edited(m) == m.edits # Untouched \/ m.unsent # {}

Init ==
    /\ row \in {m \in Row : ~Edited(m) /\ ~m.retracted}
    /\ queue = <<>> /\ read = NoRow
    /\ shown = <<>> /\ handled = NoRow

-----------------------------------------------------------------------------
(* Decoding                                                                *)

\* A part that was edited and then taken back is taken back.
StatusOf(m, i) ==
    IF i \in m.unsent THEN "unsent" ELSE IF m.edits[i] > 0 THEN "edited" ELSE "original"

\* message_summary_info is there once something was edited.
EditedMessageParts(m) ==
    IF Edited(m) THEN [i \in Parts |-> StatusOf(m, i)] ELSE <<>>

\* Parts taken back are no longer in the body.
HasBody(m) == m.unsent # Parts /\ m.decodes

\* No run becomes a component of its own: the key of an attribute is a string
\* and never of type ComponentTypeKey (messagecomponent.go:59), so every run
\* continues a text,
\* and all but the first are appended to a copy of it (227).
CombinedComponents(m) == IF HasBody(m) THEN <<"text">> ELSE <<>>

Inserted(cs, i) == IF i > Len(cs) THEN Append(cs, "retraction") ELSE InsertAt(cs, i, "retraction")

\* The components once the first parts of the message have been gone through: a
\* retraction goes to the place of the part taken back, as far as there is one.
Made(m) ==
    LET made[n \in 0 .. N] ==
            IF n = 0 THEN CombinedComponents(m)
            ELSE IF StatusOf(m, n) = "unsent" THEN Inserted(made[n - 1], n) ELSE made[n - 1]
    IN made

Components(m) == Made(m)[N]

-----------------------------------------------------------------------------
(* Conversion                                                              *)

\* Mutant: a part taken back leaves no trace.
EditedPart_NoNotice(m, i) ==
    LET ps == EditedMessageParts(m) IN
    IF i \notin DOMAIN ps \/ ps[i] # "edited" THEN <<>> ELSE << <<"edit", i, m.edits[i]>> >>

\* The place of a component is taken for the place of a part.
EditedPart(m, i) ==
    LET ps == EditedMessageParts(m) IN
    IF i \notin DOMAIN ps THEN <<>>
    ELSE CASE ps[i] = "edited"   -> << <<"edit", i, m.edits[i]>> >>
           [] ps[i] = "unsent"   -> << <<"notice", i>> >>
           [] ps[i] = "original" -> <<>>

IsPartEdited(m, i) == i \in DOMAIN EditedMessageParts(m) /\ EditedMessageParts(m)[i] = "edited"

\* A body is formatted run by run, as far as its text has kept them: the first.
Body(m) == <<"body", m.edits, m.unsent, 1>>

PartOf(m, i) ==
    IF Components(m)[i] = "text" /\ ~IsPartEdited(m, i)
    THEN << Body(m) >>
    ELSE EditedPart(m, i)

\* ConvertMessageToParts.
Convert(m) ==
    IF m.kind = "unsupported" THEN << <<"error">> >>
    ELSE LET made == FlattenSeq([i \in DOMAIN Components(m) |-> PartOf(m, i)]) IN
         IF made = <<>> /\ m.text THEN << <<"text", m.edits, m.unsent>> >> ELSE made

\* The parts with their IDs.
Numbered(cs) == [i \in DOMAIN cs |-> [id |-> i - 1, content |-> cs[i]]]

-----------------------------------------------------------------------------
(* The Messages app                                                        *)

Change(m) == row' = m /\ UNCHANGED <<queue, read, shown, handled>>

EditPart(i) ==
    /\ i \notin row.unsent /\ row.edits[i] < MaxEdits /\ ~row.retracted
    /\ \E runs \in 1 .. MaxRuns, decodes \in BOOLEAN :
        Change([row EXCEPT !.edits[i] = @ + 1, !.runs = runs, !.decodes = decodes])

UnsendPart(i) ==
    /\ i \notin row.unsent /\ ~row.retracted
    /\ Change([row EXCEPT !.unsent = @ \cup {i}])

Retract ==
    /\ ~row.retracted
    /\ Change([row EXCEPT !.retracted = TRUE])

-----------------------------------------------------------------------------
(* The bridge                                                              *)

\* The watcher reads a version that is new to it and queues an event for it.
HandleMessage ==
    /\ row # read /\ Len(queue) < MaxQueue
    /\ queue' = Append(queue,
            [type |-> IF row.retracted THEN "remove" ELSE IF Edited(row) THEN "edit" ELSE "message",
             data |-> row])
    /\ read' = row
    /\ UNCHANGED <<row, shown, handled>>

Take(type) ==
    /\ queue # <<>> /\ Head(queue).type = type
    /\ queue' = Tail(queue)
    /\ handled' = Head(queue).data
    /\ UNCHANGED <<row, read>>

Message ==
    /\ Take("message")
    /\ shown' = IF shown = <<>> THEN Numbered(Convert(Head(queue).data)) ELSE shown

MessageRemove ==
    /\ Take("remove")
    /\ shown' = <<>>

\* The ID of the part shown at a place, or the new one's.
KeptId(existing, parts, i) == IF i \in DOMAIN existing THEN existing[i].id ELSE parts[i].id

\* Mutant: added parts are numbered from 0 again.
Paired_FreshIds(existing, parts) ==
    [i \in DOMAIN parts |->
        IF i \in DOMAIN existing THEN [id |-> existing[i].id, content |-> parts[i].content]
        ELSE [id |-> i - 1 - Len(existing), content |-> parts[i].content]]

\* Mutant: all parts are added.
Paired_AllAdded(existing, parts) ==
    [i \in DOMAIN existing \cap DOMAIN parts |->
        [id |-> existing[i].id, content |-> parts[i].content]] \o parts

\* Mutant: parts that are gone are not deleted.
Paired_NoneDeleted(existing, parts) ==
    [i \in DOMAIN existing \cup DOMAIN parts |->
        IF i \notin DOMAIN parts THEN existing[i]
        ELSE [id |-> KeptId(existing, parts, i), content |-> parts[i].content]]

\* Parts are paired by their place: a part shown keeps its ID, parts beyond
\* those shown are added, parts shown beyond the new ones are deleted.
Paired(existing, parts) ==
    [i \in DOMAIN parts |->
        [id |-> KeptId(existing, parts, i), content |-> parts[i].content]]

\* The framework drops an edit of a message it does not have.
Edit ==
    /\ Take("edit")
    /\ shown' = IF shown = <<>> THEN <<>> ELSE Paired(shown, Numbered(Convert(Head(queue).data)))

-----------------------------------------------------------------------------

Next ==
    \/ \E i \in Parts : EditPart(i) \/ UnsendPart(i)
    \/ Retract
    \/ HandleMessage \/ Message \/ MessageRemove \/ Edit

Spec == Init /\ [][Next]_vars

-----------------------------------------------------------------------------
(* Properties                                                              *)

ContentKinds == {"error", "body", "text", "edit", "notice"}

\* Events carry rows; a message never has more parts than it was sent with.
TypeOK ==
    /\ row \in Row /\ {read, handled} \subseteq Row \cup {NoRow}
    /\ \A i \in DOMAIN queue : queue[i].type \in {"message", "edit", "remove"} /\ queue[i].data \in Row
    /\ Len(queue) <= MaxQueue
    /\ Len(shown) <= N
    /\ \A i \in DOMAIN shown : shown[i].id \in Nat /\ shown[i].content[1] \in ContentKinds

\* The IDs stored for the parts of a message count from 0, whatever edits added
\* and deleted: two parts with one ID could not be told apart later.
IdsInOrder == \A i \in DOMAIN shown : shown[i].id = i - 1

\* What is shown is what a fresh conversion of the version handled last gives,
\* although it came about by pairing with what older versions had left; and
\* once the portal has nothing left to handle, that is the version read last.
ShownIsCurrent ==
    /\ shown # <<>> =>
        /\ DOMAIN shown = DOMAIN Convert(handled)
        /\ \A i \in DOMAIN shown : shown[i].content = Convert(handled)[i]
    /\ queue = <<>> => handled = read

\* A message does not vanish from Matrix before it is retracted as a whole, as
\* long as its body decodes: an edit without any part would delete them all, and
\* the framework would drop every edit after it.
StaysVisible ==
    [][(shown # <<>> /\ shown' = <<>>) => handled'.retracted \/ ~handled'.decodes]_vars

\* The text of a body is shown with all its runs.
WholeText ==
    \A i \in DOMAIN shown :
        shown[i].content[1] = "body" => shown[i].content[4] = handled.runs
=============================================================================
