------------------------- MODULE MessagePartsProofs -------------------------
(***************************************************************************)
(* MessageParts for any number of parts, edits and queued events: whatever *)
(* a conversion gives, the pairing of ConvertEditMessage keeps the parts   *)
(* of a message numbered from 0 and their contents current; and a          *)
(* conversion never has more parts than the message, nor none while the    *)
(* body decodes, so edits never make a message vanish.                     *)
(***************************************************************************)
EXTENDS MessageParts, SequenceTheorems, WellFoundedInduction, TLAPS

\* A version nothing was done to: the only one reported as a new message.
Unchanged(m) == ~Edited(m) /\ ~m.retracted

\* What is read and queued are versions of the row.
Versions ==
    /\ row \in Row
    /\ queue \in Seq([type : {"message", "edit", "remove"}, data : Row])

\* A new message is reported once, first, and while nothing is shown.
NewFirst ==
    /\ read = NoRow => queue = <<>> /\ shown = <<>>
    /\ read # NoRow /\ Unchanged(row) => row = read
    /\ \A i \in DOMAIN queue : queue[i].type = "message" => i = 1 /\ shown = <<>>

\* The version read last is last in the queue.
LastRead == queue # <<>> => queue[Len(queue)].data = read

Inv == Versions /\ NewFirst /\ IdsInOrder /\ ShownIsCurrent /\ LastRead

\* Nothing is read at first.
LEMMA InvInit == Init => Inv
  <1> SUFFICES ASSUME Init PROVE Inv
    OBVIOUS
  <1>1. row \in Row /\ queue = <<>> /\ shown = <<>> /\ read = NoRow /\ handled = NoRow
    BY DEF Init
  <1>2. DOMAIN queue = {} /\ DOMAIN shown = {}
    BY <1>1
  <1>3. queue \in Seq([type : {"message", "edit", "remove"}, data : Row])
    BY <1>1
  <1> QED
    BY <1>1, <1>2, <1>3 DEF Inv, Versions, NewFirst, IdsInOrder, ShownIsCurrent, LastRead

\* What the app does to a row stays done.
LEMMA InvApp ==
    ASSUME Inv, Retract \/ \E i \in Parts : EditPart(i) \/ UnsendPart(i)
    PROVE  Inv'
  <1>1. UNCHANGED <<queue, read, shown, handled>>
    BY DEF Retract, EditPart, UnsendPart, Change
  <1>2. row \in Row
    BY DEF Inv, Versions
  <1>3. row' \in Row /\ ~Unchanged(row')
    <2>1. CASE Retract
      BY <1>2, <2>1 DEF Retract, Change, Row, Unchanged
    <2>2. ASSUME NEW i \in Parts, UnsendPart(i) PROVE row' \in Row /\ ~Unchanged(row')
      <3>1. row' = [row EXCEPT !.unsent = @ \cup {i}]
        BY <2>2 DEF UnsendPart, Change
      <3>2. row' \in Row /\ i \in row'.unsent
        BY <1>2, <3>1 DEF Row
      <3> QED
        BY <3>2 DEF Unchanged, Edited
    <2>3. ASSUME NEW i \in Parts, EditPart(i) PROVE row' \in Row /\ ~Unchanged(row')
      <3>1. PICK runs \in 1 .. MaxRuns, decodes \in BOOLEAN :
               row' = [row EXCEPT !.edits[i] = @ + 1, !.runs = runs, !.decodes = decodes]
        BY <2>3 DEF EditPart, Change
      <3>2. row.edits \in [Parts -> 0 .. MaxEdits] /\ row.edits[i] \in 0 .. MaxEdits
            /\ row.edits[i] < MaxEdits /\ MaxEdits \in Nat
        BY <1>2, <2>3, MessagePartsAssumption DEF EditPart, Row
      <3>3. row.edits[i] + 1 \in 0 .. MaxEdits /\ row.edits[i] + 1 # 0
        BY <3>2
      <3> DEFINE e == [row.edits EXCEPT ![i] = row.edits[i] + 1]
      <3>4. e \in [Parts -> 0 .. MaxEdits] /\ e[i] # 0
        BY <3>2, <3>3
      <3>5. row' = [row EXCEPT !.edits = e, !.runs = runs, !.decodes = decodes]
        BY <1>2, <3>1 DEF Row
      <3> HIDE DEF e
      <3>6. row' \in Row /\ row'.edits = e
        BY <1>2, <3>4, <3>5 DEF Row
      <3>7. e # Untouched
        BY <3>4 DEF Untouched
      <3> QED
        BY <3>6, <3>7 DEF Unchanged, Edited
    <2> QED
      BY <2>1, <2>2, <2>3
  <1>4. ASSUME NEW m PROVE Unchanged(m)' = Unchanged(m)
    BY DEF Unchanged, Edited
  <1>5. Versions' /\ NewFirst'
    BY <1>1, <1>3 DEF Inv, Versions, NewFirst, Unchanged, Edited
  <1> QED
    BY <1>1, <1>5 DEF Inv, IdsInOrder, ShownIsCurrent, LastRead

\* Only the first version read can be reported as new, as every later one was
\* changed.
LEMMA InvHandle ==
    ASSUME Inv, HandleMessage
    PROVE  Inv'
  <1>1. PICK type \in {"message", "edit", "remove"} :
           /\ queue' = Append(queue, [type |-> type, data |-> row])
           /\ type = "message" => Unchanged(row)
    BY DEF HandleMessage, Unchanged
  <1>2. UNCHANGED <<row, shown, handled>> /\ read' = row /\ row # read /\ row \in Row
    BY DEF HandleMessage, Inv, Versions
  <1> DEFINE e == [type |-> type, data |-> row]
             E == [type : {"message", "edit", "remove"}, data : Row]
  <1>3. e \in E /\ e.type = type /\ queue' = Append(queue, e) /\ queue \in Seq(E)
    BY <1>1, <1>2 DEF Inv, Versions
  <1> HIDE DEF e, E
  <1>4. /\ queue' \in Seq(E) /\ Len(queue) \in Nat
        /\ DOMAIN queue' = DOMAIN queue \cup {Len(queue) + 1}
        /\ queue'[Len(queue) + 1] = e /\ \A i \in DOMAIN queue : queue'[i] = queue[i]
    BY <1>3
  <1>5. type = "message" => queue = <<>> /\ shown = <<>>
    BY <1>1, <1>2 DEF Inv, NewFirst
  <1>6. \A i \in DOMAIN queue' : queue'[i].type = "message" => i = 1 /\ shown' = <<>>
    <2>1. ASSUME NEW i \in DOMAIN queue, queue'[i].type = "message" PROVE i = 1 /\ shown' = <<>>
      BY <1>2, <1>4, <2>1 DEF Inv, NewFirst
    <2>2. type = "message" => Len(queue) + 1 = 1
      BY <1>5
    <2> QED
      BY <1>2, <1>3, <1>4, <1>5, <2>1, <2>2
  <1>7. Versions'
    BY <1>2, <1>4 DEF Versions, E
  <1>8. row # NoRow
    <2>1. DOMAIN NoRow = {"kind"}
      BY DEF NoRow
    <2>2. DOMAIN row = {"kind", "edits", "unsent", "retracted", "runs", "decodes", "text"}
      BY <1>2 DEF Row
    <2> QED
      BY <2>1, <2>2
  <1>9. NewFirst'
    BY <1>2, <1>6, <1>8 DEF NewFirst
  <1>10. queue' # <<>> /\ Len(queue') = Len(queue) + 1 /\ e.data = row
    BY <1>3 DEF e
  <1>11. LastRead'
    BY <1>2, <1>4, <1>10 DEF LastRead
  <1> QED
    BY <1>2, <1>7, <1>9, <1>10, <1>11 DEF Inv, IdsInOrder, ShownIsCurrent
\* Taking an event leaves no report of a new message behind it.
LEMMA TakeLeaves ==
    ASSUME Inv, NEW type, Take(type)
    PROVE  /\ Versions' /\ UNCHANGED <<row, read>> /\ read # NoRow
           /\ Head(queue).type = type /\ handled' = Head(queue).data
           /\ \A i \in DOMAIN queue' : queue'[i].type # "message"
           /\ type = "message" => shown = <<>>
           /\ LastRead' /\ (queue' = <<>> => handled' = read')
  <1> DEFINE E == [type : {"message", "edit", "remove"}, data : Row]
  <1>1. queue' = Tail(queue) /\ queue # <<>> /\ Head(queue).type = type
        /\ handled' = Head(queue).data /\ UNCHANGED <<row, read>>
    BY DEF Take
  <1>2. queue \in Seq(E)
    BY DEF Inv, Versions
  <1> HIDE DEF E
  <1>3. /\ queue' \in Seq(E) /\ Len(queue) \in Nat /\ 1 \in DOMAIN queue
        /\ Head(queue) = queue[1]
        /\ \A i \in DOMAIN queue' : i \in Nat \ {0} /\ i + 1 \in DOMAIN queue /\ queue'[i] = queue[i + 1]
    BY <1>1, <1>2
  <1>4. \A i \in DOMAIN queue' : queue'[i].type # "message"
    <2> SUFFICES ASSUME NEW i \in DOMAIN queue', queue'[i].type = "message" PROVE FALSE
      OBVIOUS
    <2>1. i + 1 \in DOMAIN queue /\ queue[i + 1].type = "message" /\ i \in Nat \ {0}
      BY <1>3
    <2>2. i + 1 = 1
      BY <2>1 DEF Inv, NewFirst
    <2> QED
      BY <2>1, <2>2
  <1>5. type = "message" => shown = <<>>
    BY <1>1, <1>3 DEF Inv, NewFirst
  <1>6. read # NoRow
    BY <1>1 DEF Inv, NewFirst
  <1>7. queue[Len(queue)].data = read
    BY <1>1 DEF Inv, LastRead
  <1>8. Len(queue') = Len(queue) - 1 /\ Len(queue) \in Nat \ {0}
        /\ (queue' # <<>> => queue'[Len(queue')] = queue[Len(queue)])
        /\ (queue' = <<>> => Len(queue) = 1)
    <2>1. Len(queue) \in Nat \ {0} /\ Len(queue') = Len(queue) - 1
      BY <1>1, <1>2
    <2>2. \A i \in 1 .. Len(queue') : queue'[i] = queue[i + 1]
      BY <1>1, <1>2, <2>1
    <2>3. queue' # <<>> => Len(queue') \in 1 .. Len(queue')
      BY <1>3, <2>1
    <2>4. queue' = <<>> => Len(queue') = 0
      OBVIOUS
    <2>5. Len(queue') + 1 = Len(queue)
      BY <2>1
    <2> QED
      BY <2>1, <2>2, <2>3, <2>4, <2>5
  <1>9. LastRead' /\ (queue' = <<>> => handled' = read')
    BY <1>1, <1>3, <1>7, <1>8 DEF LastRead
  <1> QED
    BY <1>1, <1>2, <1>3, <1>4, <1>5, <1>6, <1>9 DEF Inv, Versions, E

\* Numbered parts count from 0 and say what the conversion says.
LEMMA NumberedParts ==
    ASSUME NEW cs
    PROVE  /\ DOMAIN Numbered(cs) = DOMAIN cs
           /\ \A i \in DOMAIN cs : Numbered(cs)[i].id = i - 1 /\ Numbered(cs)[i].content = cs[i]
  BY DEF Numbered

\* Pairing keeps the numbers, and says what the new parts say.
LEMMA PairedParts ==
    ASSUME NEW old, NEW new,
           \A i \in DOMAIN old : old[i].id = i - 1,
           \A i \in DOMAIN new : new[i].id = i - 1
    PROVE  /\ DOMAIN Paired(old, new) = DOMAIN new
           /\ \A i \in DOMAIN new : /\ Paired(old, new)[i].id = i - 1
                                    /\ Paired(old, new)[i].content = new[i].content
  BY DEF Paired, KeptId

\* The handlers of the portal keep numbers and contents.
LEMMA InvPortal ==
    ASSUME Inv, Message \/ MessageRemove \/ Edit
    PROVE  Inv'
  <1> DEFINE c == Convert(Head(queue).data)
  <1>1. CASE Message
    <2>1. Take("message") /\ shown' = IF shown = <<>> THEN Numbered(c) ELSE shown
      BY <1>1 DEF Message
    <2>2. /\ Versions' /\ UNCHANGED <<row, read>> /\ read # NoRow
          /\ handled' = Head(queue).data /\ shown = <<>>
          /\ LastRead' /\ (queue' = <<>> => handled' = read')
          /\ \A i \in DOMAIN queue' : queue'[i].type # "message"
      BY <2>1, TakeLeaves
    <2>3. shown' = Numbered(c) /\ c = Convert(handled')
      BY <2>1, <2>2
    <2> HIDE DEF c
    <2>4. NewFirst'
      BY <2>2 DEF Inv, NewFirst, Unchanged, Edited
    <2>5. DOMAIN shown' = DOMAIN c
          /\ \A i \in DOMAIN c : shown'[i].id = i - 1 /\ shown'[i].content = c[i]
      BY <2>3, NumberedParts
    <2>6. IdsInOrder'
      BY <2>5 DEF IdsInOrder
    <2>7. ShownIsCurrent'
      BY <2>2, <2>3, <2>5 DEF ShownIsCurrent
    <2> QED
      BY <2>2, <2>4, <2>6, <2>7 DEF Inv
  <1>2. CASE MessageRemove
    <2>1. Take("remove") /\ shown' = <<>>
      BY <1>2 DEF MessageRemove
    <2>2. /\ Versions' /\ UNCHANGED <<row, read>> /\ read # NoRow
          /\ LastRead' /\ (queue' = <<>> => handled' = read')
          /\ \A i \in DOMAIN queue' : queue'[i].type # "message"
      BY <2>1, TakeLeaves
    <2>3. DOMAIN shown' = {}
      BY <2>1
    <2> QED
      BY <2>1, <2>2, <2>3 DEF Inv, NewFirst, Unchanged, Edited, IdsInOrder, ShownIsCurrent
  <1>3. CASE Edit
    <2>1. Take("edit") /\ shown' = IF shown = <<>> THEN <<>> ELSE Paired(shown, Numbered(c))
      BY <1>3 DEF Edit
    <2>2. /\ Versions' /\ UNCHANGED <<row, read>> /\ read # NoRow
          /\ handled' = Head(queue).data
          /\ LastRead' /\ (queue' = <<>> => handled' = read')
          /\ \A i \in DOMAIN queue' : queue'[i].type # "message"
      BY <2>1, TakeLeaves
    <2>3. c = Convert(handled')
      BY <2>2
    <2> HIDE DEF c
    <2>4. NewFirst'
      BY <2>2 DEF Inv, NewFirst, Unchanged, Edited
    <2>5. CASE shown = <<>>
      <3>1. shown' = <<>> /\ DOMAIN shown' = {}
        BY <2>1, <2>5
      <3> QED
        BY <2>2, <2>4, <3>1 DEF Inv, IdsInOrder, ShownIsCurrent
    <2>6. CASE shown # <<>>
      <3>1. \A i \in DOMAIN shown : shown[i].id = i - 1
        BY DEF Inv, IdsInOrder
      <3>2. DOMAIN shown' = DOMAIN c
            /\ \A i \in DOMAIN c : shown'[i].id = i - 1 /\ shown'[i].content = c[i]
        BY <2>1, <2>6, <3>1, NumberedParts, PairedParts
      <3>3. IdsInOrder'
        BY <3>2 DEF IdsInOrder
      <3>4. ShownIsCurrent'
        BY <2>2, <2>3, <3>2 DEF ShownIsCurrent
      <3> QED
        BY <2>2, <2>4, <3>3, <3>4 DEF Inv
    <2> QED
      BY <2>5, <2>6
  <1> QED
    BY <1>1, <1>2, <1>3

\* Every step keeps the invariant.
LEMMA InvNext == Inv /\ [Next]_vars => Inv'
  <1> SUFFICES ASSUME Inv, [Next]_vars PROVE Inv'
    OBVIOUS
  <1>1. CASE UNCHANGED vars
    BY <1>1 DEF vars, Inv, Versions, NewFirst, Unchanged, Edited, IdsInOrder, ShownIsCurrent, LastRead
  <1> QED
    BY <1>1, InvApp, InvHandle, InvPortal DEF Next

\* The invariant of the parts of a message.
THEOREM PartsInvariant == Spec => []Inv
  BY InvInit, InvNext, PTL DEF Spec

\* Parts are numbered from 0 whatever edits added and deleted
\* (message.go:418-444).
THEOREM PartsKeepIds == Spec => []IdsInOrder
  <1>1. Inv => IdsInOrder
    BY DEF Inv
  <1> QED
    BY <1>1, PartsInvariant, PTL

\* What is shown is the conversion of the version handled last, whatever a
\* conversion gives, and of the version read last when all is handled
\* (message.go:408-446, client.go:361-416).
THEOREM PartsAreCurrent == Spec => []ShownIsCurrent
  <1>1. Inv => ShownIsCurrent
    BY DEF Inv
  <1> QED
    BY <1>1, PartsInvariant, PTL

-----------------------------------------------------------------------------
(* What a conversion gives                                                 *)

\* Numbers are well ordered: induction below goes by the least counterexample.
LEMMA LeastOf ==
    ASSUME NEW T \in SUBSET Nat, T # {}
    PROVE  \E n \in T : \A k \in T : n <= k
  <1> DEFINE R == OpToRel(<, Nat)
  <1>1. IsWellFoundedOn(R, Nat)
    BY NatLessThanWellFounded
  <1>2. \A x, y \in Nat : x < y => <<x, y>> \in R
    BY DEF OpToRel
  <1> HIDE DEF R
  <1>3. PICK n \in T : \A k \in T : ~(<<k, n>> \in R)
    BY <1>1, WFMin, Zenon
  <1>4. ASSUME NEW k \in T PROVE n <= k
    <2>1. n \in Nat /\ k \in Nat
      OBVIOUS
    <2>2. ~(k < n)
      BY <1>2, <1>3, <2>1
    <2> QED
      BY <2>1, <2>2
  <1> QED
    BY <1>4

\* A set of numbers with 0 and the successor of each of its members below a
\* bound has every number up to the bound.
LEMMA AllUpTo ==
    ASSUME NEW last \in Nat, NEW S, 0 \in S,
           \A n \in 1 .. last : n - 1 \in S => n \in S
    PROVE  0 .. last \subseteq S
  <1> DEFINE T == (0 .. last) \ S
  <1> SUFFICES ASSUME T # {} PROVE FALSE
    OBVIOUS
  <1>1. PICK n \in T : \A k \in T : n <= k
    <2>1. T \in SUBSET Nat
      OBVIOUS
    <2> HIDE DEF T
    <2> QED
      BY <2>1, LeastOf
  <1>2. n \in 1 .. last /\ n - 1 \in 0 .. last /\ n - 1 < n
    BY <1>1
  <1> QED
    BY <1>1, <1>2

\* The components after each part are those after the part before it, with a
\* retraction put in when the part was taken back (messages.go:385-394).
LEMMA MadeStep ==
    ASSUME NEW m
    PROVE  /\ Made(m)[0] = CombinedComponents(m)
           /\ \A n \in 1 .. N :
                 Made(m)[n] = IF StatusOf(m, n) = "unsent" THEN Inserted(Made(m)[n - 1], n)
                              ELSE Made(m)[n - 1]
  <1> DEFINE Step(n, cs) == IF StatusOf(m, n) = "unsent" THEN Inserted(cs, n) ELSE cs
             Table(f, last) == [n \in 0 .. last |-> IF n = 0 THEN CombinedComponents(m)
                                                    ELSE Step(n, f[n - 1])]
             S == {k \in 0 .. N : \E f : f = Table(f, k)}
  <1>0. N \in Nat
    BY MessagePartsAssumption
  <1>1. 0 \in S
    <2> DEFINE f == [n \in 0 .. 0 |-> CombinedComponents(m)]
    <2>1. \A n \in 0 .. 0 : n = 0
      OBVIOUS
    <2>2. f = Table(f, 0)
      BY <2>1
    <2>3. \E g : g = Table(g, 0)
      <3> WITNESS f
      <3> QED
        BY <2>2
    <2> QED
      BY <1>0, <2>3
  <1>2. ASSUME NEW n \in 1 .. N, n - 1 \in S PROVE n \in S
    <2>1. PICK g : g = Table(g, n - 1)
      BY <1>2
    <2> DEFINE h == [k \in 0 .. n |-> IF k = n THEN Step(n, g[n - 1]) ELSE g[k]]
    <2> HIDE DEF Step
    <2>2. \A k \in 0 .. n : h[k] = IF k = 0 THEN CombinedComponents(m) ELSE Step(k, h[k - 1])
      <3> SUFFICES ASSUME NEW k \in 0 .. n
                   PROVE  h[k] = IF k = 0 THEN CombinedComponents(m) ELSE Step(k, h[k - 1])
        OBVIOUS
      <3>1. CASE k = n
        <4>1. n # 0 /\ n - 1 \in 0 .. n /\ n - 1 # n
          OBVIOUS
        <4> QED
          BY <3>1, <4>1
      <3>2. CASE k # n
        <4>1. k \in 0 .. (n - 1) /\ h[k] = g[k]
          BY <3>2
        <4>2. k # 0 => k - 1 \in 0 .. n /\ k - 1 # n /\ h[k - 1] = g[k - 1]
          BY <4>1
        <4> QED
          BY <2>1, <4>1, <4>2
      <3> QED
        BY <3>1, <3>2
    <2>3. h = Table(h, n)
      BY <2>2
    <2>4. \E f : f = Table(f, n)
      <3> HIDE DEF h
      <3> WITNESS h
      <3> QED
        BY <2>3
    <2> QED
      BY <1>0, <2>4
  <1>3. N \in S
    <2> HIDE DEF S
    <2> QED
      BY <1>0, <1>1, <1>2, AllUpTo
  <1>4. \E f : f = Table(f, N)
    BY <1>3
  <1>5. Made(m) = CHOOSE f : f = Table(f, N)
    BY DEF Made
  <1>6. Made(m) = Table(Made(m), N)
    BY <1>4, <1>5
  <1> QED
    BY <1>0, <1>6
\* A flattened sequence of short sequences: one of its elements for each that is
\* not empty (the parts of ConvertMessageToParts, message.go:186-260).
LEMMA FlattenStep ==
    ASSUME NEW seqs, Len(seqs) \in Nat \ {0}
    PROVE  \E f : /\ FlattenSeq(seqs) = f[Len(seqs)] /\ f[1] = seqs[1]
                  /\ \A i \in 2 .. Len(seqs) : f[i] = f[i - 1] \o seqs[i]
  <1> DEFINE Table(f, last) == [i \in 1 .. last |-> IF i = 1 THEN seqs[1] ELSE f[i - 1] \o seqs[i]]
             S == {k \in 0 .. Len(seqs) : \E f : f = Table(f, k)}
  <1>0. Len(seqs) \in Nat /\ Len(seqs) # 0
    OBVIOUS
  <1>1. 0 \in S
    <2>1. \E f : f = Table(f, 0)
      <3> DEFINE f == [i \in 1 .. 0 |-> seqs[1]]
      <3>1. 1 .. 0 = {}
        OBVIOUS
      <3>2. f = Table(f, 0)
        BY <3>1
      <3> HIDE DEF f
      <3> WITNESS f
      <3> QED
        BY <3>2
    <2> HIDE DEF Table
    <2> QED
      BY <1>0, <2>1
  <1>2. ASSUME NEW n \in 1 .. Len(seqs), n - 1 \in S PROVE n \in S
    <2>1. PICK g : g = Table(g, n - 1)
      BY <1>2
    <2> DEFINE h == [i \in 1 .. n |-> IF i = n THEN IF i = 1 THEN seqs[1] ELSE g[n - 1] \o seqs[n]
                                      ELSE g[i]]
    <2>2. \A i \in 1 .. n : h[i] = IF i = 1 THEN seqs[1] ELSE h[i - 1] \o seqs[i]
      <3> SUFFICES ASSUME NEW i \in 1 .. n
                   PROVE  h[i] = IF i = 1 THEN seqs[1] ELSE h[i - 1] \o seqs[i]
        OBVIOUS
      <3>1. CASE i = n
        <4>1. i # 1 => n - 1 \in 1 .. n /\ n - 1 # n /\ h[n - 1] = g[n - 1]
          BY <3>1
        <4>2. h[i] = IF i = 1 THEN seqs[1] ELSE g[n - 1] \o seqs[n]
          BY <3>1
        <4> HIDE DEF h
        <4> QED
          BY <3>1, <4>1, <4>2
      <3>2. CASE i # n
        <4>1. i \in 1 .. (n - 1) /\ h[i] = g[i]
          BY <3>2
        <4>2. i # 1 => i - 1 \in 1 .. n /\ i - 1 # n /\ h[i - 1] = g[i - 1]
          BY <4>1
        <4>3. g[i] = IF i = 1 THEN seqs[1] ELSE g[i - 1] \o seqs[i]
          BY <2>1, <4>1
        <4> HIDE DEF h
        <4> QED
          BY <4>1, <4>2, <4>3
      <3> QED
        BY <3>1, <3>2
    <2>3. h = Table(h, n)
      BY <2>2
    <2>4. \E f : f = Table(f, n)
      <3> HIDE DEF h
      <3> WITNESS h
      <3> QED
        BY <2>3
    <2> HIDE DEF Table
    <2> QED
      BY <1>0, <2>4
  <1>3. Len(seqs) \in S
    <2> HIDE DEF S
    <2> QED
      BY <1>1, <1>2, AllUpTo
  <1> DEFINE flatten == CHOOSE f : f = [i \in 1 .. Len(seqs) |-> IF i = 1 THEN seqs[i] ELSE f[i - 1] \o seqs[i]]
  <1>4. \E f : f = Table(f, Len(seqs))
    BY <1>3
  <1>5. \A f : Table(f, Len(seqs)) = [i \in 1 .. Len(seqs) |-> IF i = 1 THEN seqs[i] ELSE f[i - 1] \o seqs[i]]
    OBVIOUS
  <1>6. flatten = [i \in 1 .. Len(seqs) |-> IF i = 1 THEN seqs[i] ELSE flatten[i - 1] \o seqs[i]]
    <2>1. \E f : f = [i \in 1 .. Len(seqs) |-> IF i = 1 THEN seqs[i] ELSE f[i - 1] \o seqs[i]]
      BY <1>4, <1>5
    <2> QED
      BY <2>1
  <1>7. FlattenSeq(seqs) = flatten[Len(seqs)]
    BY DEF FlattenSeq
  <1> HIDE DEF flatten
  <1>8. flatten[1] = seqs[1]
    <2>1. 1 \in 1 .. Len(seqs)
      BY <1>0
    <2> QED
      BY <1>6, <2>1
  <1>9. ASSUME NEW i \in 2 .. Len(seqs) PROVE flatten[i] = flatten[i - 1] \o seqs[i]
    <2>1. i \in 1 .. Len(seqs) /\ i # 1
      BY <1>0
    <2> QED
      BY <1>6, <2>1
  <1> QED
    BY <1>7, <1>8, <1>9

LEMMA Flattened ==
    ASSUME NEW C, NEW seqs \in Seq(Seq(C)), seqs # <<>>,
           \A i \in DOMAIN seqs : Len(seqs[i]) <= 1
    PROVE  /\ FlattenSeq(seqs) \in Seq(C)
           /\ Len(FlattenSeq(seqs)) <= Len(seqs)
           /\ FlattenSeq(seqs) = <<>> => \A i \in DOMAIN seqs : seqs[i] = <<>>
  <1>1. Len(seqs) \in Nat \ {0} /\ DOMAIN seqs = 1 .. Len(seqs)
    OBVIOUS
  <1>2. PICK f : /\ FlattenSeq(seqs) = f[Len(seqs)] /\ f[1] = seqs[1]
                 /\ \A i \in 2 .. Len(seqs) : f[i] = f[i - 1] \o seqs[i]
    BY <1>1, FlattenStep
  <1> DEFINE Good(n) == /\ f[n] \in Seq(C) /\ Len(f[n]) <= n
                        /\ f[n] = <<>> => \A i \in 1 .. n : seqs[i] = <<>>
             S == {n \in 0 .. Len(seqs) : n = 0 \/ Good(n)}
  <1>3. 0 \in S
    BY <1>1
  <1>4. ASSUME NEW n \in 1 .. Len(seqs), n - 1 \in S PROVE n \in S
    <2>1. seqs[n] \in Seq(C) /\ Len(seqs[n]) <= 1 /\ Len(seqs[n]) \in Nat
      BY <1>1
    <2>2. CASE n = 1
      <3>1. Good(1)
        BY <1>2, <2>1, <2>2
      <3> QED
        BY <2>2, <3>1
    <2>3. CASE n # 1
      <3>1. n - 1 # 0 /\ n \in 2 .. Len(seqs) /\ Good(n - 1)
        BY <1>4, <2>3
      <3>2. f[n] = f[n - 1] \o seqs[n]
        BY <1>2, <3>1
      <3> DEFINE a == f[n - 1]
                 b == seqs[n]
      <3>3. a \in Seq(C) /\ b \in Seq(C) /\ f[n] = a \o b /\ Len(a) <= n - 1 /\ Len(b) <= 1
        BY <2>1, <3>1, <3>2
      <3>4. a = <<>> => \A i \in 1 .. (n - 1) : seqs[i] = <<>>
        BY <3>1
      <3>5. /\ f[n] \in Seq(C) /\ Len(f[n]) = Len(a) + Len(b)
            /\ Len(a) \in Nat /\ Len(b) \in Nat
            /\ f[n] = <<>> => a = <<>> /\ seqs[n] = <<>>
        <4>1. b = seqs[n]
          OBVIOUS
        <4> HIDE DEF a, b
        <4>2. a \o b = <<>> => a = <<>> /\ b = <<>>
          BY <3>3
        <4> QED
          BY <3>3, <4>1, <4>2
      <3>6. Len(f[n]) <= n
        <4> HIDE DEF a, b
        <4> QED
          BY <3>3, <3>5
      <3>7. f[n] = <<>> => \A i \in 1 .. n : seqs[i] = <<>>
        BY <3>4, <3>5
      <3>8. Good(n)
        BY <3>5, <3>6, <3>7
      <3> HIDE DEF Good, a, b
      <3> QED
        BY <1>1, <3>8
    <2> QED
      BY <2>2, <2>3
  <1>5. Len(seqs) \in S
    <2> HIDE DEF S
    <2>1. 0 .. Len(seqs) \subseteq S
      BY <1>1, <1>3, <1>4, AllUpTo
    <2> QED
      BY <1>1, <2>1
  <1>6. Good(Len(seqs))
    BY <1>1, <1>5
  <1> QED
    BY <1>1, <1>2, <1>6

\* A retraction put in moves what comes at its place or after it one on.
LEMMA InsertedParts ==
    ASSUME NEW C, "retraction" \in C, NEW cs \in Seq(C), NEW i \in Nat \ {0}
    PROVE  /\ Inserted(cs, i) \in Seq(C)
           /\ Len(Inserted(cs, i)) = Len(cs) + 1
           /\ \A k \in 1 .. Len(cs) : Inserted(cs, i)[IF k < i THEN k ELSE k + 1] = cs[k]
  <1>1. CASE i > Len(cs)
    <2>1. Inserted(cs, i) = Append(cs, "retraction")
      BY <1>1 DEF Inserted
    <2>2. \A k \in 1 .. Len(cs) : k < i
      BY <1>1
    <2> QED
      BY <2>1, <2>2
  <1>2. CASE ~(i > Len(cs))
    <2> DEFINE a == SubSeq(cs, 1, i - 1)
               r == <<"retraction">>
               b == SubSeq(cs, i, Len(cs))
    <2>1. Inserted(cs, i) = (a \o r) \o b
      BY <1>2 DEF Inserted, InsertAt
    <2>2. Len(cs) \in Nat /\ i \in 1 .. Len(cs)
      BY <1>2
    <2>3. a \in Seq(C) /\ Len(a) = i - 1 /\ \A k \in 1 .. i - 1 : a[k] = cs[k]
      BY <2>2
    <2>4. b \in Seq(C) /\ Len(b) = Len(cs) - i + 1
          /\ \A k \in 1 .. (Len(cs) - i + 1) : b[k] = cs[i + k - 1]
      BY <2>2
    <2>5. r \in Seq(C) /\ Len(r) = 1
      OBVIOUS
    <2> HIDE DEF a, b, r
    <2>6. a \o r \in Seq(C) /\ Len(a \o r) = i /\ \A k \in 1 .. i - 1 : (a \o r)[k] = a[k]
      <3>1. a \o r \in Seq(C) /\ Len(a \o r) = Len(a) + Len(r)
            /\ \A k \in 1 .. Len(a) + Len(r) :
                  (a \o r)[k] = IF k <= Len(a) THEN a[k] ELSE r[k - Len(a)]
        BY <2>3, <2>5, ConcatProperties, Zenon
      <3>2. i - 1 \in Nat /\ (i - 1) + 1 = i
        BY <2>2
      <3> QED
        BY <2>3, <2>5, <3>1, <3>2
    <2> DEFINE ar == a \o r
    <2> HIDE DEF ar
    <2>7. ar \in Seq(C) /\ Len(ar) = i /\ \A k \in 1 .. i - 1 : ar[k] = cs[k]
      BY <2>3, <2>6 DEF ar
    <2>8. ar \o b \in Seq(C) /\ Len(ar \o b) = Len(cs) + 1
      <3>1. ar \o b \in Seq(C) /\ Len(ar \o b) = Len(ar) + Len(b)
        BY <2>4, <2>7, ConcatProperties, Zenon
      <3>2. i + (Len(cs) - i + 1) = Len(cs) + 1
        BY <2>2
      <3> QED
        BY <2>4, <2>7, <3>1, <3>2
    <2>9. ASSUME NEW k \in 1 .. Len(cs) PROVE (ar \o b)[IF k < i THEN k ELSE k + 1] = cs[k]
      <3>1. CASE k < i
        <4>1. k \in 1 .. i - 1 /\ k \in 1 .. Len(ar)
          BY <2>2, <2>7, <3>1
        <4>2. (ar \o b)[k] = ar[k]
          BY <2>4, <2>7, <4>1
        <4> QED
          BY <2>7, <3>1, <4>1, <4>2
      <3>2. CASE ~(k < i)
        <4>1. k + 1 - i \in 1 .. (Len(cs) - i + 1) /\ k + 1 \in (Len(ar) + 1) .. (Len(ar) + Len(b))
          BY <2>2, <2>4, <2>7, <3>2
        <4>2. (ar \o b)[k + 1] = b[k + 1 - Len(ar)]
          BY <2>4, <2>7, <4>1
        <4>3. b[k + 1 - i] = cs[i + (k + 1 - i) - 1] /\ i + (k + 1 - i) - 1 = k
          BY <2>2, <2>4, <4>1
        <4> QED
          BY <2>7, <3>2, <4>2, <4>3
      <3> QED
        BY <3>1, <3>2
    <2> QED
      BY <2>1, <2>8, <2>9 DEF ar
  <1> QED
    BY <1>1, <1>2

CombinedKinds == {"text", "retraction"}

\* A message whose body does not decode, or is taken back as a whole, has no more
\* components than parts, and one if any part is taken back.
LEMMA MadeWithoutBody ==
    ASSUME NEW m \in Row, ~HasBody(m)
    PROVE  /\ Made(m)[N] \in Seq(CombinedKinds) /\ Len(Made(m)[N]) <= N
           /\ m.unsent = Parts => Made(m)[N] # <<>>
  <1> DEFINE S == {n \in 0 .. N : /\ Made(m)[n] \in Seq(CombinedKinds) /\ Len(Made(m)[n]) <= n
                                  /\ n \in m.unsent => Made(m)[n] # <<>>}
  <1>0. N \in Nat \ {0} /\ N \in Parts /\ m.unsent \subseteq Parts
    BY MessagePartsAssumption DEF Parts, Row
  <1>1. 0 \in S
    <2>1. Made(m)[0] = <<>> /\ 0 \notin m.unsent
      BY <1>0, MadeStep DEF CombinedComponents, Parts
    <2>2. Made(m)[0] \in Seq(CombinedKinds) /\ Len(Made(m)[0]) <= 0
      BY <2>1
    <2>3. 0 \in 0 .. N
      BY <1>0
    <2> HIDE DEF S
    <2> QED
      BY <2>1, <2>2, <2>3 DEF S
  <1>2. ASSUME NEW n \in 1 .. N, n - 1 \in S PROVE n \in S
    <2> DEFINE cs == Made(m)[n - 1]
    <2>1. cs \in Seq(CombinedKinds) /\ Len(cs) <= n - 1 /\ Len(cs) \in Nat
      BY <1>2
    <2>2. Made(m)[n] = IF n \in m.unsent THEN Inserted(cs, n) ELSE cs
      BY MadeStep DEF StatusOf
    <2> HIDE DEF cs
    <2>3. /\ Inserted(cs, n) \in Seq(CombinedKinds) /\ Len(Inserted(cs, n)) = Len(cs) + 1
      BY <2>1, InsertedParts DEF CombinedKinds
    <2>4. Made(m)[n] \in Seq(CombinedKinds) /\ Len(Made(m)[n]) <= n
          /\ (n \in m.unsent => Len(Made(m)[n]) # 0)
      BY <2>1, <2>2, <2>3
    <2> QED
      BY <1>0, <2>4
  <1>3. N \in S
    <2> HIDE DEF S
    <2>1. 0 .. N \subseteq S
      BY <1>0, <1>1, <1>2, AllUpTo
    <2> QED
      BY <1>0, <2>1
  <1> QED
    BY <1>0, <1>3

\* The text of a body stands at the place of the first part not taken back.
LEMMA MadeWithBody ==
    ASSUME NEW m \in Row, HasBody(m)
    PROVE  /\ Made(m)[N] \in Seq(CombinedKinds) /\ Len(Made(m)[N]) <= N
           /\ \E j \in Parts \ m.unsent : j \in DOMAIN Made(m)[N] /\ Made(m)[N][j] = "text"
  <1>0. N \in Nat \ {0} /\ N \in Parts /\ m.unsent \subseteq Parts /\ m.unsent # Parts
    BY MessagePartsAssumption DEF Parts, Row, HasBody
  <1>1. PICK j \in Parts \ m.unsent : \A k \in Parts \ m.unsent : j <= k
    <2>1. Parts \ m.unsent # {}
      BY <1>0
    <2>2. Parts \ m.unsent \in SUBSET Nat
      BY DEF Parts
    <2> QED
      BY <2>1, <2>2, LeastOf
  <1>2. j \in 1 .. N
    BY DEF Parts
  <1> DEFINE place(n) == IF n < j THEN n + 1 ELSE j
             S == {n \in 0 .. N : /\ Made(m)[n] \in Seq(CombinedKinds)
                                  /\ place(n) <= Len(Made(m)[n])
                                  /\ Len(Made(m)[n]) <= IF n < j THEN n + 1 ELSE n
                                  /\ Made(m)[n][place(n)] = "text"}
  <1>3. 0 \in S
    <2>1. Made(m)[0] = <<"text">>
      BY <1>0, MadeStep DEF CombinedComponents
    <2>2. Made(m)[0] \in Seq(CombinedKinds) /\ Len(Made(m)[0]) = 1 /\ Made(m)[0][1] = "text"
      BY <2>1 DEF CombinedKinds
    <2>3. 0 < j /\ place(0) = 1
      BY <1>2
    <2>4. 0 \in 0 .. N
      BY <1>0
    <2>5. /\ place(0) <= Len(Made(m)[0])
          /\ Len(Made(m)[0]) <= IF 0 < j THEN 0 + 1 ELSE 0
          /\ Made(m)[0][place(0)] = "text"
      <3> HIDE DEF place
      <3> QED
        BY <2>2, <2>3
    <2> HIDE DEF place
    <2> QED
      BY <2>2, <2>4, <2>5
  <1>4. ASSUME NEW n \in 1 .. N, n - 1 \in S PROVE n \in S
    <2> DEFINE cs == Made(m)[n - 1]
               p == place(n - 1)
    <2>1. /\ cs \in Seq(CombinedKinds) /\ Len(cs) \in Nat
          /\ p <= Len(cs) /\ Len(cs) <= (IF n - 1 < j THEN n ELSE n - 1) /\ cs[p] = "text"
          /\ p = IF n - 1 < j THEN n ELSE j
      BY <1>4
    <2>2. Made(m)[n] = IF n \in m.unsent THEN Inserted(cs, n) ELSE cs
      BY MadeStep DEF StatusOf
    <2>3. n < j => n \in m.unsent
      BY <1>1 DEF Parts
    <2>4. n = j => n \notin m.unsent
      OBVIOUS
    <2> HIDE DEF cs, p
    <2>5. /\ Inserted(cs, n) \in Seq(CombinedKinds) /\ Len(Inserted(cs, n)) = Len(cs) + 1
          /\ \A k \in 1 .. Len(cs) : Inserted(cs, n)[IF k < n THEN k ELSE k + 1] = cs[k]
      <3>1. "retraction" \in CombinedKinds /\ n \in Nat \ {0}
        BY DEF CombinedKinds
      <3> QED
        BY <2>1, <3>1, InsertedParts
    <2>6. p \in 1 .. Len(cs)
      BY <1>2, <2>1
    <2>7. Inserted(cs, n)[IF p < n THEN p ELSE p + 1] = "text"
      BY <2>1, <2>5, <2>6
    <2>8. CASE n < j
      <3>1. Made(m)[n] = Inserted(cs, n) /\ p = n /\ place(n) = n + 1 /\ Len(cs) = n
        BY <1>2, <2>1, <2>2, <2>3, <2>8
      <3>2. Made(m)[n] \in Seq(CombinedKinds) /\ Len(Made(m)[n]) = n + 1 /\ Made(m)[n][n + 1] = "text"
        BY <2>5, <2>7, <3>1
      <3> QED
        BY <1>0, <2>8, <3>1, <3>2
    <2>9. CASE n = j
      <3>1. Made(m)[n] = cs /\ p = n /\ place(n) = n /\ Len(cs) = n
        BY <1>2, <2>1, <2>2, <2>4, <2>9
      <3> QED
        BY <1>0, <2>1, <2>9, <3>1
    <2>10. CASE n > j
      <3>1. p = j /\ place(n) = j /\ p < n /\ Len(cs) <= n - 1
        BY <1>2, <2>1, <2>10
      <3>2. CASE n \in m.unsent
        <4>1. /\ Made(m)[n] \in Seq(CombinedKinds) /\ Len(Made(m)[n]) = Len(cs) + 1
              /\ Made(m)[n][j] = "text"
          BY <2>2, <2>5, <2>7, <3>1, <3>2
        <4> QED
          BY <1>0, <2>1, <2>10, <3>1, <4>1
      <3>3. CASE n \notin m.unsent
        <4>1. Made(m)[n] = cs
          BY <2>2, <3>3
        <4> QED
          BY <1>0, <2>1, <2>10, <3>1, <4>1
      <3> QED
        BY <3>2, <3>3
    <2> QED
      BY <1>2, <2>8, <2>9, <2>10
  <1>5. N \in S
    <2> HIDE DEF S
    <2>1. 0 .. N \subseteq S
      BY <1>0, <1>3, <1>4, AllUpTo
    <2> QED
      BY <1>0, <2>1
  <1>6. /\ Made(m)[N] \in Seq(CombinedKinds) /\ j <= Len(Made(m)[N])
        /\ Len(Made(m)[N]) <= N /\ Made(m)[N][j] = "text"
    BY <1>0, <1>2, <1>5
  <1> QED
    BY <1>2, <1>6

\* A conversion has at most as many parts as the message, of the known kinds, and
\* one at least when the body decodes (message.go:186-330).
LEMMA ConvertShape ==
    ASSUME NEW m \in Row
    PROVE  /\ DOMAIN Convert(m) = 1 .. Len(Convert(m)) /\ Len(Convert(m)) \in 0 .. N
           /\ \A i \in DOMAIN Convert(m) : Convert(m)[i][1] \in ContentKinds
           /\ m.decodes => Convert(m) # <<>>
  <1> DEFINE C == {<<"error">>, <<"text", m.edits, m.unsent>>, Body(m)}
                    \cup {<<"edit", i, m.edits[i]>> : i \in Parts}
                    \cup {<<"notice", i>> : i \in Parts}
             seqs == [i \in DOMAIN Components(m) |-> PartOf(m, i)]
             made == FlattenSeq(seqs)
  <1>0. N \in Nat \ {0} /\ Parts = 1 .. N /\ m.unsent \subseteq Parts
    BY MessagePartsAssumption DEF Parts, Row
  <1>1. \A c \in C : c[1] \in ContentKinds
    BY DEF ContentKinds, Body
  <1>2. Components(m) \in Seq(CombinedKinds) /\ Len(Components(m)) <= N
    BY MadeWithBody, MadeWithoutBody DEF Components
  <1>3. ASSUME NEW i \in Parts
        PROVE  /\ PartOf(m, i) \in Seq(C) /\ Len(PartOf(m, i)) <= 1
               /\ Components(m)[i] = "text" => PartOf(m, i) # <<>>
               /\ i \in m.unsent => PartOf(m, i) # <<>>
    <2>1. PartOf(m, i) \in {<< Body(m) >>, <<>>, << <<"edit", i, m.edits[i]>> >>, << <<"notice", i>> >>}
          /\ (Components(m)[i] = "text" => PartOf(m, i) # <<>>)
          /\ (i \in m.unsent => PartOf(m, i) # <<>>)
      <3>1. CASE Components(m)[i] = "text" /\ ~IsPartEdited(m, i)
        <4>1. PartOf(m, i) = << Body(m) >>
          BY <3>1 DEF PartOf
        <4> QED
          BY <4>1
      <3>2. CASE ~(Components(m)[i] = "text" /\ ~IsPartEdited(m, i))
        <4>1. PartOf(m, i) = EditedPart(m, i)
          BY <3>2 DEF PartOf
        <4>2. CASE Edited(m)
          <5>1. EditedMessageParts(m) = [k \in Parts |-> StatusOf(m, k)]
            BY <4>2 DEF EditedMessageParts
          <5>2. i \in DOMAIN EditedMessageParts(m) /\ EditedMessageParts(m)[i] = StatusOf(m, i)
            BY <5>1
          <5>3. CASE StatusOf(m, i) = "edited"
            <6>1. EditedPart(m, i) = << <<"edit", i, m.edits[i]>> >>
              BY <5>2, <5>3 DEF EditedPart
            <6> QED
              BY <4>1, <6>1
          <5>4. CASE StatusOf(m, i) = "unsent"
            <6>1. EditedPart(m, i) = << <<"notice", i>> >>
              BY <5>2, <5>4 DEF EditedPart
            <6> QED
              BY <4>1, <6>1
          <5>5. CASE StatusOf(m, i) = "original"
            <6>1. EditedPart(m, i) = <<>>
              BY <5>2, <5>5 DEF EditedPart
            <6>2. ~IsPartEdited(m, i) /\ i \notin m.unsent
              BY <5>2, <5>5 DEF IsPartEdited, StatusOf
            <6> QED
              BY <3>2, <4>1, <6>1, <6>2
          <5> QED
            BY <5>3, <5>4, <5>5 DEF StatusOf
        <4>3. CASE ~Edited(m)
          <5>1. EditedMessageParts(m) = <<>> /\ DOMAIN EditedMessageParts(m) = {} /\ m.unsent = {}
            BY <4>3 DEF EditedMessageParts, Edited
          <5>2. i \notin DOMAIN EditedMessageParts(m)
            BY <5>1
          <5>3. EditedPart(m, i) = <<>> /\ ~IsPartEdited(m, i)
            BY <5>2 DEF EditedPart, IsPartEdited
          <5> QED
            BY <3>2, <4>1, <5>1, <5>3
        <4> QED
          BY <4>2, <4>3
      <3> QED
        BY <3>1, <3>2
    <2>2. {Body(m), <<"edit", i, m.edits[i]>>, <<"notice", i>>} \subseteq C
      OBVIOUS
    <2> DEFINE b == Body(m)
               e == <<"edit", i, m.edits[i]>>
               r == <<"notice", i>>
    <2> HIDE DEF C, b, e, r
    <2>3. PartOf(m, i) \in {<<b>>, <<>>, <<e>>, <<r>>}
      BY <2>1 DEF b, e, r
    <2>4. b \in C /\ e \in C /\ r \in C
      BY <2>2 DEF b, e, r
    <2>5. PartOf(m, i) \in Seq(C) /\ Len(PartOf(m, i)) <= 1
      <3>1. \A c \in C : <<c>> \in Seq(C) /\ Len(<<c>>) = 1
        OBVIOUS
      <3>2. <<>> \in Seq(C) /\ Len(<<>>) = 0
        OBVIOUS
      <3>3. CASE PartOf(m, i) = <<>>
        BY <3>2, <3>3
      <3>4. CASE PartOf(m, i) = <<b>>
        BY <2>4, <3>1, <3>4
      <3>5. CASE PartOf(m, i) = <<e>>
        BY <2>4, <3>1, <3>5
      <3>6. CASE PartOf(m, i) = <<r>>
        BY <2>4, <3>1, <3>6
      <3> QED
        BY <2>3, <3>3, <3>4, <3>5, <3>6
    <2> QED
      BY <2>1, <2>5
  <1>4. DOMAIN Components(m) = 1 .. Len(Components(m)) /\ Len(Components(m)) \in Nat
        /\ DOMAIN Components(m) \subseteq Parts
    BY <1>0, <1>2
  <1>5. CASE m.kind = "unsupported"
    <2>1. Convert(m) = << <<"error">> >>
      BY <1>5 DEF Convert
    <2>2. DOMAIN Convert(m) = {1} /\ Len(Convert(m)) = 1 /\ Convert(m)[1] = <<"error">>
      BY <2>1
    <2>3. <<"error">>[1] = "error"
      OBVIOUS
    <2> QED
      BY <1>0, <2>1, <2>2, <2>3 DEF ContentKinds
  <1>6. CASE m.kind # "unsupported"
    <2>1. Convert(m) = IF made = <<>> /\ m.text THEN << <<"text", m.edits, m.unsent>> >> ELSE made
      BY <1>6 DEF Convert
    <2>2. /\ made \in Seq(C) /\ Len(made) <= N
          /\ made = <<>> => \A i \in DOMAIN seqs : seqs[i] = <<>>
      <3> HIDE DEF C
      <3>1. DOMAIN seqs = 1 .. Len(Components(m)) /\ \A i \in DOMAIN seqs : seqs[i] = PartOf(m, i)
        BY <1>4
      <3>2. \A i \in DOMAIN seqs : seqs[i] \in Seq(C) /\ Len(seqs[i]) <= 1
        BY <1>3, <1>4, <3>1
      <3> HIDE DEF seqs
      <3>3. seqs \in Seq(Seq(C)) /\ Len(seqs) = Len(Components(m))
        <4>1. seqs = [i \in 1 .. Len(Components(m)) |-> PartOf(m, i)]
          BY <1>4 DEF seqs
        <4>2. \A i \in 1 .. Len(Components(m)) : PartOf(m, i) \in Seq(C)
          BY <1>3, <1>4
        <4> QED
          BY <1>4, <4>1, <4>2
      <3>4. CASE seqs = <<>>
        <4>1. made = <<>> /\ DOMAIN seqs = {}
          BY <3>4 DEF FlattenSeq
        <4> QED
          BY <1>0, <4>1
      <3>5. CASE seqs # <<>>
        <4>1. /\ FlattenSeq(seqs) \in Seq(C) /\ Len(FlattenSeq(seqs)) <= Len(seqs)
              /\ FlattenSeq(seqs) = <<>> => \A i \in DOMAIN seqs : seqs[i] = <<>>
          BY <3>2, <3>3, <3>5, Flattened
        <4>2. made = FlattenSeq(seqs)
          OBVIOUS
        <4> HIDE DEF made
        <4>3. Len(made) \in Nat
          BY <4>1, <4>2
        <4> QED
          BY <1>0, <1>2, <1>4, <3>3, <4>1, <4>2, <4>3
      <3> QED
        BY <3>4, <3>5
    <2>3. m.decodes => made # <<>>
      <3> SUFFICES ASSUME m.decodes, made = <<>> PROVE FALSE
        OBVIOUS
      <3>1. \A i \in DOMAIN Components(m) : PartOf(m, i) = <<>>
        <4>1. DOMAIN seqs = DOMAIN Components(m) /\ \A i \in DOMAIN seqs : seqs[i] = PartOf(m, i)
          OBVIOUS
        <4> HIDE DEF seqs, C
        <4> QED
          BY <2>2, <4>1
      <3> HIDE DEF C, made, seqs
      <3>2. CASE HasBody(m)
        <4>1. PICK j \in Parts \ m.unsent : j \in DOMAIN Components(m) /\ Components(m)[j] = "text"
          BY <3>2, MadeWithBody DEF Components
        <4> QED
          BY <1>3, <3>1, <4>1
      <3>3. CASE ~HasBody(m)
        <4>1. m.unsent = Parts /\ Components(m) # <<>>
          BY <3>3, MadeWithoutBody DEF HasBody, Components
        <4>2. 1 \in DOMAIN Components(m) /\ 1 \in Parts
          BY <1>0, <1>2, <4>1
        <4> QED
          BY <1>3, <3>1, <4>1, <4>2
      <3> QED
        BY <3>2, <3>3
    <2> HIDE DEF C, made
    <2>4. CASE Convert(m) = made
      <3>1. DOMAIN made = 1 .. Len(made) /\ Len(made) \in Nat /\ \A i \in DOMAIN made : made[i] \in C
        BY <2>2
      <3> QED
        BY <1>0, <1>1, <2>2, <2>3, <2>4, <3>1
    <2>5. CASE Convert(m) = << <<"text", m.edits, m.unsent>> >>
      <3>1. DOMAIN Convert(m) = {1} /\ Len(Convert(m)) = 1 /\ Convert(m)[1] = <<"text", m.edits, m.unsent>>
        BY <2>5
      <3>2. <<"text", m.edits, m.unsent>>[1] = "text"
        OBVIOUS
      <3> QED
        BY <1>0, <2>5, <3>1, <3>2 DEF ContentKinds
    <2> QED
      BY <2>1, <2>4, <2>5
  <1> QED
    BY <1>5, <1>6

-----------------------------------------------------------------------------
(* Types, and what is shown                                                *)

\* Removals carry a row retracted as a whole; what is shown came from a row and
\* has no more parts than it.
Shaped ==
    /\ {read, handled} \subseteq Row \cup {NoRow}
    /\ Len(queue) <= MaxQueue
    /\ \A i \in DOMAIN queue : queue[i].type = "remove" => queue[i].data.retracted
    /\ shown # <<>> => handled \in Row
    /\ DOMAIN shown = 1 .. Len(shown) /\ Len(shown) \in 0 .. N

LEMMA ShapedInit == Init => Shaped
  <1> SUFFICES ASSUME Init PROVE Shaped
    OBVIOUS
  <1>1. queue = <<>> /\ shown = <<>> /\ read = NoRow /\ handled = NoRow
    BY DEF Init
  <1>2. DOMAIN queue = {} /\ Len(queue) = 0 /\ DOMAIN shown = 1 .. 0 /\ Len(shown) = 0
    BY <1>1
  <1>3. N \in Nat /\ MaxQueue \in Nat
    BY MessagePartsAssumption
  <1> QED
    BY <1>1, <1>2, <1>3 DEF Shaped

\* A row is queued for removal only when it is retracted.
LEMMA ShapedHandle ==
    ASSUME Inv, Shaped, HandleMessage
    PROVE  Shaped'
  <1>1. PICK type \in {"message", "edit", "remove"} :
           /\ queue' = Append(queue, [type |-> type, data |-> row])
           /\ type = "remove" => row.retracted
    BY DEF HandleMessage
  <1>2. UNCHANGED <<row, shown, handled>> /\ read' = row /\ row \in Row /\ Len(queue) < MaxQueue
    BY DEF HandleMessage, Inv, Versions
  <1> DEFINE e == [type |-> type, data |-> row]
             E == [type : {"message", "edit", "remove"}, data : Row]
  <1>3. e.type = type /\ e.data = row /\ queue' = Append(queue, e) /\ queue \in Seq(E)
    BY <1>1 DEF Inv, Versions
  <1> HIDE DEF e, E
  <1>4. /\ Len(queue) \in Nat /\ Len(queue') = Len(queue) + 1 /\ DOMAIN queue = 1 .. Len(queue)
        /\ DOMAIN queue' = 1 .. Len(queue) + 1
        /\ queue'[Len(queue) + 1] = e /\ \A i \in DOMAIN queue : queue'[i] = queue[i]
    BY <1>3
  <1>5. \A i \in DOMAIN queue' : queue'[i].type = "remove" => queue'[i].data.retracted
    <2> SUFFICES ASSUME NEW i \in DOMAIN queue', queue'[i].type = "remove"
                 PROVE  queue'[i].data.retracted
      OBVIOUS
    <2>1. CASE i \in DOMAIN queue
      BY <1>4, <2>1 DEF Shaped
    <2>2. CASE i = Len(queue) + 1
      BY <1>1, <1>3, <1>4, <2>2
    <2> QED
      BY <1>4, <2>1, <2>2
  <1>6. MaxQueue \in Nat /\ Len(queue') <= MaxQueue
    BY <1>2, <1>4, MessagePartsAssumption
  <1> QED
    BY <1>2, <1>5, <1>6 DEF Shaped

\* Taking an event leaves rows handled and removals retracted.
LEMMA ShapedTake ==
    ASSUME Inv, Shaped, NEW type, Take(type)
    PROVE  /\ {read', handled'} \subseteq Row \cup {NoRow} /\ handled' \in Row
           /\ Len(queue') <= MaxQueue
           /\ \A i \in DOMAIN queue' : queue'[i].type = "remove" => queue'[i].data.retracted
           /\ type = "remove" => handled'.retracted
  <1> DEFINE E == [type : {"message", "edit", "remove"}, data : Row]
  <1>1. queue' = Tail(queue) /\ queue # <<>> /\ Head(queue).type = type
        /\ handled' = Head(queue).data /\ read' = read
    BY DEF Take
  <1>2. queue \in Seq(E) /\ \A e \in E : e.data \in Row
    BY DEF Inv, Versions
  <1> HIDE DEF E
  <1>3. /\ Len(queue) \in Nat \ {0} /\ 1 \in DOMAIN queue /\ Head(queue) = queue[1] /\ queue[1] \in E
        /\ Len(queue') = Len(queue) - 1
        /\ \A i \in DOMAIN queue' : i + 1 \in DOMAIN queue /\ queue'[i] = queue[i + 1]
    BY <1>1, <1>2
  <1>4. Len(queue') <= MaxQueue
    BY <1>3, MessagePartsAssumption DEF Shaped
  <1> QED
    BY <1>1, <1>2, <1>3, <1>4 DEF Shaped

\* As many parts are numbered or paired as were converted.
LEMMA PartsCounted ==
    ASSUME NEW m \in Row, NEW old
    PROVE  LET new == Numbered(Convert(m)) IN
           /\ DOMAIN new = 1 .. Len(new) /\ Len(new) \in 0 .. N
           /\ DOMAIN Paired(old, new) = 1 .. Len(Paired(old, new)) /\ Len(Paired(old, new)) \in 0 .. N
           /\ m.decodes => new # <<>> /\ Paired(old, new) # <<>>
  <1> DEFINE c == Convert(m)
             n == Len(c)
             new == Numbered(c)
             both == Paired(old, new)
  <1>1. DOMAIN c = 1 .. n /\ n \in 0 .. N /\ n \in Nat /\ (m.decodes => c # <<>>)
    BY ConvertShape, MessagePartsAssumption
  <1>2. n = 0 => DOMAIN c = {}
    BY <1>1
  <1> HIDE DEF n, c
  <1>3. new = [i \in 1 .. n |-> [id |-> i - 1, content |-> c[i]]]
    BY <1>1 DEF Numbered
  <1>4. DOMAIN new = 1 .. n /\ Len(new) = n
    BY <1>1, <1>3
  <1> HIDE DEF new
  <1>5. both = [i \in 1 .. n |-> [id |-> KeptId(old, new, i), content |-> new[i].content]]
    BY <1>4 DEF Paired
  <1>6. DOMAIN both = 1 .. n /\ Len(both) = n
    BY <1>1, <1>5
  <1> HIDE DEF both
  <1>7. ASSUME m.decodes PROVE new # <<>> /\ both # <<>>
    <2>1. n # 0
      BY ConvertShape, <1>7 DEF c, n
    <2> QED
      BY <1>1, <1>4, <1>6, <2>1
  <1> QED
    BY <1>1, <1>4, <1>6, <1>7 DEF new, both, c

\* The handlers of the portal: only a removal, or a body that does not decode,
\* leaves nothing of a message that was shown.
LEMMA ShapedPortal ==
    ASSUME Inv, Shaped, Message \/ MessageRemove \/ Edit
    PROVE  /\ Shaped'
           /\ shown # <<>> /\ shown' = <<>> => handled'.retracted \/ ~handled'.decodes
  <1> DEFINE new == Numbered(Convert(Head(queue).data))
  <1>1. CASE Message
    <2>1. Take("message") /\ shown' = IF shown = <<>> THEN new ELSE shown
      BY <1>1 DEF Message
    <2>2. handled' = Head(queue).data /\ shown = <<>>
      BY <2>1, TakeLeaves
    <2>3. /\ {read', handled'} \subseteq Row \cup {NoRow} /\ handled' \in Row
          /\ Len(queue') <= MaxQueue
          /\ \A i \in DOMAIN queue' : queue'[i].type = "remove" => queue'[i].data.retracted
      BY <2>1, ShapedTake
    <2>4. shown' = new
      BY <2>1, <2>2
    <2>5. DOMAIN new = 1 .. Len(new) /\ Len(new) \in 0 .. N
      BY <2>2, <2>3, PartsCounted
    <2> HIDE DEF new
    <2> QED
      BY <2>2, <2>3, <2>4, <2>5 DEF Shaped
  <1>2. CASE MessageRemove
    <2>1. Take("remove") /\ shown' = <<>>
      BY <1>2 DEF MessageRemove
    <2>2. /\ {read', handled'} \subseteq Row \cup {NoRow} /\ handled' \in Row
          /\ Len(queue') <= MaxQueue /\ handled'.retracted
          /\ \A i \in DOMAIN queue' : queue'[i].type = "remove" => queue'[i].data.retracted
      BY <2>1, ShapedTake
    <2>3. DOMAIN shown' = 1 .. 0 /\ Len(shown') = 0 /\ N \in Nat
      BY <2>1, MessagePartsAssumption
    <2> QED
      BY <2>1, <2>2, <2>3 DEF Shaped
  <1>3. CASE Edit
    <2>1. Take("edit") /\ shown' = IF shown = <<>> THEN <<>> ELSE Paired(shown, new)
      BY <1>3 DEF Edit
    <2>2. handled' = Head(queue).data
      BY <2>1, TakeLeaves
    <2>3. /\ {read', handled'} \subseteq Row \cup {NoRow} /\ handled' \in Row
          /\ Len(queue') <= MaxQueue
          /\ \A i \in DOMAIN queue' : queue'[i].type = "remove" => queue'[i].data.retracted
      BY <2>1, ShapedTake
    <2> DEFINE both == Paired(shown, new)
    <2>4. /\ DOMAIN both = 1 .. Len(both) /\ Len(both) \in 0 .. N
          /\ handled'.decodes => both # <<>>
      BY <2>2, <2>3, PartsCounted
    <2> HIDE DEF new, both
    <2>5. CASE shown = <<>>
      <3>1. shown' = <<>> /\ DOMAIN shown' = 1 .. 0 /\ Len(shown') = 0 /\ N \in Nat
        BY <2>1, <2>5, MessagePartsAssumption
      <3> QED
        BY <2>3, <2>5, <3>1 DEF Shaped
    <2>6. CASE shown # <<>>
      <3>1. shown' = both
        BY <2>1, <2>6 DEF both
      <3> QED
        BY <2>3, <2>4, <3>1 DEF Shaped
    <2> QED
      BY <2>5, <2>6
  <1> QED
    BY <1>1, <1>2, <1>3

LEMMA ShapedNext ==
    ASSUME Inv, Shaped, [Next]_vars
    PROVE  /\ Shaped'
           /\ shown # <<>> /\ shown' = <<>> => handled'.retracted \/ ~handled'.decodes
  <1>1. CASE UNCHANGED vars
    BY <1>1 DEF vars, Shaped
  <1>2. CASE Retract \/ \E i \in Parts : EditPart(i) \/ UnsendPart(i)
    <2>1. UNCHANGED <<queue, read, shown, handled>>
      BY <1>2 DEF Retract, EditPart, UnsendPart, Change
    <2> QED
      BY <2>1 DEF Shaped
  <1>3. CASE HandleMessage
    <2>1. shown' = shown
      BY <1>3 DEF HandleMessage
    <2> QED
      BY <1>3, <2>1, ShapedHandle
  <1>4. CASE Message \/ MessageRemove \/ Edit
    BY <1>4, ShapedPortal
  <1> QED
    BY <1>1, <1>2, <1>3, <1>4 DEF Next

LEMMA ShapedHolds == Spec => [](Inv /\ Shaped)
  <1>1. Init => Inv /\ Shaped
    BY InvInit, ShapedInit
  <1>2. Inv /\ Shaped /\ [Next]_vars => (Inv /\ Shaped)'
    BY InvNext, ShapedNext
  <1> QED
    BY <1>1, <1>2, PTL DEF Spec

\* Events carry rows; whatever is taken back, edited and put in (messages.go:385-394,
\* message.go:186-330), a message is never shown with more parts than it was sent
\* with, and every part is of a known kind.
THEOREM PartsTypes == Spec => []TypeOK
  <1>1. Inv /\ Shaped => TypeOK
    <2> SUFFICES ASSUME Inv, Shaped PROVE TypeOK
      OBVIOUS
    <2> DEFINE E == [type : {"message", "edit", "remove"}, data : Row]
    <2>1. \A e \in E : e.type \in {"message", "edit", "remove"} /\ e.data \in Row
      OBVIOUS
    <2>2. queue \in Seq(E)
      BY DEF Inv, Versions
    <2> HIDE DEF E
    <2>3. \A i \in DOMAIN queue : queue[i] \in E
      BY <2>2
    <2>4. ASSUME NEW i \in DOMAIN shown
          PROVE  shown[i].id \in Nat /\ shown[i].content[1] \in ContentKinds
      <3>1. i \in 1 .. Len(shown) /\ Len(shown) \in 0 .. N
        BY <2>4 DEF Shaped
      <3>2. shown[i].id = i - 1 /\ i - 1 \in Nat
        BY <3>1 DEF Inv, IdsInOrder
      <3>3. shown # <<>>
        BY <2>4
      <3>4. shown[i].content = Convert(handled)[i] /\ i \in DOMAIN Convert(handled) /\ handled \in Row
        BY <3>3 DEF Inv, ShownIsCurrent, Shaped
      <3> QED
        BY <3>2, <3>4, ConvertShape
    <2>5. Len(shown) <= N
      BY MessagePartsAssumption DEF Shaped
    <2> QED
      BY <2>1, <2>3, <2>4, <2>5 DEF TypeOK, Inv, Versions, Shaped
  <1> QED
    BY <1>1, ShapedHolds, PTL

\* No edit makes a message vanish from Matrix: what was shown goes only when the
\* whole message was retracted or its body does not decode (message.go:408-446).
THEOREM PartsStayVisible == Spec => StaysVisible
  <1>1. Inv /\ Shaped /\ [Next]_vars =>
           [(shown # <<>> /\ shown' = <<>>) => handled'.retracted \/ ~handled'.decodes]_vars
    BY ShapedNext
  <1> QED
    BY <1>1, ShapedHolds, PTL DEF Spec, StaysVisible

=============================================================================
