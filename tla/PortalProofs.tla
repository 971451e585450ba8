---------------------------- MODULE PortalProofs ----------------------------
(***************************************************************************)
(* Portal for any users, messages, changes and queue: the members, details *)
(* and messages of a chat reach its room, through batches in any order,    *)
(* crashes and the making of the room.  The argument follows the newest    *)
(* change of a subject: it is among the unread rows, or it is the last     *)
(* event of its subject in the queue, or the room shows it.                *)
(***************************************************************************)
EXTENDS Portal, FiniteSetTheorems, TLAPS

-----------------------------------------------------------------------------
(* Types of rows and events                                                *)

EventTypes == {"info", "message", "edit", "remove", "reaction"}
AllValues == {"in", "out", "unnamed", "named", "chatID", "never", "set", "removed", "none", "gone"}
             \cup Texts \cup Emoji
EventSet == [type : EventTypes, subject : Subjects \cup {Member(NoUser)}, value : AllValues]
RowSet == [item : {"message", "tapback", "member", "name", "avatar"}, action : 0 .. 2,
           sender : Users, target : Users \cup Messages \cup {NoUser}, value : AllValues, nr : Nat]

\* What a row says fits what it is about.
RowOK(r) ==
    /\ r \in RowSet
    /\ r.item = "message" => r.target \in Messages /\ r.value \in Texts \cup {"gone"}
    /\ r.item = "tapback" => /\ r.target \in Messages /\ r.sender \in Reacting
                             /\ r.value \in {"none"} \cup Emoji
    /\ r.item = "member" => r.target \in Users /\ r.value = IF r.action = 1 THEN "out" ELSE "in"
    /\ r.item = "name" => r.value \in {"unnamed", "named"}
    /\ r.item = "avatar" => /\ r.action = 0 => r.value = "out"
                            /\ r.action = 1 => r.value = "set"
                            /\ r.action = 2 => r.value = "removed"

\* And so does an event.
EventOK(e) ==
    /\ e \in EventSet
    /\ e.type = "info" => /\ e.subject \in InfoSubjects \cup {Member(NoUser)}
                          /\ e.subject \in InfoSubjects => e.value \in Values(e.subject)
    /\ e.type \in {"message", "edit", "remove"} => \E m \in Messages : e.subject = Text(m)
    /\ e.type \in {"message", "edit"} => e.value \in Texts
    /\ e.type = "reaction" => /\ \E m \in Messages, u \in Reacting : e.subject = Reaction(m, u)
                              /\ e.value \in {"none"} \cup Emoji

Events == {e \in EventSet : EventOK(e)}

\* The subjects whose changes are rows of their own, but for the membership of
\* the user of the bridge.
Details == InfoSubjects \ {Member(Self)}
Reactions == {Reaction(m, u) : m \in Messages, u \in Reacting}
Tracked == Details \cup Reactions

Typed ==
    /\ TypeOK
    /\ DOMAIN chat = Subjects /\ DOMAIN room = Subjects
    /\ IsFiniteSet(unread) /\ \A r \in unread : RowOK(r)
    /\ queue \in Seq(Events)

-----------------------------------------------------------------------------
(* The newest change                                                       *)

Newest(r) == \A q \in unread : SubjectOf(q) = SubjectOf(r) => q.nr <= r.nr
IsUnread(s) == \E r \in unread : SubjectOf(r) = s
IsLast(k, s) == /\ queue[k].subject = s
                /\ \A j \in DOMAIN queue : j > k => queue[j].subject # s

\* How the room shows a value of the chat.
Shows(s) == \/ room[s] = chat[s]
            \/ s = Name /\ chat[s] = "unnamed" /\ room[s] = "chatID"

UnreadCarry == \A r \in unread :
    SubjectOf(r) \in Tracked /\ Newest(r) => r.value = chat[SubjectOf(r)]
QueueCarry == \A s \in Tracked \ lost :
    ~IsUnread(s) => \A k \in DOMAIN queue : IsLast(k, s) => queue[k].value = chat[s]
RoomCarry == \A s \in Details \ lost :
    created /\ ~IsUnread(s) /\ s \notin Pending => Shows(s)

Inv == Typed /\ UnreadCarry /\ QueueCarry /\ RoomCarry
-----------------------------------------------------------------------------
(* Subjects and their values                                               *)

\* Kinds of subjects do not meet, and nobody is no user.
LEMMA SubjectKinds ==
    /\ \A m : Text(m) \notin InfoSubjects
    /\ \A m, u : Reaction(m, u) \notin InfoSubjects /\ \A n : Text(n) # Reaction(m, u)
    /\ Member(NoUser) \notin Subjects
    /\ \A u \in Users : /\ Member(u) \in Tracked <=> u # Self
                        /\ Member(u) \in Details <=> u # Self
    /\ \A u, v : Member(u) = Member(v) <=> u = v
    /\ Name \in Details /\ Avatar \in Details /\ Name # Avatar
    /\ Name \notin MemberSubjects /\ Avatar \notin MemberSubjects
    /\ \A m \in Messages : Text(m) \in Subjects /\ \A u \in Reacting : Reaction(m, u) \in Subjects
    /\ \A u \in Users : Member(u) \in MemberSubjects
    /\ InfoSubjects \subseteq Subjects /\ Details \subseteq InfoSubjects
    /\ Details \subseteq Tracked /\ Tracked \subseteq Subjects
    /\ \A m : Text(m) \notin Tracked
    /\ \A m \in Messages, u \in Reacting : Reaction(m, u) \in Tracked
  BY PortalAssumption DEF Text, Reaction, Member, Name, Avatar, MemberSubjects, InfoSubjects,
     Subjects, Tracked, Details, Reactions

\* The values of each kind of subject.
LEMMA ValueKinds ==
    /\ \A s \in MemberSubjects : Values(s) = {"in", "out"}
    /\ Values(Name) = {"unnamed", "named", "chatID"}
    /\ Values(Avatar) = {"never", "set", "removed"}
    /\ \A m : Values(Text(m)) = {"none", "gone"} \cup Texts
    /\ \A m, u : Values(Reaction(m, u)) = {"none"} \cup Emoji
  <1>1. ASSUME NEW m PROVE Values(Text(m)) = {"none", "gone"} \cup Texts
    <2>1. Text(m) \notin MemberSubjects /\ Text(m) # Name /\ Text(m) # Avatar /\ Text(m)[1] = "message"
      BY SubjectKinds DEF InfoSubjects, Text
    <2> QED
      BY <2>1 DEF Values
  <1>2. ASSUME NEW m, NEW u PROVE Values(Reaction(m, u)) = {"none"} \cup Emoji
    <2>1. /\ Reaction(m, u) \notin MemberSubjects /\ Reaction(m, u) # Name /\ Reaction(m, u) # Avatar
          /\ Reaction(m, u)[1] = "tapback"
      BY SubjectKinds DEF InfoSubjects, Reaction
    <2> QED
      BY <2>1 DEF Values
  <1>3. /\ \A s \in MemberSubjects : Values(s) = {"in", "out"}
        /\ Values(Name) = {"unnamed", "named", "chatID"}
        /\ Values(Avatar) = {"never", "set", "removed"}
    <2>1. Name[1] = "name" /\ Avatar[1] = "avatar" /\ \A s \in MemberSubjects : s[1] = "member"
      BY DEF Name, Avatar, MemberSubjects, Member
    <2>2. Name \notin MemberSubjects /\ Avatar \notin MemberSubjects /\ Name # Avatar
      BY SubjectKinds
    <2>3. ASSUME NEW s \in MemberSubjects PROVE Values(s) = {"in", "out"}
      BY <2>1, <2>2 DEF Values
    <2>4. Values(Name) = {"unnamed", "named", "chatID"}
      BY <2>1, <2>2 DEF Values
    <2>5. Values(Avatar) = {"never", "set", "removed"}
      BY <2>1, <2>2 DEF Values
    <2> QED
      BY <2>3, <2>4, <2>5
  <1> QED
    BY <1>1, <1>2, <1>3

\* A subject is of one of five kinds.
LEMMA SubjectSplit ==
    ASSUME NEW s \in Subjects
    PROVE  \/ s \in MemberSubjects \/ s = Name \/ s = Avatar
           \/ \E m \in Messages : s = Text(m)
           \/ \E m \in Messages, u \in Reacting : s = Reaction(m, u)
  BY DEF Subjects, InfoSubjects

\* What a row becomes: an event about the subject of the row, with its value
\* when the subject is a member or a detail.
LEMMA RowEvent ==
    ASSUME NEW r, RowOK(r)
    PROVE  /\ HandleiMessage(r) \in Events
           /\ HandleiMessage(r).subject = SubjectOf(r)
           /\ SubjectOf(r) \in Tracked => HandleiMessage(r).value = r.value
  <1> DEFINE e == HandleiMessage(r)
  <1>1. e.subject = SubjectOf(r)
    BY DEF SubjectOf
  <1>2. r \in RowSet /\ r.value \in AllValues
    BY DEF RowOK, RowSet
  <1>3. CASE r.item = "tapback"
    <2>1. e = Event("reaction", Reaction(r.target, r.sender), r.value)
      BY <1>3 DEF HandleiMessage, HandleMessage, HandleTapback
    <2>2. r.target \in Messages /\ r.sender \in Reacting /\ r.value \in {"none"} \cup Emoji
      BY <1>3 DEF RowOK
    <2>3. Reaction(r.target, r.sender) \in Subjects
      BY <2>2, SubjectKinds
    <2>4. e.type = "reaction" /\ e.subject = Reaction(r.target, r.sender) /\ e.value = r.value
      BY <2>1 DEF Event
    <2>5. e \in EventSet
      BY <2>1, <2>3, <1>2 DEF Event, EventSet, EventTypes
    <2>6. EventOK(e)
      BY <2>2, <2>4, <2>5 DEF EventOK
    <2> QED
      BY <1>1, <2>3, <2>4, <2>5, <2>6 DEF Events
  <1>4. CASE r.item = "message"
    <2>1. r.target \in Messages /\ r.value \in Texts \cup {"gone"}
      BY <1>4 DEF RowOK
    <2>2. Text(r.target) \in Subjects /\ Text(r.target) \notin Tracked
      BY <2>1, SubjectKinds
    <2>3. PICK t \in {"remove", "edit", "message"} :
             e = Event(t, Text(r.target), r.value) /\ (t # "remove" => r.value \in Texts)
      BY <1>4, <2>1 DEF HandleiMessage, HandleMessage, Retracted
    <2>4. e.type = t /\ e.subject = Text(r.target) /\ e.value = r.value
      BY <2>3 DEF Event
    <2>5. e \in EventSet
      BY <2>2, <2>3, <1>2 DEF Event, EventSet, EventTypes
    <2>6. EventOK(e)
      BY <2>1, <2>3, <2>4, <2>5 DEF EventOK
    <2> QED
      BY <1>1, <2>2, <2>4, <2>5, <2>6 DEF Events
  <1>5. CASE r.item \in {"member", "name", "avatar"}
    <2>1. e.type = "info" /\ e.value = r.value
      <3>1. CASE r.item = "member"
        BY <1>2, <3>1 DEF HandleiMessage, HandleMember, Event, RowOK, RowSet
      <3>2. CASE r.item = "name"
        BY <3>2 DEF HandleiMessage, HandleName, Event
      <3>3. CASE r.item = "avatar"
        BY <1>2, <3>3 DEF HandleiMessage, HandleAvatarOrMemberLeave, Event, RowOK, RowSet
      <3> QED
        BY <1>5, <3>1, <3>2, <3>3
    <2>2. e.subject \in InfoSubjects \cup {Member(NoUser)}
      <3>1. CASE r.item = "member"
        <4>1. e.subject = Member(r.target) /\ r.target \in Users
          BY <3>1 DEF HandleiMessage, HandleMember, Event, RowOK
        <4> QED
          BY <4>1, SubjectKinds DEF InfoSubjects
      <3>2. CASE r.item = "name"
        BY <3>2 DEF HandleiMessage, HandleName, Event, InfoSubjects
      <3>3. CASE r.item = "avatar"
        <4>1. e.subject \in {Member(NoUser), Member(r.sender), Avatar} /\ r.sender \in Users
          BY <1>2, <3>3 DEF HandleiMessage, HandleAvatarOrMemberLeave, SenderLocalID, Event, RowSet
        <4> QED
          BY <4>1, SubjectKinds DEF InfoSubjects
      <3> QED
        BY <1>5, <3>1, <3>2, <3>3
    <2>3. e.subject \in InfoSubjects => e.value \in Values(e.subject)
      <3>1. CASE r.item = "member"
        <4>1. e.subject = Member(r.target) /\ r.target \in Users /\ r.value \in {"in", "out"}
          BY <3>1 DEF HandleiMessage, HandleMember, Event, RowOK
        <4> QED
          <5>1. Member(r.target) \in MemberSubjects
            BY <4>1, SubjectKinds
          <5>2. Values(Member(r.target)) = {"in", "out"}
            BY <5>1, ValueKinds
          <5> QED
            BY <2>1, <4>1, <5>2
      <3>2. CASE r.item = "name"
        <4>1. e.subject = Name /\ r.value \in {"unnamed", "named"}
          BY <3>2 DEF HandleiMessage, HandleName, Event, RowOK
        <4> QED
          BY <2>1, <4>1, ValueKinds
      <3>3. CASE r.item = "avatar" /\ r.action = 0
        <4>1. e.subject = Member(SenderLocalID(r)) /\ r.value = "out"
          BY <3>3 DEF HandleiMessage, HandleAvatarOrMemberLeave, Event, RowOK
        <4>2. e.subject \in InfoSubjects => e.subject \in MemberSubjects
          BY <4>1 DEF InfoSubjects, Member, Name, Avatar
        <4> QED
          BY <2>1, <4>1, <4>2, ValueKinds
      <3>4. CASE r.item = "avatar" /\ r.action # 0
        <4>1. r.action \in {1, 2}
          BY <1>2, <3>4 DEF RowSet
        <4>2. e.subject = Avatar /\ r.value \in {"set", "removed"}
          BY <3>4, <4>1 DEF HandleiMessage, HandleAvatarOrMemberLeave, Event, RowOK
        <4> QED
          BY <2>1, <4>2, ValueKinds
      <3> QED
        BY <1>5, <3>1, <3>2, <3>3, <3>4
    <2>4. e = Event("info", e.subject, e.value)
      BY <1>2, <1>5 DEF HandleiMessage, HandleMember, HandleName, HandleAvatarOrMemberLeave, Event, RowSet
    <2> HIDE DEF e
    <2>5. e \in EventSet
      BY <2>1, <2>2, <2>4, <1>2, SubjectKinds DEF Event, EventSet, EventTypes
    <2>6. EventOK(e)
      BY <2>1, <2>2, <2>3, <2>5 DEF EventOK
    <2> QED
      BY <1>1, <2>1, <2>5, <2>6 DEF Events, e
  <1> QED
    BY <1>2, <1>3, <1>4, <1>5 DEF RowSet

-----------------------------------------------------------------------------
(* The app                                                                 *)

\* At first the room shows the chat, or there is none.
LEMMA InvInit == Init => Inv
  <1> SUFFICES ASSUME Init PROVE Inv
    OBVIOUS
  <1> USE DEF Init
  <1>1. /\ unread = {} /\ queue = <<>> /\ queue \in Seq(Events) /\ IsFiniteSet(unread)
        /\ announced = {} /\ missing = {} /\ lost = {}
        /\ changes = 0 /\ topic \in Topics /\ created \in BOOLEAN
        /\ Len(queue) <= MaxQueue /\ DOMAIN queue = {}
    BY FS_EmptySet, PortalAssumption
  <1>2. DOMAIN chat = Subjects /\ DOMAIN Blank = Subjects
    BY DEF Blank
  <1>3. DOMAIN room = Subjects /\ (created => room = chat)
    BY <1>2
  <1>4. ASSUME NEW s \in Subjects PROVE Blank[s] \in Values(s)
    <2>1. CASE s \in MemberSubjects
      BY <2>1, ValueKinds DEF Blank
    <2>2. CASE s = Name
      BY <2>2, SubjectKinds, ValueKinds DEF Blank
    <2>3. CASE s = Avatar
      BY <2>3, SubjectKinds, ValueKinds DEF Blank
    <2>4. ASSUME NEW m \in Messages, s = Text(m) PROVE Blank[s] \in Values(s)
      <3>1. s \notin MemberSubjects /\ s # Name /\ s # Avatar
        BY <2>4, SubjectKinds DEF InfoSubjects
      <3> QED
        BY <2>4, <3>1, ValueKinds DEF Blank
    <2>5. ASSUME NEW m \in Messages, NEW u \in Reacting, s = Reaction(m, u) PROVE Blank[s] \in Values(s)
      <3>1. s \notin MemberSubjects /\ s # Name /\ s # Avatar
        BY <2>5, SubjectKinds DEF InfoSubjects
      <3> QED
        BY <2>5, <3>1, ValueKinds DEF Blank
    <2> QED
      BY <2>1, <2>2, <2>3, <2>4, <2>5, SubjectSplit
  <1>5. ASSUME NEW s \in Subjects PROVE chat[s] \in Values(s)
    <2>1. PICK M \in SUBSET (Users \ {Self}) :
            chat = [x \in Subjects |-> IF x \in {Member(u) : u \in M \cup {Self}} THEN "in" ELSE Blank[x]]
      OBVIOUS
    <2>2. CASE s \in {Member(u) : u \in M \cup {Self}}
      <3>1. s \in MemberSubjects
        BY <2>2, PortalAssumption DEF MemberSubjects
      <3> QED
        BY <2>1, <2>2, <3>1, ValueKinds
    <2>3. CASE s \notin {Member(u) : u \in M \cup {Self}}
      BY <1>4, <2>1, <2>3
    <2> QED
      BY <2>2, <2>3
  <1>6. ASSUME NEW s \in Subjects PROVE room[s] \in Values(s)
    BY <1>4, <1>5
  <1>7. stamp \in [Messages -> 0 .. MaxChanges] /\ changes \in 0 .. MaxChanges
    BY PortalAssumption
  <1>8. TypeOK
    BY <1>1, <1>5, <1>6, <1>7 DEF TypeOK
  <1>9. Typed
    BY <1>1, <1>2, <1>3, <1>8 DEF Typed
  <1>10. ASSUME NEW s \in Details, created PROVE Shows(s)
    BY <1>3, <1>10 DEF Shows
  <1> QED
    BY <1>1, <1>9, <1>10 DEF Inv, UnreadCarry, QueueCarry, RoomCarry

\* A change of the chat keeps the invariant when the row it adds is about what
\* changes, or neither is followed, and no row about anything followed goes.
LEMMA InvChange ==
    ASSUME Inv, NEW s \in Subjects, NEW v, NEW r, NEW old,
           changes < MaxChanges, changes' = changes + 1,
           chat' = [chat EXCEPT ![s] = v], v \in Values(s),
           stamp' \in [Messages -> 0 .. MaxChanges],
           unread' = (unread \ old) \cup {r}, RowOK(r), r.nr = changes + 1,
           SubjectOf(r) \in Tracked => r.value = v,
           \A x \in Tracked : SubjectOf(r) = x <=> s = x,
           \A q \in old : SubjectOf(q) \notin Tracked,
           UNCHANGED <<topic, queue, created, room, announced, missing, lost>>
    PROVE  Inv'
  <1> USE DEF Inv
  <1>1. /\ changes \in Nat /\ changes + 1 \in 0 .. MaxChanges /\ changes + 1 \in 1 .. changes'
        /\ \A q \in unread : q.nr \in 1 .. changes
    BY PortalAssumption DEF Typed, TypeOK
  <1>2. DOMAIN chat = Subjects /\ chat'[s] = v /\ \A x \in Subjects \ {s} : chat'[x] = chat[x]
    BY DEF Typed
  <1>3. Typed'
    <2>1. \A x \in Subjects : chat'[x] \in Values(x)
      BY <1>2 DEF Typed, TypeOK
    <2>2. \A q \in unread' : q.nr \in 1 .. changes' /\ RowOK(q)
      BY <1>1 DEF Typed
    <2>3. IsFiniteSet(unread')
      <3>1. IsFiniteSet(unread \ old)
        BY FS_Subset DEF Typed
      <3> QED
        BY <3>1, FS_AddElement
    <2>4. TypeOK'
      BY <1>1, <2>1, <2>2 DEF Typed, TypeOK
    <2>5. DOMAIN chat' = Subjects
      BY DEF Typed
    <2> QED
      BY <2>2, <2>3, <2>4, <2>5 DEF Typed
  <1>4. ASSUME NEW x \in Tracked, x # s
        PROVE  /\ chat'[x] = chat[x]
               /\ \A q : SubjectOf(q) = x => (q \in unread' <=> q \in unread)
    BY <1>2, <1>4, SubjectKinds
  <1>5. s \in Tracked => SubjectOf(r) = s /\ r \in unread'
    OBVIOUS
  <1>6. UnreadCarry'
    <2> SUFFICES ASSUME NEW q \in unread', SubjectOf(q) \in Tracked,
                        \A p \in unread' : SubjectOf(p) = SubjectOf(q) => p.nr <= q.nr
                 PROVE  q.value = chat'[SubjectOf(q)]
      BY DEF UnreadCarry, Newest
    <2>1. CASE SubjectOf(q) = s
      <3>1. SubjectOf(r) = SubjectOf(q) /\ r.nr <= q.nr
        BY <1>5, <2>1
      <3>2. q = r
        BY <1>1, <3>1
      <3> QED
        BY <1>2, <1>5, <2>1, <3>2
    <2>2. CASE SubjectOf(q) # s
      <3>1. q \in unread /\ chat'[SubjectOf(q)] = chat[SubjectOf(q)] /\ Newest(q)
        BY <1>4, <2>2 DEF Newest
      <3> QED
        BY <3>1 DEF UnreadCarry
    <2> QED
      BY <2>1, <2>2
  <1>7. ASSUME NEW x \in Tracked, ~IsUnread(x)'
        PROVE  x # s /\ ~IsUnread(x) /\ chat'[x] = chat[x]
    <2>1. x # s
      BY <1>5, <1>7 DEF IsUnread
    <2> QED
      BY <1>4, <1>7, <2>1 DEF IsUnread
  <1>8. QueueCarry'
    BY <1>7 DEF QueueCarry, IsLast
  <1>9. RoomCarry'
    BY <1>7, SubjectKinds DEF RoomCarry, Shows, Pending
  <1> QED
    BY <1>3, <1>6, <1>8, <1>9

\* A change that is a row of its own.
LEMMA InvWrite ==
    ASSUME Inv, NEW s \in Subjects, NEW v \in Values(s), NEW item, NEW action, NEW sender, NEW target,
           Write(s, v, item, action, sender, target),
           NEW r, r = [item |-> item, action |-> action, sender |-> sender,
                       target |-> target, value |-> v, nr |-> changes + 1],
           RowOK(r), \A x \in Tracked : SubjectOf(r) = x <=> s = x
    PROVE  Inv'
  <1> DEFINE old == {}
  <1>1. r.nr = changes + 1 /\ r.value = v
    OBVIOUS
  <1>2. /\ changes < MaxChanges /\ changes' = changes + 1 /\ chat' = [chat EXCEPT ![s] = v]
        /\ unread' = (unread \ old) \cup {r}
        /\ UNCHANGED <<topic, queue, created, room, announced, missing, lost>>
        /\ UNCHANGED stamp
    BY DEF Write, AppLeaves, history
  <1>3. stamp' \in [Messages -> 0 .. MaxChanges]
    BY <1>2 DEF Inv, Typed, TypeOK
  <1>4. \A q \in old : SubjectOf(q) \notin Tracked
    OBVIOUS
  <1> HIDE DEF old
  <1> QED
    BY ONLY Inv, RowOK(r), \A x \in Tracked : SubjectOf(r) = x <=> s = x,
            <1>1, <1>2, <1>3, <1>4, InvChange

\* The row of a message.
LEMMA RowOfMessage ==
    ASSUME Typed, NEW m \in Messages
    PROVE  /\ MessageRow(m) \in RowSet
           /\ MessageRow(m).item = "message" /\ MessageRow(m).target = m
           /\ MessageRow(m).value = chat[Text(m)]
           /\ chat[Text(m)] \in {"none", "gone"} \cup Texts
  <1>1. chat[Text(m)] \in {"none", "gone"} \cup Texts
    <2>1. Text(m) \in Subjects
      BY SubjectKinds
    <2>2. Values(Text(m)) = {"none", "gone"} \cup Texts
      BY ValueKinds
    <2> QED
      BY <2>1, <2>2 DEF Typed, TypeOK
  <1>2. stamp[m] \in Nat /\ Self \in Users
    BY PortalAssumption DEF Typed, TypeOK
  <1>3. chat[Text(m)] \in AllValues
    BY <1>1 DEF AllValues
  <1> QED
    BY <1>1, <1>2, <1>3 DEF MessageRow, RowSet

\* It is about the message.
LEMMA AboutMessage ==
    ASSUME NEW r, r.item = "message"
    PROVE  SubjectOf(r) = Text(r.target)
  BY DEF SubjectOf, HandleiMessage, HandleMessage, Event

\* A change of the row of a message.
LEMMA InvWriteText ==
    ASSUME Inv, NEW m \in Messages, NEW v \in Texts \cup {"gone"}, WriteText(m, v)
    PROVE  Inv'
  <1> DEFINE r == MessageRow(m)'
             old == {MessageRow(m)}
  <1>1. MessageRow(m).item = "message" /\ MessageRow(m).target = m
    BY DEF MessageRow
  <1>2. /\ changes < MaxChanges /\ changes' = changes + 1 /\ chat' = [chat EXCEPT ![Text(m)] = v]
        /\ unread' = (unread \ old) \cup {r}
        /\ stamp' = [stamp EXCEPT ![m] = changes + 1]
        /\ UNCHANGED <<topic, queue, created, room, announced, missing, lost>>
    BY DEF WriteText, AppLeaves, history
  <1>3. /\ changes \in Nat /\ changes + 1 \in 0 .. MaxChanges /\ stamp \in [Messages -> 0 .. MaxChanges]
        /\ DOMAIN chat = Subjects
    BY <1>2, PortalAssumption DEF Inv, Typed, TypeOK
  <1>4. stamp' \in [Messages -> 0 .. MaxChanges] /\ stamp'[m] = changes + 1
    BY <1>2, <1>3
  <1>5. Text(m) \in Subjects /\ Text(m) \notin Tracked /\ v \in Values(Text(m))
    <2>1. Text(m) \in Subjects /\ Text(m) \notin Tracked
      BY SubjectKinds
    <2>2. Values(Text(m)) = {"none", "gone"} \cup Texts
      BY ValueKinds
    <2> QED
      BY <2>1, <2>2
  <1>6. /\ r.item = "message" /\ r.target = m /\ r.value = v /\ r.nr = changes + 1
        /\ r = [item |-> "message", action |-> 0, sender |-> Self, target |-> m, value |-> v, nr |-> changes + 1]
    <2>1. chat'[Text(m)] = v
      BY <1>2, <1>3, <1>5
    <2> QED
      BY <1>4, <2>1 DEF MessageRow
  <1>7. RowOK(r)
    <2>1. v \in AllValues /\ Self \in Users /\ changes + 1 \in Nat
      BY <1>3, PortalAssumption DEF AllValues
    <2> HIDE DEF r
    <2>2. r \in RowSet
      BY <1>6, <2>1 DEF RowSet
    <2> QED
      BY <1>6, <2>2 DEF RowOK
  <1>8. SubjectOf(r) = Text(m)
    <2> HIDE DEF r
    <2> QED
      BY <1>6, AboutMessage
  <1>9. \A q \in old : SubjectOf(q) = Text(m)
    BY <1>1, AboutMessage
  <1>10. \A q \in old : SubjectOf(q) \notin Tracked
    BY <1>5, <1>9
  <1> HIDE DEF old
  <1>11. PICK p : p = r
    OBVIOUS
  <1>12. /\ unread' = (unread \ old) \cup {p} /\ RowOK(p) /\ p.nr = changes + 1
         /\ SubjectOf(p) = Text(m) /\ p.value = v
    BY <1>2, <1>6, <1>7, <1>8, <1>11
  <1>13. /\ SubjectOf(p) \in Tracked => p.value = v
         /\ \A x \in Tracked : SubjectOf(p) = x <=> Text(m) = x
    BY <1>12
  <1> HIDE DEF r
  <1> QED
    BY ONLY Inv, <1>2, <1>4, <1>5, <1>10, <1>12, <1>13, InvChange

\* Who joins, is removed or leaves.
LEMMA InvMember ==
    ASSUME Inv, NEW u \in Users, Join(u) \/ RemoveUser(u) \/ Leave(u)
    PROVE  Inv'
  <1>1. Member(u) \in Subjects /\ Values(Member(u)) = {"in", "out"}
    BY SubjectKinds, ValueKinds DEF InfoSubjects
  <1>2. changes \in Nat /\ Self \in Users
    BY PortalAssumption DEF Inv, Typed, TypeOK
  <1>3. CASE Join(u)
    <2> DEFINE r == [item |-> "member", action |-> 0, sender |-> Self,
                     target |-> u, value |-> "in", nr |-> changes + 1]
    <2>1. RowOK(r)
      BY <1>2 DEF RowOK, RowSet, AllValues
    <2>2. SubjectOf(r) = Member(u)
      BY DEF SubjectOf, HandleiMessage, HandleMember, Event
    <2>3. Write(Member(u), "in", "member", 0, Self, u)
      BY <1>3 DEF Join
    <2> HIDE DEF r
    <2> QED
      BY <1>1, <2>1, <2>2, <2>3, InvWrite DEF r
  <1>4. CASE RemoveUser(u)
    <2> DEFINE r == [item |-> "member", action |-> 1, sender |-> Self,
                     target |-> u, value |-> "out", nr |-> changes + 1]
    <2>1. RowOK(r)
      BY <1>2 DEF RowOK, RowSet, AllValues
    <2>2. SubjectOf(r) = Member(u)
      BY DEF SubjectOf, HandleiMessage, HandleMember, Event
    <2>3. Write(Member(u), "out", "member", 1, Self, u)
      BY <1>4 DEF RemoveUser
    <2> HIDE DEF r
    <2> QED
      BY <1>1, <2>1, <2>2, <2>3, InvWrite DEF r
  <1>5. CASE Leave(u)
    <2> DEFINE r == [item |-> "avatar", action |-> 0, sender |-> u,
                     target |-> NoUser, value |-> "out", nr |-> changes + 1]
    <2>1. RowOK(r)
      BY <1>2 DEF RowOK, RowSet, AllValues
    <2>2. SubjectOf(r) = IF u = Self THEN Member(NoUser) ELSE Member(u)
      BY DEF SubjectOf, HandleiMessage, HandleAvatarOrMemberLeave, SenderLocalID, Event
    <2>3. Write(Member(u), "out", "avatar", 0, u, NoUser)
      BY <1>5 DEF Leave
    <2>4. \A x \in Tracked : SubjectOf(r) = x <=> Member(u) = x
      BY <2>2, SubjectKinds
    <2> HIDE DEF r
    <2> QED
      BY <1>1, <2>1, <2>3, <2>4, InvWrite DEF r
  <1> QED
    BY <1>3, <1>4, <1>5

\* The row of a new name is a row.
LEMMA NameRow ==
    ASSUME NEW n \in AllValues, NEW k \in Nat
    PROVE  [item |-> "name", action |-> 0, sender |-> Self,
            target |-> NoUser, value |-> n, nr |-> k + 1] \in RowSet
  BY PortalAssumption DEF RowSet

\* The name and the avatar.
LEMMA InvDetail ==
    ASSUME Inv, Rename \/ SetAvatar \/ RemoveAvatar
    PROVE  Inv'
  <1>1. Name \in Subjects /\ Avatar \in Subjects
    BY DEF Subjects, InfoSubjects
  <1>2. changes \in Nat /\ Self \in Users
    BY PortalAssumption DEF Inv, Typed, TypeOK
  <1>3. CASE Rename
    <2>1. PICK n \in {"unnamed", "named"} : Write(Name, n, "name", 0, Self, NoUser)
      BY <1>3 DEF Rename
    <2> DEFINE r == [item |-> "name", action |-> 0, sender |-> Self,
                     target |-> NoUser, value |-> n, nr |-> changes + 1]
    <2>2. RowOK(r)
      <3>1. n \in AllValues
        BY DEF AllValues
      <3>2. r \in RowSet
        BY <1>2, <3>1, NameRow
      <3>3. r.item = "name" /\ r.value \in {"unnamed", "named"}
        OBVIOUS
      <3> HIDE DEF r
      <3> QED
        BY <3>2, <3>3 DEF RowOK
    <2>3. SubjectOf(r) = Name /\ n \in Values(Name)
      BY ValueKinds DEF SubjectOf, HandleiMessage, HandleName, Event
    <2> HIDE DEF r
    <2> QED
      BY <1>1, <2>1, <2>2, <2>3, InvWrite DEF r
  <1>4. CASE SetAvatar
    <2> DEFINE r == [item |-> "avatar", action |-> 1, sender |-> Self,
                     target |-> NoUser, value |-> "set", nr |-> changes + 1]
    <2>1. Write(Avatar, "set", "avatar", 1, Self, NoUser)
      BY <1>4 DEF SetAvatar
    <2>2. RowOK(r)
      BY <1>2 DEF RowOK, RowSet, AllValues
    <2>3. SubjectOf(r) = Avatar
      BY DEF SubjectOf, HandleiMessage, HandleAvatarOrMemberLeave, Event
    <2>4. "set" \in Values(Avatar)
      BY ValueKinds
    <2> HIDE DEF r
    <2> QED
      BY <1>1, <2>1, <2>2, <2>3, <2>4, InvWrite DEF r
  <1>5. CASE RemoveAvatar
    <2> DEFINE r == [item |-> "avatar", action |-> 2, sender |-> Self,
                     target |-> NoUser, value |-> "removed", nr |-> changes + 1]
    <2>1. Write(Avatar, "removed", "avatar", 2, Self, NoUser)
      BY <1>5 DEF RemoveAvatar
    <2>2. RowOK(r)
      BY <1>2 DEF RowOK, RowSet, AllValues
    <2>3. SubjectOf(r) = Avatar
      BY DEF SubjectOf, HandleiMessage, HandleAvatarOrMemberLeave, Event
    <2>4. "removed" \in Values(Avatar)
      BY ValueKinds
    <2> HIDE DEF r
    <2> QED
      BY <1>1, <2>1, <2>2, <2>3, <2>4, InvWrite DEF r
  <1> QED
    BY <1>3, <1>4, <1>5

\* Messages and reactions.
LEMMA InvMessage ==
    ASSUME Inv, NEW m \in Messages,
           Send(m) \/ Edit(m) \/ Retract(m) \/ \E u \in Reacting : React(m, u)
    PROVE  Inv'
  <1>1. CASE Send(m) \/ Edit(m) \/ Retract(m)
    <2>1. PICK v \in Texts \cup {"gone"} : WriteText(m, v)
      BY <1>1 DEF Send, Edit, Retract, Texts
    <2> QED
      BY <2>1, InvWriteText
  <1>2. ASSUME NEW u \in Reacting, React(m, u) PROVE Inv'
    <2>1. PICK v \in {"none"} \cup Emoji : Write(Reaction(m, u), v, "tapback", 0, u, m)
      BY <1>2 DEF React
    <2> DEFINE r == [item |-> "tapback", action |-> 0, sender |-> u,
                     target |-> m, value |-> v, nr |-> changes + 1]
    <2>2. changes \in Nat /\ u \in Users
      BY PortalAssumption DEF Inv, Typed, TypeOK
    <2>3. RowOK(r)
      <3>1. v \in AllValues
        BY DEF AllValues
      <3> QED
        BY <2>2, <3>1 DEF RowOK, RowSet
    <2>4. SubjectOf(r) = Reaction(m, u)
      BY DEF SubjectOf, HandleiMessage, HandleMessage, HandleTapback, Event
    <2>5. Reaction(m, u) \in Subjects
      BY SubjectKinds
    <2>6. Values(Reaction(m, u)) = {"none"} \cup Emoji
      BY ValueKinds
    <2> HIDE DEF r
    <2> QED
      BY <2>1, <2>3, <2>4, <2>5, <2>6, InvWrite DEF r
  <1> QED
    BY <1>1, <1>2

LEMMA InvApp == ASSUME Inv, App PROVE Inv'
  BY InvMember, InvDetail, InvMessage DEF App

-----------------------------------------------------------------------------
(* A pass                                                                  *)

\* An order of a finite set is a sequence of it that has all of it.
LEMMA Orders ==
    ASSUME NEW S, IsFiniteSet(S), NEW o \in SetToSeqs(S)
    PROVE  /\ o \in Seq(S) /\ Len(o) = Cardinality(S) /\ Len(o) \in Nat
           /\ \A x \in S : \E i \in DOMAIN o : o[i] = x
           /\ \A i, j \in DOMAIN o : o[i] = o[j] => i = j
  <1> DEFINE D == 1 .. Cardinality(S)
  <1>1. Cardinality(S) \in Nat
    BY FS_CardinalityType
  <1>2. o \in [D -> S] /\ \A i, j \in D : i # j => o[i] # o[j]
    BY DEF SetToSeqs
  <1>3. o \in Seq(S) /\ Len(o) = Cardinality(S)
    BY <1>1, <1>2
  <1>4. IsFiniteSet(D) /\ Cardinality(D) = Cardinality(S)
    BY <1>1, FS_Interval
  <1>5. o \in Injection(D, S)
    BY <1>2 DEF Injection, IsInjective
  <1>6. o \in Surjection(D, S)
    BY <1>4, <1>5, FS_Injection
  <1> QED
    BY <1>1, <1>2, <1>3, <1>6 DEF Surjection

\* The rows a pass may read.
LEMMA RowsRead ==
    ASSUME Typed,
           NEW A \in SUBSET {m \in Messages : chat[Text(m)] \in {"edited", "reedited", "gone"}}
    PROVE  LET rows == unread \cup {MessageRow(m) : m \in A} IN
           /\ IsFiniteSet(rows) /\ \A r \in rows : RowOK(r)
           /\ \A r \in rows : SubjectOf(r) \in Tracked => r \in unread
  <1> DEFINE changed == {MessageRow(m) : m \in A}
             f == [m \in A |-> MessageRow(m)]
  <1>1. A \subseteq Messages /\ IsFiniteSet(A)
    BY FS_Subset, PortalAssumption
  <1>2. f \in Surjection(A, changed)
    BY DEF Surjection
  <1>3. IsFiniteSet(changed)
    BY <1>1, <1>2, FS_Surjection
  <1>4. IsFiniteSet(unread \cup changed)
    BY <1>3, FS_Union DEF Typed
  <1>5. ASSUME NEW m \in A PROVE RowOK(MessageRow(m)) /\ SubjectOf(MessageRow(m)) \notin Tracked
    <2>1. m \in Messages /\ chat[Text(m)] \in Texts \cup {"gone"}
      BY DEF Texts
    <2>2. RowOK(MessageRow(m))
      BY <2>1, RowOfMessage DEF RowOK
    <2>3. SubjectOf(MessageRow(m)) = Text(m)
      <3>1. MessageRow(m).item = "message" /\ MessageRow(m).target = m
        BY <2>1, RowOfMessage
      <3>2. SubjectOf(MessageRow(m)) = Text(MessageRow(m).target)
        BY <3>1, AboutMessage
      <3> QED
        BY <3>1, <3>2
    <2>4. Text(m) \notin Tracked
      BY SubjectKinds
    <2> QED
      BY <2>2, <2>3, <2>4
  <1> QED
    BY <1>4, <1>5 DEF Typed

\* The events of rows in their order.
EventsOf(o) == [i \in DOMAIN o |-> HandleiMessage(o[i])]

\* p is q with the events of o, in their order, behind it.
Follows(p, q, o) ==
    /\ p \in Seq(Events) /\ Len(p) = Len(q) + Len(o)
    /\ \A k \in DOMAIN q : k \in DOMAIN p /\ p[k] = q[k]
    /\ \A i \in DOMAIN o : Len(q) + i \in DOMAIN p /\ p[Len(q) + i] = HandleiMessage(o[i])
    /\ \A k \in DOMAIN p : k \in DOMAIN q \/ \E i \in DOMAIN o : k = Len(q) + i

\* What a pass puts into the queue.
LEMMA Queued ==
    ASSUME NEW q \in Seq(Events), NEW S, \A r \in S : RowOK(r), NEW o \in Seq(S)
    PROVE  Follows(q \o EventsOf(o), q, o)
  <1> DEFINE p == q \o EventsOf(o)
  <1> DEFINE es == EventsOf(o)
  <1>1. \A i \in DOMAIN o : o[i] \in S /\ HandleiMessage(o[i]) \in Events
    BY RowEvent
  <1>2. DOMAIN o = 1 .. Len(o) /\ Len(o) \in Nat /\ DOMAIN q = 1 .. Len(q) /\ Len(q) \in Nat
    OBVIOUS
  <1>3. es \in Seq(Events) /\ Len(es) = Len(o) /\ \A i \in 1 .. Len(o) : es[i] = HandleiMessage(o[i])
    BY <1>1, <1>2 DEF EventsOf
  <1> HIDE DEF es
  <1>4. p = q \o es
    BY DEF es
  <1> HIDE DEF p
  <1>5. p \in Seq(Events) /\ Len(p) = Len(q) + Len(o) /\ DOMAIN p = 1 .. Len(q) + Len(o)
    <2>1. p \in Seq(Events)
      BY <1>3, <1>4
    <2>2. Len(p) = Len(q) + Len(o)
      <3>1. \A a, b \in Seq(Events) : Len(a \o b) = Len(a) + Len(b)
        OBVIOUS
      <3> QED
        BY <1>3, <1>4, <3>1
    <2> QED
      BY <2>1, <2>2
  <1>6. \A k \in 1 .. Len(q) + Len(o) : p[k] = IF k <= Len(q) THEN q[k] ELSE es[k - Len(q)]
    BY <1>2, <1>3, <1>4
  <1>7. \A i \in 1 .. Len(o) : Len(q) + i \in DOMAIN p /\ p[Len(q) + i] = HandleiMessage(o[i])
    <2> SUFFICES ASSUME NEW i \in 1 .. Len(o)
                 PROVE  Len(q) + i \in DOMAIN p /\ p[Len(q) + i] = HandleiMessage(o[i])
      OBVIOUS
    <2>1. Len(q) + i \in 1 .. Len(q) + Len(o) /\ ~(Len(q) + i <= Len(q)) /\ (Len(q) + i) - Len(q) = i
      BY <1>2
    <2>2. p[Len(q) + i] = es[(Len(q) + i) - Len(q)]
      BY <1>6, <2>1
    <2> QED
      BY <1>3, <1>5, <2>1, <2>2
  <1>8. \A k \in DOMAIN p : k \in 1 .. Len(q) \/ (k - Len(q) \in 1 .. Len(o) /\ k = Len(q) + (k - Len(q)))
    BY <1>2, <1>5
  <1> QED
    BY <1>2, <1>5, <1>6, <1>7, <1>8 DEF p, Follows

\* A pass reads the rows in the order o.
ReadAs(rows, o) ==
    /\ queue' = queue \o EventsOf(o)
    /\ announced' = announced \cup ReadNew(o)
    /\ missing' = missing \cup ReadLate(o)
    /\ lost' = (lost \ {SubjectOf(r) : r \in rows}) \cup Disordered(o)
    /\ unread' = {} /\ UNCHANGED <<topic, chat, changes, stamp, created, room>>
    /\ \A r \in rows : RowOK(r) /\ (SubjectOf(r) \in Tracked => r \in unread)
    /\ \A r \in rows : r \in unread \/ \E m \in Messages : r = MessageRow(m) /\ r.value # "sent"
    /\ unread \subseteq rows
    /\ \A i \in DOMAIN o : o[i] \in rows /\ RowOK(o[i])
    /\ \A r \in rows : \E i \in DOMAIN o : o[i] = r
    /\ \A i, j \in DOMAIN o : o[i] = o[j] => i = j
    /\ DOMAIN o = 1 .. Len(o) /\ Len(o) \in Nat
    /\ DOMAIN queue = 1 .. Len(queue) /\ Len(queue) \in Nat
    /\ Len(queue) + Len(o) <= MaxQueue
    /\ Follows(queue', queue, o)

\* Every pass does.
LEMMA ReadInOrder == ASSUME Typed, Read PROVE \E rows, o : ReadAs(rows, o)
  <1>1. PICK A \in SUBSET {m \in Messages : chat[Text(m)] \in {"edited", "reedited", "gone"}} :
          LET rows == unread \cup {MessageRow(m) : m \in A} IN
          /\ rows # {} /\ Len(queue) + Cardinality(rows) <= MaxQueue
          /\ \E o \in SetToSeqs(rows) :
              /\ InKeyOrder(o)
              /\ queue' = queue \o [i \in DOMAIN o |-> HandleiMessage(o[i])]
              /\ announced' = announced \cup ReadNew(o)
              /\ missing' = missing \cup ReadLate(o)
              /\ lost' = (lost \ {SubjectOf(r) : r \in rows}) \cup Disordered(o)
    BY DEF Read
  <1> DEFINE rows == unread \cup {MessageRow(m) : m \in A}
  <1>2. PICK o \in SetToSeqs(rows) :
              /\ queue' = queue \o EventsOf(o)
              /\ announced' = announced \cup ReadNew(o)
              /\ missing' = missing \cup ReadLate(o)
              /\ lost' = (lost \ {SubjectOf(r) : r \in rows}) \cup Disordered(o)
    BY <1>1 DEF EventsOf
  <1>3. Len(queue) + Cardinality(rows) <= MaxQueue
    BY <1>1
  <1>4. unread' = {} /\ UNCHANGED <<topic, chat, changes, stamp, created, room>>
    BY DEF Read, appVars
  <1>5. \A r \in rows : r \in unread \/ \E m \in Messages : r = MessageRow(m) /\ r.value # "sent"
    <2> SUFFICES ASSUME NEW m \in A PROVE m \in Messages /\ MessageRow(m).value # "sent"
      OBVIOUS
    <2>1. m \in Messages /\ chat[Text(m)] \in {"edited", "reedited", "gone"}
      OBVIOUS
    <2> QED
      BY <2>1, RowOfMessage
  <1>6. /\ IsFiniteSet(rows) /\ \A r \in rows : RowOK(r)
        /\ \A r \in rows : SubjectOf(r) \in Tracked => r \in unread
        /\ unread \subseteq rows
    BY RowsRead
  <1> HIDE DEF rows
  <1>7. /\ o \in Seq(rows) /\ Len(o) = Cardinality(rows)
        /\ \A r \in rows : \E i \in DOMAIN o : o[i] = r
        /\ \A i, j \in DOMAIN o : o[i] = o[j] => i = j
    BY <1>6, Orders
  <1>8. Follows(queue', queue, o)
    <2>1. queue \in Seq(Events)
      BY DEF Typed
    <2>2. queue' = queue \o EventsOf(o)
      BY <1>2
    <2>3. (\A r \in rows : RowOK(r)) /\ o \in Seq(rows)
      BY <1>6, <1>7
    <2>4. Follows(queue \o EventsOf(o), queue, o)
      BY <2>1, <2>3, Queued
    <2> QED
      BY <2>2, <2>4
  <1>9. /\ DOMAIN o = 1 .. Len(o) /\ Len(o) \in Nat
        /\ DOMAIN queue = 1 .. Len(queue) /\ Len(queue) \in Nat
    <2>1. queue \in Seq(Events)
      BY DEF Typed
    <2>2. DOMAIN queue = 1 .. Len(queue) /\ Len(queue) \in Nat
      BY <2>1
    <2>3. o \in Seq(rows)
      BY <1>7
    <2>4. DOMAIN o = 1 .. Len(o) /\ Len(o) \in Nat
      BY <2>3
    <2> QED
      BY <2>2, <2>4
  <1>10. \A i \in DOMAIN o : o[i] \in rows /\ RowOK(o[i])
    BY <1>6, <1>7, <1>9
  <1>11. Len(queue) + Len(o) <= MaxQueue
    BY <1>3, <1>7
  <1>12. ReadAs(rows, o)
    BY <1>2, <1>4, <1>5, <1>6, <1>7, <1>8, <1>9, <1>10, <1>11 DEF ReadAs
  <1> QED
    BY <1>12

\* The newest change of a subject that was read is the last event of it, unless
\* the batch was disordered; subjects that were not read are as before.
LEMMA InvRead == ASSUME Inv, Read PROVE Inv'
  <1>1. PICK rows, o : ReadAs(rows, o)
    BY ReadInOrder DEF Inv
  <1>2. /\ announced' = announced \cup ReadNew(o)
        /\ missing' = missing \cup ReadLate(o)
        /\ lost' = (lost \ {SubjectOf(r) : r \in rows}) \cup Disordered(o)
    BY <1>1 DEF ReadAs
  <1>3. Len(queue) + Len(o) <= MaxQueue
    BY <1>1 DEF ReadAs
  <1>4. unread' = {} /\ UNCHANGED <<topic, chat, changes, stamp, created, room>>
    BY <1>1 DEF ReadAs
  <1>5. Typed /\ UnreadCarry /\ QueueCarry /\ RoomCarry
    BY DEF Inv
  <1>6. /\ \A r \in rows : SubjectOf(r) \in Tracked => r \in unread
        /\ unread \subseteq rows
    BY <1>1 DEF ReadAs
  <1>7. \A r \in rows : \E i \in DOMAIN o : o[i] = r
    BY <1>1 DEF ReadAs
  <1>8. /\ queue' \in Seq(Events) /\ Len(queue') = Len(queue) + Len(o)
        /\ \A k \in DOMAIN queue : k \in DOMAIN queue' /\ queue'[k] = queue[k]
        /\ \A i \in DOMAIN o : /\ Len(queue) + i \in DOMAIN queue'
                                /\ queue'[Len(queue) + i] = HandleiMessage(o[i])
        /\ \A k \in DOMAIN queue' : k \in DOMAIN queue \/ \E i \in DOMAIN o : k = Len(queue) + i
    BY <1>1 DEF ReadAs, Follows
  <1>9. /\ DOMAIN o = 1 .. Len(o) /\ Len(o) \in Nat
        /\ DOMAIN queue = 1 .. Len(queue) /\ Len(queue) \in Nat
    BY <1>1 DEF ReadAs
  <1>10. \A i \in DOMAIN o : o[i] \in rows /\ RowOK(o[i])
    BY <1>1 DEF ReadAs
  <1>11. Typed'
    <2>1. ReadNew(o) \subseteq Messages /\ ReadLate(o) \subseteq Messages
      BY <1>10 DEF ReadNew, ReadLate, RowOK
    <2>2. Disordered(o) \subseteq Subjects
      BY DEF Disordered
    <2>3. Len(queue') <= MaxQueue
      BY <1>3, <1>7, <1>8
    <2>4. TypeOK'
      BY <1>2, <1>4, <1>5, <2>1, <2>2, <2>3 DEF Typed, TypeOK
    <2> QED
      BY <1>4, <1>5, <1>8, <2>4, FS_EmptySet DEF Typed
  <1>12. UnreadCarry'
    BY <1>4 DEF UnreadCarry
  <1>13. ASSUME NEW s \in Tracked, s \notin lost', NEW i \in DOMAIN o, SubjectOf(o[i]) = s,
                \A j \in DOMAIN o : j > i => SubjectOf(o[j]) # s
         PROVE  o[i].value = chat[s]
    <2>1. o[i] \in unread
      BY <1>6, <1>10, <1>13
    <2>2. s \notin Disordered(o) /\ s \in Subjects
      BY <1>2, <1>13, SubjectKinds
    <2>3. ASSUME NEW q \in unread, SubjectOf(q) = s PROVE q.nr <= o[i].nr
      <3>1. PICK j \in DOMAIN o : o[j] = q
        BY <1>6, <1>7
      <3>2. j = i \/ j < i
        BY <1>9, <1>13, <2>3, <3>1
      <3>3. CASE j = i
        BY <1>5, <2>1, <3>1, <3>3 DEF Typed, RowOK, RowSet
      <3>4. CASE j < i /\ o[j].nr > o[i].nr
        <4>1. SubjectOf(o[i]) \in Disordered(o)
          BY <1>13, <2>2, <2>3, <3>1, <3>4 DEF Disordered
        <4> QED
          BY <1>13, <2>2, <4>1
      <3>5. o[j].nr \in Nat /\ o[i].nr \in Nat
        BY <1>10 DEF RowOK, RowSet
      <3> QED
        BY <3>1, <3>2, <3>3, <3>4, <3>5
    <2>4. Newest(o[i])
      BY <1>13, <2>3 DEF Newest
    <2> QED
      BY <1>5, <1>13, <2>1, <2>4 DEF UnreadCarry
  <1>14. ASSUME NEW s \in Tracked, s \notin lost', \A i \in DOMAIN o : SubjectOf(o[i]) # s
         PROVE  s \notin lost /\ ~IsUnread(s)
    <2>1. \A r \in rows : SubjectOf(r) # s
      BY <1>7, <1>14
    <2> QED
      BY <1>2, <1>6, <1>14, <2>1 DEF IsUnread
  <1>15. ASSUME NEW s \in Tracked, s \notin lost', NEW k \in DOMAIN queue', IsLast(k, s)'
         PROVE  queue'[k].value = chat'[s]
    <2>1. \A j \in DOMAIN queue' : j > k => queue'[j].subject # s
      BY <1>15 DEF IsLast
    <2>2. queue'[k].subject = s
      BY <1>15 DEF IsLast
    <2>3. \A i \in DOMAIN o : queue'[Len(queue) + i].subject = SubjectOf(o[i])
      BY <1>8, <1>10, RowEvent
    <2>4. ASSUME NEW i \in DOMAIN o, k = Len(queue) + i PROVE queue'[k].value = chat'[s]
      <3>1. SubjectOf(o[i]) = s
        BY <2>2, <2>3, <2>4
      <3>2. \A j \in DOMAIN o : j > i => SubjectOf(o[j]) # s
        <4>1. ASSUME NEW j \in DOMAIN o, j > i PROVE Len(queue) + j > k
          BY <1>9, <2>4, <4>1
        <4> QED
          BY <1>8, <2>1, <2>3, <4>1
      <3>3. queue'[k].value = o[i].value
        BY <1>8, <1>10, <2>4, <3>1, RowEvent
      <3> QED
        BY <1>4, <1>13, <1>15, <3>1, <3>2, <3>3
    <2>5. CASE k \in DOMAIN queue
      <3>1. \A i \in DOMAIN o : Len(queue) + i > k
        BY <1>9, <2>5
      <3>2. \A i \in DOMAIN o : SubjectOf(o[i]) # s
        BY <1>8, <2>1, <2>3, <3>1
      <3>3. s \notin lost /\ ~IsUnread(s)
        BY <1>14, <1>15, <3>2
      <3>4. IsLast(k, s)
        BY <1>8, <1>15, <2>5 DEF IsLast
      <3> QED
        BY <1>4, <1>5, <1>8, <2>5, <3>3, <3>4 DEF QueueCarry
    <2> QED
      BY <1>8, <1>15, <2>4, <2>5
  <1>16. ASSUME NEW s \in Details, s \notin lost', created', s \notin Pending' PROVE Shows(s)'
    <2>1. \A k \in DOMAIN queue' : queue'[k].subject # s
      BY <1>16 DEF Pending
    <2>2. \A i \in DOMAIN o : SubjectOf(o[i]) # s
      BY <1>8, <1>10, <2>1, RowEvent
    <2>3. s \notin lost /\ ~IsUnread(s)
      BY <1>14, <1>16, <2>2, SubjectKinds
    <2>4. s \notin Pending
      BY <1>8, <2>1 DEF Pending
    <2> QED
      BY <1>4, <1>5, <1>16, <2>3, <2>4 DEF RoomCarry, Shows
  <1> QED
    BY <1>11, <1>12, <1>15, <1>16 DEF Inv, QueueCarry, RoomCarry

-----------------------------------------------------------------------------
(* The portal                                                              *)

\* Taking the first event.
LEMMA Taken ==
    ASSUME Typed, queue # <<>>, queue' = Tail(queue)
    PROVE  /\ Head(queue) \in Events /\ queue' \in Seq(Events) /\ Len(queue') <= Len(queue)
           /\ 1 \in DOMAIN queue /\ Head(queue) = queue[1]
           /\ \A k \in DOMAIN queue' : k + 1 \in DOMAIN queue /\ queue'[k] = queue[k + 1]
           /\ \A k \in DOMAIN queue : k = 1 \/ (k - 1 \in DOMAIN queue' /\ queue'[k - 1] = queue[k])
  <1>1. queue \in Seq(Events)
    BY DEF Typed
  <1>2. /\ Len(queue) \in Nat \ {0} /\ DOMAIN queue = 1 .. Len(queue)
        /\ queue' \in Seq(Events) /\ Len(queue') = Len(queue) - 1 /\ Head(queue) = queue[1]
        /\ \A k \in 1 .. Len(queue) - 1 : queue'[k] = queue[k + 1]
    BY <1>1
  <1>3. DOMAIN queue' = 1 .. Len(queue) - 1
    BY <1>2
  <1>4. ASSUME NEW k \in DOMAIN queue, k # 1
        PROVE  k - 1 \in DOMAIN queue' /\ queue'[k - 1] = queue[k]
    <2>1. k - 1 \in 1 .. Len(queue) - 1 /\ (k - 1) + 1 = k
      BY <1>2, <1>4
    <2> QED
      BY <1>2, <1>3, <2>1
  <1>5. Head(queue) \in Events
    BY <1>1, <1>2
  <1> QED
    BY <1>2, <1>3, <1>4, <1>5

\* What waits behind the first event still ends in the newest changes.
LEMMA QueueTaken ==
    ASSUME Inv, queue # <<>>, queue' = Tail(queue), UNCHANGED <<chat, unread>>,
           \A s \in Tracked : s \notin lost' => s \notin lost \/ s \notin Pending
    PROVE  QueueCarry'
  <1> SUFFICES ASSUME NEW s \in Tracked, s \notin lost', ~IsUnread(s)',
                      NEW k \in DOMAIN queue', IsLast(k, s)'
               PROVE  queue'[k].value = chat'[s]
    BY DEF QueueCarry
  <1>1. Typed /\ QueueCarry
    BY DEF Inv
  <1>2. /\ k + 1 \in DOMAIN queue /\ queue'[k] = queue[k + 1]
        /\ \A j \in DOMAIN queue : j = 1 \/ (j - 1 \in DOMAIN queue' /\ queue'[j - 1] = queue[j])
        /\ 1 \in DOMAIN queue
    BY <1>1, Taken
  <1>3. queue'[k].subject = s /\ \A j \in DOMAIN queue' : j > k => queue'[j].subject # s
    BY DEF IsLast
  <1>4. DOMAIN queue = 1 .. Len(queue) /\ DOMAIN queue' = 1 .. Len(queue') /\ Len(queue) \in Nat
    <2>1. queue \in Seq(Events) /\ queue' \in Seq(Events)
      BY <1>1, Taken DEF Typed
    <2> QED
      BY <2>1
  <1>5. ASSUME NEW j \in DOMAIN queue, j > k + 1 PROVE queue[j].subject # s
    <2>1. j # 1 /\ j - 1 > k
      BY <1>4, <1>5
    <2> QED
      BY <1>2, <1>3, <2>1
  <1>6. IsLast(k + 1, s)
    BY <1>2, <1>3, <1>5 DEF IsLast
  <1>7. s \in Pending /\ ~IsUnread(s)
    BY <1>2, <1>3 DEF Pending, IsUnread
  <1> QED
    BY <1>1, <1>2, <1>6, <1>7 DEF QueueCarry

\* An event changes its own subject only, and gives it a value it may have.
LEMMA AppliedEvent ==
    ASSUME NEW R, DOMAIN R = Subjects, NEW e \in Events
    PROVE  /\ DOMAIN Applied(R, e) = Subjects
           /\ \A s \in Subjects \ {e.subject} : Applied(R, e)[s] = R[s]
           /\ \A s \in Details : e.subject = s => Applied(R, e)[s] = e.value
           /\ \A s \in Subjects : R[s] \in Values(s) => Applied(R, e)[s] \in Values(s)
  <1>1. EventOK(e) /\ e \in EventSet /\ e.type \in EventTypes
    BY DEF Events, EventSet
  <1>2. CASE e.type = "info"
    <2>1. Applied(R, e) = IF e.subject \in Subjects THEN [R EXCEPT ![e.subject] = e.value] ELSE R
      BY <1>2 DEF Applied
    <2>2. e.subject \in Subjects => e.value \in Values(e.subject)
      BY <1>1, <1>2, SubjectKinds DEF EventOK
    <2>3. Details \subseteq Subjects
      BY SubjectKinds
    <2> QED
      BY <2>1, <2>2, <2>3
  <1>3. ASSUME e.type # "info"
        PROVE  /\ e.subject \in Subjects \ Details
               /\ Applied(R, e) = R
                  \/ \E v \in Values(e.subject) : Applied(R, e) = [R EXCEPT ![e.subject] = v]
    <2>1. CASE e.type \in {"message", "edit", "remove"}
      <3>1. PICK m \in Messages : e.subject = Text(m)
        BY <1>1, <2>1 DEF EventOK
      <3>2. Text(m) \in Subjects /\ Text(m) \notin Details
        BY SubjectKinds
      <3>3. Values(Text(m)) = {"none", "gone"} \cup Texts
        BY ValueKinds
      <3>4. e.type # "remove" => e.value \in Texts
        BY <1>1, <2>1 DEF EventOK
      <3>5. Applied(R, e) = R \/ \E v \in {"gone"} \cup Texts : Applied(R, e) = [R EXCEPT ![e.subject] = v]
        BY <2>1, <3>4 DEF Applied
      <3> QED
        BY <3>1, <3>2, <3>3, <3>5
    <2>2. CASE e.type = "reaction"
      <3>1. PICK m \in Messages, u \in Reacting : e.subject = Reaction(m, u)
        BY <1>1, <2>2 DEF EventOK
      <3>2. Reaction(m, u) \in Subjects /\ Reaction(m, u) \notin Details
        BY SubjectKinds
      <3>3. Values(Reaction(m, u)) = {"none"} \cup Emoji
        BY ValueKinds
      <3>4. e.value \in {"none"} \cup Emoji
        BY <1>1, <2>2 DEF EventOK
      <3>5. Applied(R, e) = R \/ Applied(R, e) = [R EXCEPT ![e.subject] = e.value]
        BY <2>2 DEF Applied
      <3> QED
        BY <3>1, <3>2, <3>3, <3>4, <3>5
    <2> QED
      BY <1>1, <1>3, <2>1, <2>2 DEF EventTypes
  <1>4. CASE e.type # "info"
    BY <1>3, <1>4
  <1> QED
    BY <1>2, <1>4

\* An event in the room.
LEMMA InvHandle == ASSUME Inv, HandleInRoom PROVE Inv'
  <1>1. /\ queue # <<>> /\ room' = Applied(room, Head(queue)) /\ queue' = Tail(queue)
        /\ UNCHANGED <<topic, chat, changes, stamp, unread, created, announced, missing, lost>>
    BY DEF HandleInRoom, appVars, history
  <1>2. Typed /\ UnreadCarry /\ QueueCarry /\ RoomCarry
    BY DEF Inv
  <1>3. /\ Head(queue) \in Events /\ queue' \in Seq(Events) /\ Len(queue') <= Len(queue)
        /\ 1 \in DOMAIN queue /\ Head(queue) = queue[1]
        /\ \A k \in DOMAIN queue : k = 1 \/ (k - 1 \in DOMAIN queue' /\ queue'[k - 1] = queue[k])
    BY <1>1, <1>2, Taken
  <1> DEFINE e == Head(queue)
  <1>4. /\ DOMAIN room' = Subjects
        /\ \A s \in Subjects \ {e.subject} : room'[s] = room[s]
        /\ \A s \in Details : e.subject = s => room'[s] = e.value
        /\ \A s \in Subjects : room'[s] \in Values(s)
    <2>1. DOMAIN room = Subjects /\ \A s \in Subjects : room[s] \in Values(s)
      BY <1>2 DEF Typed, TypeOK
    <2> QED
      BY <1>1, <1>3, <2>1, AppliedEvent
  <1> HIDE DEF e
  <1>5. Typed'
    <2>1. Len(queue') <= MaxQueue
      <3>1. Len(queue) \in Nat /\ Len(queue') \in Nat /\ MaxQueue \in Nat /\ Len(queue) <= MaxQueue
        BY <1>2, <1>3, PortalAssumption DEF Typed, TypeOK
      <3> QED
        BY <1>3, <3>1
    <2>2. TypeOK'
      BY <1>1, <1>2, <1>4, <2>1 DEF Typed, TypeOK
    <2> QED
      BY <1>1, <1>2, <1>3, <1>4, <2>2 DEF Typed
  <1>6. UnreadCarry'
    BY <1>1, <1>2 DEF UnreadCarry, Newest
  <1>7. QueueCarry'
    BY <1>1, QueueTaken
  <1>8. ASSUME NEW s \in Details, s \notin lost', created', ~IsUnread(s)', s \notin Pending'
        PROVE  Shows(s)'
    <2>1. s \notin lost /\ ~IsUnread(s) /\ s \in Subjects /\ s \in Tracked /\ created
      BY <1>1, <1>8, SubjectKinds DEF IsUnread
    <2>2. \A k \in DOMAIN queue : k # 1 => queue[k].subject # s
      BY <1>3, <1>8 DEF Pending
    <2>3. CASE e.subject = s
      <3>1. IsLast(1, s)
        BY <1>3, <2>2, <2>3 DEF IsLast, e
      <3>2. e.value = chat[s]
        BY <1>2, <1>3, <2>1, <3>1 DEF QueueCarry, e
      <3> QED
        BY <1>1, <1>4, <2>3, <3>2 DEF Shows
    <2>4. CASE e.subject # s
      <3>1. s \notin Pending
        BY <1>3, <2>2, <2>4 DEF Pending, e
      <3>2. Shows(s)
        BY <1>2, <2>1, <3>1 DEF RoomCarry
      <3> QED
        BY <1>1, <1>4, <2>1, <2>4, <3>2 DEF Shows
    <2> QED
      BY <2>3, <2>4
  <1>9. RoomCarry'
    BY <1>8 DEF RoomCarry
  <1> QED
    BY <1>5, <1>6, <1>7, <1>9 DEF Inv

\* The chat as GetChatInfo gives it.
LEMMA ChatInfo ==
    ASSUME Typed, ChatInfoFits
    PROVE  /\ DOMAIN GetChatInfo = Subjects
           /\ \A s \in Subjects : GetChatInfo[s] \in Values(s)
           /\ \A s \in Details : \/ GetChatInfo[s] = chat[s]
                                 \/ s = Name /\ chat[s] = "unnamed" /\ GetChatInfo[s] = "chatID"
  <1>1. chat[Avatar] = "never"
    BY DEF ChatInfoFits, ChatDetails
  <1>2. \A s \in Subjects : chat[s] \in Values(s)
    BY DEF Typed, TypeOK
  <1>3. DOMAIN GetChatInfo = Subjects
    BY DEF GetChatInfo
  <1>4. ASSUME NEW s \in MemberSubjects
        PROVE  GetChatInfo[s] \in Values(s) /\ (s \in Details => GetChatInfo[s] = chat[s])
    <2>1. s \in Subjects /\ Values(s) = {"in", "out"}
      BY ValueKinds DEF Subjects, InfoSubjects
    <2>2. GetChatInfo[s] = IF s = Member(Self) THEN "in" ELSE chat[s]
      BY <2>1 DEF GetChatInfo
    <2> QED
      BY <1>2, <2>1, <2>2 DEF Details
  <1>5. /\ GetChatInfo[Name] \in Values(Name)
        /\ \/ GetChatInfo[Name] = chat[Name]
           \/ chat[Name] = "unnamed" /\ GetChatInfo[Name] = "chatID"
    <2>1. Name \in Subjects /\ Name \notin MemberSubjects
      BY SubjectKinds
    <2>2. GetChatInfo[Name] = IF chat[Name] = "unnamed" THEN "chatID" ELSE chat[Name]
      BY <2>1 DEF GetChatInfo
    <2>3. Values(Name) = {"unnamed", "named", "chatID"}
      BY ValueKinds
    <2>4. chat[Name] \in Values(Name)
      BY <1>2, <2>1
    <2>5. CASE chat[Name] = "unnamed"
      <3>1. GetChatInfo[Name] = "chatID"
        BY <2>2, <2>5
      <3>2. GetChatInfo[Name] \in Values(Name)
        BY <2>3, <3>1
      <3> QED
        BY <2>5, <3>1, <3>2
    <2>6. CASE chat[Name] # "unnamed"
      BY <2>2, <2>4, <2>6
    <2> QED
      BY <2>5, <2>6
  <1>6. GetChatInfo[Avatar] = "never" /\ GetChatInfo[Avatar] \in Values(Avatar)
    <2>1. Avatar \in Subjects /\ Avatar \notin MemberSubjects /\ Avatar # Name
      BY SubjectKinds
    <2>2. GetChatInfo[Avatar] = "never"
      BY <2>1 DEF GetChatInfo, Blank
    <2> QED
      BY <2>2, ValueKinds
  <1>7. ASSUME NEW s \in Subjects, s \notin InfoSubjects PROVE GetChatInfo[s] \in Values(s)
    <2>1. s \notin MemberSubjects /\ s # Name /\ s # Avatar
      BY <1>7 DEF InfoSubjects
    <2>2. GetChatInfo[s] = "none"
      BY <2>1 DEF GetChatInfo, Blank
    <2>3. "none" \in Values(s)
      BY <2>1, SubjectSplit, ValueKinds
    <2> QED
      BY <2>2, <2>3
  <1>8. \A s \in InfoSubjects : s \in MemberSubjects \/ s = Name \/ s = Avatar
    BY DEF InfoSubjects
  <1>9. Details \subseteq InfoSubjects
    BY DEF Details
  <1> QED
    BY <1>1, <1>3, <1>4, <1>5, <1>6, <1>7, <1>8, <1>9

\* The room is made.
LEMMA InvCreate == ASSUME Inv, CreateRoom PROVE Inv'
  <1>1. /\ queue # <<>> /\ CreatesPortal(Head(queue)) /\ ChatInfoFits
        /\ created' = TRUE /\ room' = Applied(GetChatInfo, Head(queue)) /\ queue' = Tail(queue)
        /\ lost' = lost \ (InfoSubjects \ Pending)
        /\ UNCHANGED <<topic, chat, changes, stamp, unread, announced, missing>>
    BY DEF CreateRoom, appVars
  <1>2. Typed /\ UnreadCarry /\ QueueCarry /\ RoomCarry
    BY DEF Inv
  <1>3. /\ Head(queue) \in Events /\ queue' \in Seq(Events) /\ Len(queue') <= Len(queue)
        /\ 1 \in DOMAIN queue /\ Head(queue) = queue[1]
    BY <1>1, <1>2, Taken
  <1> DEFINE e == Head(queue)
  <1>4. e.subject \notin Details
    <2>1. EventOK(e) /\ e.type \in {"message", "edit"}
      BY <1>1, <1>3 DEF Events, CreatesPortal
    <2>2. PICK m \in Messages : e.subject = Text(m)
      BY <2>1 DEF EventOK
    <2>3. Text(m) \notin InfoSubjects /\ Details \subseteq InfoSubjects
      BY SubjectKinds
    <2> QED
      BY <2>2, <2>3
  <1>5. /\ DOMAIN room' = Subjects
        /\ \A s \in Details : room'[s] = GetChatInfo[s]
        /\ \A s \in Subjects : room'[s] \in Values(s)
    <2>1. DOMAIN GetChatInfo = Subjects /\ \A s \in Subjects : GetChatInfo[s] \in Values(s)
      BY <1>1, <1>2, ChatInfo
    <2>2. Details \subseteq Subjects
      BY SubjectKinds
    <2> QED
      BY <1>1, <1>3, <1>4, <2>1, <2>2, AppliedEvent
  <1> HIDE DEF e
  <1>6. Typed'
    <2>1. Len(queue') <= MaxQueue
      <3>1. Len(queue) \in Nat /\ Len(queue') \in Nat /\ MaxQueue \in Nat /\ Len(queue) <= MaxQueue
        BY <1>2, <1>3, PortalAssumption DEF Typed, TypeOK
      <3> QED
        BY <1>3, <3>1
    <2>2. TypeOK'
      BY <1>1, <1>2, <1>5, <2>1 DEF Typed, TypeOK
    <2> QED
      BY <1>1, <1>2, <1>3, <1>5, <2>2 DEF Typed
  <1>7. UnreadCarry'
    BY <1>1, <1>2 DEF UnreadCarry, Newest
  <1>8. QueueCarry'
    <2>1. \A s \in Tracked : s \notin lost' => s \notin lost \/ s \notin Pending
      BY <1>1
    <2> QED
      BY <1>1, <2>1, QueueTaken
  <1>9. \A s \in Details : Shows(s)'
    BY <1>1, <1>2, <1>5, ChatInfo DEF Shows
  <1> QED
    BY <1>6, <1>7, <1>8, <1>9 DEF Inv, RoomCarry

\* An event without a room.
LEMMA InvDrop == ASSUME Inv, DropEvent PROVE Inv'
  <1>1. /\ queue # <<>> /\ ~created /\ queue' = Tail(queue)
        /\ missing' = IF Head(queue).type = "message" THEN missing \cup {Head(queue).subject[2]} ELSE missing
        /\ UNCHANGED <<topic, chat, changes, stamp, unread, created, room, announced, lost>>
    BY DEF DropEvent, appVars
  <1>2. Typed /\ UnreadCarry /\ QueueCarry /\ RoomCarry
    BY DEF Inv
  <1>3. /\ Head(queue) \in Events /\ queue' \in Seq(Events) /\ Len(queue') <= Len(queue)
    BY <1>1, <1>2, Taken
  <1>4. Head(queue).type = "message" => Head(queue).subject[2] \in Messages
    <2> SUFFICES ASSUME Head(queue).type = "message" PROVE Head(queue).subject[2] \in Messages
      OBVIOUS
    <2>1. PICK m \in Messages : Head(queue).subject = Text(m)
      BY <1>3 DEF Events, EventOK
    <2> QED
      BY <2>1 DEF Text
  <1>5. Typed'
    <2>1. Len(queue') <= MaxQueue
      <3>1. Len(queue) \in Nat /\ Len(queue') \in Nat /\ MaxQueue \in Nat /\ Len(queue) <= MaxQueue
        BY <1>2, <1>3, PortalAssumption DEF Typed, TypeOK
      <3> QED
        BY <1>3, <3>1
    <2>2. TypeOK'
      BY <1>1, <1>2, <1>4, <2>1 DEF Typed, TypeOK
    <2> QED
      BY <1>1, <1>2, <1>3, <2>2 DEF Typed
  <1>6. UnreadCarry'
    BY <1>1, <1>2 DEF UnreadCarry, Newest
  <1>7. QueueCarry'
    BY <1>1, QueueTaken
  <1>8. RoomCarry'
    BY <1>1 DEF RoomCarry
  <1> QED
    BY <1>5, <1>6, <1>7, <1>8 DEF Inv

\* Death and restart: what was on its way is lost.
LEMMA InvCrash == ASSUME Inv, Crash PROVE Inv'
  <1> DEFINE gone == Pending \cup {SubjectOf(r) : r \in unread}
  <1>1. /\ lost' = lost \cup (gone \cap Subjects)
        /\ missing' = missing \cup {m \in Messages : Text(m) \in gone /\ room[Text(m)] = "none"}
        /\ unread' = {} /\ queue' = <<>>
        /\ UNCHANGED <<topic, chat, changes, stamp, created, room, announced>>
    BY DEF Crash, appVars
  <1>2. Typed /\ RoomCarry
    BY DEF Inv
  <1>3. queue' \in Seq(Events) /\ Len(queue') = 0 /\ DOMAIN queue' = {} /\ 0 <= MaxQueue
    BY <1>1, PortalAssumption
  <1>4. lost' \subseteq Subjects /\ missing' \subseteq Messages
    BY <1>1, <1>2 DEF Typed, TypeOK
  <1>5. TypeOK'
    BY <1>1, <1>2, <1>3, <1>4 DEF Typed, TypeOK
  <1>6. Typed'
    BY <1>1, <1>2, <1>3, <1>5, FS_EmptySet DEF Typed
  <1>7. ASSUME NEW s \in Details, s \notin lost', created' PROVE Shows(s)'
    <2>1. s \in Subjects
      BY SubjectKinds
    <2>2. s \notin lost /\ s \notin Pending /\ ~IsUnread(s)
      BY <1>1, <1>7, <2>1 DEF IsUnread
    <2> QED
      BY <1>1, <1>2, <1>7, <2>2 DEF RoomCarry, Shows
  <1> QED
    BY <1>1, <1>3, <1>6, <1>7 DEF Inv, UnreadCarry, QueueCarry, RoomCarry

-----------------------------------------------------------------------------
(* Messages                                                                *)

IsNewOf(k, m) == queue[k].subject = Text(m) /\ queue[k].type = "message"
HasNew(m) == \E k \in DOMAIN queue : IsNewOf(k, m)

\* Only the newest version of a row can be read.
RowsCurrent == \A r \in unread : r.item = "message" => r = MessageRow(r.target)

\* An event about a message says what kind of version it carries.
EventsTell == \A k \in DOMAIN queue, m \in Messages :
    queue[k].subject = Text(m) =>
        /\ queue[k].type \in {"message", "edit", "remove"}
        /\ queue[k].type = "message" => queue[k].value = "sent"
        /\ queue[k].type = "remove" => queue[k].value = "gone" /\ chat[Text(m)] = "gone"

\* The room is not ahead of the chat, and empty before it is there.
NotAhead == \A m \in Messages :
    /\ room[Text(m)] = "gone" => chat[Text(m)] = "gone"
    /\ ~created => room[Text(m)] = "none"

\* A message not announced has not left the chat.
Unannounced == \A m \in Messages \ (missing \cup announced) :
    /\ room[Text(m)] = "none" /\ Text(m) \notin Pending
    /\ chat[Text(m)] = "none" \/ IsUnread(Text(m))

\* One that is announced is there, and is read again only once it changed.
Announced == \A m \in announced :
    chat[Text(m)] # "none" /\ (IsUnread(Text(m)) => chat[Text(m)] # "sent")

\* Its announcement comes before all other events about it, and they come to a
\* room that has it.
Coming == \A m \in announced \ missing :
    /\ \A k, j \in DOMAIN queue : IsNewOf(k, m) /\ queue[j].subject = Text(m) => k <= j
    /\ HasNew(m) <=> room[Text(m)] = "none"

\* The room shows a message as the chat has it.
Right(m) == IF chat[Text(m)] \in Texts THEN room[Text(m)] = chat[Text(m)] ELSE room[Text(m)] \notin Texts

\* The newest version that was read is last in the queue or shown.
Current == \A m \in Messages \ missing :
    Text(m) \notin lost /\ ~IsUnread(Text(m)) =>
        /\ \A k \in DOMAIN queue : IsLast(k, Text(m)) => queue[k].value = chat[Text(m)]
        /\ Text(m) \notin Pending => Right(m)

MessagesInv == RowsCurrent /\ EventsTell /\ NotAhead /\ Unannounced /\ Announced /\ Coming /\ Current

\* What the row of a message becomes.
LEMMA MessageEvent ==
    ASSUME NEW r, r.item = "message"
    PROVE  /\ HandleiMessage(r).type = IF r.value = "gone" THEN "remove"
                                       ELSE IF r.value = "sent" THEN "message" ELSE "edit"
           /\ HandleiMessage(r).subject = Text(r.target)
           /\ HandleiMessage(r).value = r.value
  BY DEF HandleiMessage, HandleMessage, Retracted, Event

\* No other row is about a message.
LEMMA AboutText ==
    ASSUME NEW r, RowOK(r), NEW m
    PROVE  SubjectOf(r) = Text(m) <=> r.item = "message" /\ r.target = m
  <1>1. CASE r.item = "message"
    BY <1>1, AboutMessage DEF Text
  <1>2. CASE r.item = "tapback"
    <2>1. SubjectOf(r) = Reaction(r.target, r.sender)
      BY <1>2 DEF SubjectOf, HandleiMessage, HandleMessage, HandleTapback, Event
    <2> QED
      BY <1>2, <2>1, SubjectKinds
  <1>3. CASE r.item \in {"member", "name", "avatar"}
    <2>1. HandleiMessage(r).type = "info"
      BY <1>3 DEF HandleiMessage, HandleMember, HandleName, HandleAvatarOrMemberLeave, Event, RowOK, RowSet
    <2>2. SubjectOf(r) \in InfoSubjects \cup {Member(NoUser)}
      BY <2>1, RowEvent DEF Events, EventOK
    <2>3. Text(m) \notin InfoSubjects /\ Text(m) # Member(NoUser)
      BY SubjectKinds DEF Text, Member
    <2> QED
      BY <1>3, <2>2, <2>3
  <1> QED
    BY <1>1, <1>2, <1>3 DEF RowOK, RowSet

\* At first there is no message.
LEMMA MessagesInit == Init => MessagesInv
  <1> SUFFICES ASSUME Init PROVE MessagesInv
    OBVIOUS
  <1>1. unread = {} /\ DOMAIN queue = {} /\ announced = {} /\ room \in {chat, Blank}
    BY DEF Init
  <1>2. ASSUME NEW m \in Messages PROVE chat[Text(m)] = "none" /\ room[Text(m)] = "none"
    <2>1. Text(m) \in Subjects /\ Text(m) \notin MemberSubjects /\ Text(m) # Name /\ Text(m) # Avatar
      BY SubjectKinds DEF InfoSubjects
    <2>2. Blank[Text(m)] = "none"
      BY <2>1 DEF Blank
    <2>3. PICK M \in SUBSET (Users \ {Self}) :
            chat = [x \in Subjects |-> IF x \in {Member(u) : u \in M \cup {Self}} THEN "in" ELSE Blank[x]]
      BY DEF Init
    <2>4. Text(m) \notin {Member(u) : u \in M \cup {Self}}
      BY DEF Text, Member
    <2> QED
      BY <1>1, <2>1, <2>2, <2>3, <2>4
  <1> QED
    BY <1>1, <1>2 DEF MessagesInv, RowsCurrent, EventsTell, NotAhead, Unannounced, Announced, Coming,
       Current, Pending, IsUnread, HasNew, Right, Texts

\* Rows about anything else leave messages alone.
LEMMA MessagesOther ==
    ASSUME MessagesInv, Typed, Typed', NEW s, NEW v, NEW item, NEW action, NEW sender, NEW target,
           Write(s, v, item, action, sender, target), item # "message",
           \A m \in Messages : s # Text(m)
    PROVE  MessagesInv'
  <1> DEFINE r == [item |-> item, action |-> action, sender |-> sender,
                   target |-> target, value |-> v, nr |-> changes + 1]
  <1>1. /\ chat' = [chat EXCEPT ![s] = v] /\ unread' = unread \cup {r}
        /\ UNCHANGED <<stamp, topic, queue, created, room, announced, missing, lost>>
    BY DEF Write, AppLeaves, history
  <1>2. r.item # "message"
    OBVIOUS
  <1> HIDE DEF r
  <1>3. \A m \in Messages : chat'[Text(m)] = chat[Text(m)] /\ MessageRow(m)' = MessageRow(m)
    <2>1. \A m \in Messages : Text(m) \in DOMAIN chat
      BY SubjectKinds DEF Typed
    <2> QED
      BY <1>1, <2>1 DEF MessageRow
  <1>4. \A m \in Messages : IsUnread(Text(m))' <=> IsUnread(Text(m))
    <2>1. RowOK(r)
      BY <1>1 DEF Typed
    <2>2. \A m : SubjectOf(r) # Text(m)
      BY <1>2, <2>1, AboutText
    <2> QED
      BY <1>1, <2>2 DEF IsUnread
  <1>5. RowsCurrent'
    <2> SUFFICES ASSUME NEW q \in unread', q.item = "message" PROVE q = MessageRow(q.target)'
      BY DEF RowsCurrent
    <2>1. q \in unread /\ q.target \in Messages
      BY <1>1, <1>2 DEF Typed, RowOK
    <2> QED
      BY <1>3, <2>1 DEF MessagesInv, RowsCurrent
  <1>6. Pending' = Pending /\ announced \subseteq Messages
    BY <1>1 DEF Pending, Typed, TypeOK
  <1>7. EventsTell' /\ NotAhead'
    BY <1>1, <1>3 DEF MessagesInv, EventsTell, NotAhead
  <1>8. Unannounced' /\ Announced'
    BY <1>1, <1>3, <1>4, <1>6 DEF MessagesInv, Unannounced, Announced
  <1>9. Coming'
    BY <1>1 DEF MessagesInv, Coming, IsNewOf, HasNew
  <1>10. Current'
    BY <1>1, <1>3, <1>4, <1>6 DEF MessagesInv, Current, IsLast, Right
  <1> QED
    BY <1>5, <1>7, <1>8, <1>9, <1>10 DEF MessagesInv

\* A message changes: its row is unread, and what was said of it stays true.
LEMMA MessagesText ==
    ASSUME MessagesInv, Typed, NEW m \in Messages, NEW v \in Texts \cup {"gone"}, WriteText(m, v),
           v = "sent" => chat[Text(m)] = "none", chat[Text(m)] # "gone"
    PROVE  MessagesInv'
  <1> DEFINE r == MessageRow(m)'
  <1>1. /\ chat' = [chat EXCEPT ![Text(m)] = v]
        /\ stamp' = [stamp EXCEPT ![m] = changes + 1]
        /\ unread' = (unread \ {MessageRow(m)}) \cup {r}
        /\ UNCHANGED <<topic, queue, created, room, announced, missing, lost>>
    BY DEF WriteText, AppLeaves, history
  <1>2. /\ Text(m) \in DOMAIN chat /\ m \in DOMAIN stamp
        /\ chat'[Text(m)] = v /\ stamp'[m] = changes + 1
        /\ \A n \in Messages \ {m} : chat'[Text(n)] = chat[Text(n)] /\ stamp'[n] = stamp[n]
    <2>1. Text(m) \in DOMAIN chat /\ m \in DOMAIN stamp
      BY SubjectKinds DEF Typed, TypeOK
    <2>2. \A n \in Messages \ {m} : Text(n) \in DOMAIN chat /\ n \in DOMAIN stamp
      BY SubjectKinds DEF Typed, TypeOK
    <2>3. \A n \in Messages \ {m} : Text(n) # Text(m)
      BY DEF Text
    <2> QED
      BY <1>1, <2>1, <2>2, <2>3
  <1>3. r = MessageRow(m)'
    OBVIOUS
  <1> HIDE DEF r
  <1>4. \A n \in Messages \ {m} : MessageRow(n)' = MessageRow(n)
    BY <1>2 DEF MessageRow
  <1>5. r.item = "message" /\ r.target = m /\ SubjectOf(r) = Text(m)
    <2>1. r.item = "message" /\ r.target = m
      BY <1>3 DEF MessageRow
    <2> QED
      BY <2>1, AboutMessage
  <1>6. RowsCurrent'
    <2> SUFFICES ASSUME NEW q \in unread', q.item = "message" PROVE q = MessageRow(q.target)'
      BY DEF RowsCurrent
    <2>1. CASE q = r
      BY <1>3, <1>5, <2>1
    <2>2. CASE q # r
      <3>1. q \in unread /\ q # MessageRow(m) /\ q.target \in Messages
        BY <1>1, <2>2 DEF Typed, RowOK
      <3>2. q = MessageRow(q.target) /\ q.target # m
        BY <3>1 DEF MessagesInv, RowsCurrent
      <3> QED
        BY <1>4, <3>1, <3>2
    <2> QED
      BY <2>1, <2>2
  <1>7. IsUnread(Text(m))'
    BY <1>1, <1>5 DEF IsUnread
  <1>8. \A n \in Messages \ {m} : IsUnread(Text(n))' <=> IsUnread(Text(n))
    <2>1. MessageRow(m).item = "message" /\ MessageRow(m).target = m
      BY DEF MessageRow
    <2>2. SubjectOf(MessageRow(m)) = Text(m)
      BY <2>1, AboutMessage
    <2>3. \A n \in Messages \ {m} : Text(n) # Text(m)
      BY DEF Text
    <2> QED
      BY <1>1, <1>5, <2>2, <2>3 DEF IsUnread
  <1>9. Pending' = Pending /\ announced \subseteq Messages
    BY <1>1 DEF Pending, Typed, TypeOK
  <1>10. EventsTell' /\ NotAhead'
    BY <1>1, <1>2 DEF MessagesInv, EventsTell, NotAhead
  <1>11. Unannounced'
    BY <1>1, <1>2, <1>7, <1>8, <1>9 DEF MessagesInv, Unannounced
  <1>12. Announced'
    <2>1. v # "none"
      BY DEF Texts
    <2> QED
      BY <1>1, <1>2, <1>8, <1>9, <2>1 DEF MessagesInv, Announced
  <1>13. Coming'
    BY <1>1 DEF MessagesInv, Coming, IsNewOf, HasNew
  <1>14. Current'
    BY <1>1, <1>2, <1>7, <1>8, <1>9 DEF MessagesInv, Current, IsLast, Right
  <1> QED
    BY <1>6, <1>10, <1>11, <1>12, <1>13, <1>14 DEF MessagesInv

\* What the app does.
LEMMA MessagesApp == ASSUME MessagesInv, Inv, App PROVE MessagesInv'
  <1>1. Typed /\ Typed'
    BY InvApp DEF Inv
  <1>2. ASSUME NEW u \in Users, Join(u) \/ RemoveUser(u) \/ Leave(u) PROVE MessagesInv'
    <2>1. \A m : Member(u) # Text(m)
      BY DEF Member, Text
    <2>2. \/ Write(Member(u), "in", "member", 0, Self, u)
          \/ Write(Member(u), "out", "member", 1, Self, u)
          \/ Write(Member(u), "out", "avatar", 0, u, NoUser)
      BY <1>2 DEF Join, RemoveUser, Leave
    <2> QED
      BY <1>1, <2>1, <2>2, MessagesOther
  <1>3. CASE Rename \/ SetAvatar \/ RemoveAvatar
    <2>1. \A m : Name # Text(m) /\ Avatar # Text(m)
      BY DEF Name, Avatar, Text
    <2>2. \/ \E n : Write(Name, n, "name", 0, Self, NoUser)
          \/ Write(Avatar, "set", "avatar", 1, Self, NoUser)
          \/ Write(Avatar, "removed", "avatar", 2, Self, NoUser)
      BY <1>3 DEF Rename, SetAvatar, RemoveAvatar
    <2> QED
      BY <1>1, <2>1, <2>2, MessagesOther
  <1>4. ASSUME NEW n \in Messages, NEW u \in Reacting, React(n, u) PROVE MessagesInv'
    <2>1. \A m : Reaction(n, u) # Text(m)
      BY SubjectKinds
    <2>2. PICK v : Write(Reaction(n, u), v, "tapback", 0, u, n)
      BY <1>4 DEF React
    <2> QED
      BY <1>1, <2>1, <2>2, MessagesOther
  <1>5. ASSUME NEW m \in Messages, Send(m) \/ Edit(m) \/ Retract(m) PROVE MessagesInv'
    <2>1. PICK v \in Texts \cup {"gone"} :
             WriteText(m, v) /\ (v = "sent" => chat[Text(m)] = "none") /\ chat[Text(m)] # "gone"
      BY <1>5 DEF Send, Edit, Retract, Texts
    <2> QED
      BY <1>1, <2>1, MessagesText
  <1> QED
    BY <1>2, <1>3, <1>4, <1>5 DEF App

\* A pass read nothing about m.
Untouched(m) ==
    /\ \A k \in DOMAIN queue' : queue'[k].subject = Text(m) => k \in DOMAIN queue
    /\ ~IsUnread(Text(m))
    /\ (m \in announced' <=> m \in announced) /\ (m \in missing' <=> m \in missing)
    /\ Text(m) \notin lost' => Text(m) \notin lost

\* A pass read the row of m and queued its event at p.
OneRead(m, p) ==
    /\ p \in DOMAIN queue' /\ \A k \in DOMAIN queue : k < p
    /\ queue'[p].subject = Text(m) /\ queue'[p].value = chat[Text(m)]
    /\ queue'[p].type = IF chat[Text(m)] = "gone" THEN "remove"
                        ELSE IF chat[Text(m)] = "sent" THEN "message" ELSE "edit"
    /\ \A k \in DOMAIN queue' : queue'[k].subject = Text(m) => k = p \/ k \in DOMAIN queue
    /\ chat[Text(m)] \in {"gone"} \cup Texts
    /\ chat[Text(m)] = "sent" => m \in announced' /\ IsUnread(Text(m))
    /\ chat[Text(m)] # "sent" => /\ m \in announced' <=> m \in announced
                                 /\ m \in missing' \cup announced
    /\ m \in missing' \ missing => chat[Text(m)] # "sent" /\ m \notin announced

\* There is only one row to read.
LEMMA MessageRead ==
    ASSUME Typed, RowsCurrent, NEW rows, NEW o, ReadAs(rows, o), NEW m \in Messages
    PROVE  Untouched(m) \/ \E p : OneRead(m, p)
  <1> DEFINE Its(i) == o[i].item = "message" /\ o[i].target = m
  <1>1. \A i \in DOMAIN o : o[i] \in rows /\ RowOK(o[i])
    BY DEF ReadAs
  <1>2. \A i \in DOMAIN o : SubjectOf(o[i]) = Text(m) <=> Its(i)
    BY <1>1, AboutText
  <1>3. ASSUME NEW i \in DOMAIN o, Its(i)
        PROVE  o[i] = MessageRow(m) /\ (o[i] \in unread \/ o[i].value # "sent")
    <2>1. o[i] \in unread \/ \E n \in Messages : o[i] = MessageRow(n) /\ o[i].value # "sent"
      BY <1>1 DEF ReadAs
    <2>2. CASE o[i] \in unread
      BY <1>3, <2>2 DEF RowsCurrent
    <2>3. ASSUME NEW n \in Messages, o[i] = MessageRow(n) PROVE n = m
      BY <1>3, <2>3 DEF MessageRow
    <2> QED
      BY <2>1, <2>2, <2>3
  <1>4. /\ DOMAIN o = 1 .. Len(o) /\ Len(o) \in Nat
        /\ DOMAIN queue = 1 .. Len(queue) /\ Len(queue) \in Nat
        /\ \A i \in DOMAIN o : /\ Len(queue) + i \in DOMAIN queue'
                                /\ queue'[Len(queue) + i] = HandleiMessage(o[i])
        /\ \A k \in DOMAIN queue' : k \in DOMAIN queue \/ \E i \in DOMAIN o : k = Len(queue) + i
    BY DEF ReadAs, Follows
  <1>5. \A i \in DOMAIN o : queue'[Len(queue) + i].subject = SubjectOf(o[i])
    BY <1>4 DEF SubjectOf
  <1>6. /\ announced' = announced \cup ReadNew(o) /\ missing' = missing \cup ReadLate(o)
        /\ lost' = (lost \ {SubjectOf(r) : r \in rows}) \cup Disordered(o)
        /\ unread \subseteq rows /\ \A r \in rows : \E i \in DOMAIN o : o[i] = r
        /\ \A i, j \in DOMAIN o : o[i] = o[j] => i = j
    BY DEF ReadAs
  <1>7. CASE \A i \in DOMAIN o : ~Its(i)
    <2>1. \A k \in DOMAIN queue' : queue'[k].subject = Text(m) => k \in DOMAIN queue
      BY <1>2, <1>4, <1>5, <1>7
    <2>2. \A r \in rows : SubjectOf(r) # Text(m)
      BY <1>2, <1>6, <1>7
    <2>3. m \notin ReadNew(o) /\ m \notin ReadLate(o)
      BY <1>7 DEF ReadNew, ReadLate
    <2> QED
      BY <1>6, <2>1, <2>2, <2>3 DEF Untouched, IsUnread
  <1>8. ASSUME NEW i \in DOMAIN o, Its(i) PROVE OneRead(m, Len(queue) + i)
    <2> DEFINE p == Len(queue) + i
    <2>1. o[i] = MessageRow(m) /\ (o[i] \in unread \/ o[i].value # "sent")
      BY <1>3, <1>8
    <2>2. /\ o[i].item = "message" /\ o[i].target = m /\ o[i].value = chat[Text(m)]
          /\ o[i].value \in {"gone"} \cup Texts
      BY <1>1, <1>8, <2>1, RowOfMessage DEF RowOK
    <2>3. p \in DOMAIN queue' /\ queue'[p] = HandleiMessage(o[i]) /\ \A k \in DOMAIN queue : k < p
      BY <1>4
    <2>4. /\ queue'[p].subject = Text(m) /\ queue'[p].value = chat[Text(m)]
          /\ queue'[p].type = IF chat[Text(m)] = "gone" THEN "remove"
                              ELSE IF chat[Text(m)] = "sent" THEN "message" ELSE "edit"
      BY <2>2, <2>3, MessageEvent
    <2>5. \A j \in DOMAIN o : Its(j) => j = i
      BY <1>3, <1>6, <2>1
    <2>6. \A k \in DOMAIN queue' : queue'[k].subject = Text(m) => k = p \/ k \in DOMAIN queue
      BY <1>2, <1>4, <1>5, <2>5
    <2>7. chat[Text(m)] = "sent" => m \in announced' /\ IsUnread(Text(m))
      <3> SUFFICES ASSUME chat[Text(m)] = "sent" PROVE m \in announced' /\ IsUnread(Text(m))
        OBVIOUS
      <3>1. m \in ReadNew(o)
        BY <2>2 DEF ReadNew
      <3>2. o[i] \in unread /\ SubjectOf(o[i]) = Text(m)
        BY <1>2, <1>8, <2>1, <2>2
      <3> QED
        BY <1>6, <3>1, <3>2 DEF IsUnread
    <2>8. chat[Text(m)] # "sent" => /\ m \in announced' <=> m \in announced
                                    /\ m \in missing' \cup announced
      <3> SUFFICES ASSUME chat[Text(m)] # "sent"
                   PROVE  (m \in announced' <=> m \in announced) /\ m \in missing' \cup announced
        OBVIOUS
      <3>1. m \notin ReadNew(o)
        BY <2>2, <2>5 DEF ReadNew
      <3>2. m \in ReadLate(o) \cup announced
        BY <2>2 DEF ReadLate
      <3> QED
        BY <1>6, <3>1, <3>2
    <2>9. m \in missing' \ missing => chat[Text(m)] # "sent" /\ m \notin announced
      <3> SUFFICES ASSUME m \in ReadLate(o) PROVE chat[Text(m)] # "sent" /\ m \notin announced
        BY <1>6
      <3>1. PICK k \in DOMAIN o : Its(k) /\ o[k].value # "sent"
        BY DEF ReadLate
      <3> QED
        BY <1>3, <2>1, <2>2, <3>1 DEF ReadLate
    <2> HIDE DEF p
    <2>10. OneRead(m, p)
      BY <2>2, <2>3, <2>4, <2>6, <2>7, <2>8, <2>9 DEF OneRead
    <2> QED
      BY <2>10 DEF p
  <1> QED
    BY <1>7, <1>8

\* What is read of a message is behind all that was read of it before.
LEMMA MessagesRead == ASSUME MessagesInv, Typed, Read PROVE MessagesInv'
  <1> USE DEF MessagesInv
  <1>1. PICK rows, o : ReadAs(rows, o)
    BY ReadInOrder
  <1>2. /\ \A k \in DOMAIN queue : k \in DOMAIN queue' /\ queue'[k] = queue[k]
        /\ unread' = {} /\ UNCHANGED <<chat, stamp, created, room>>
        /\ announced \subseteq announced' /\ missing \subseteq missing'
        /\ announced' \subseteq Messages /\ announced \subseteq Messages
        /\ DOMAIN queue' \subseteq Nat
    <2>1. announced' \subseteq Messages /\ announced \subseteq Messages
      BY <1>1 DEF ReadAs, ReadNew, RowOK, Typed, TypeOK
    <2>2. queue' \in Seq(Events)
      BY <1>1 DEF ReadAs, Follows
    <2>3. DOMAIN queue' \subseteq Nat
      BY <2>2
    <2> QED
      BY <1>1, <2>1, <2>3 DEF ReadAs, Follows
  <1>3. \A m \in Messages : Untouched(m) \/ \E p : OneRead(m, p)
    BY <1>1, MessageRead
  <1>4. \A s : ~IsUnread(s)'
    BY <1>2 DEF IsUnread
  <1>5. EventsTell'
    <2> SUFFICES ASSUME NEW k \in DOMAIN queue', NEW m \in Messages, queue'[k].subject = Text(m)
                 PROVE  /\ queue'[k].type \in {"message", "edit", "remove"}
                        /\ queue'[k].type = "message" => queue'[k].value = "sent"
                        /\ queue'[k].type = "remove" => queue'[k].value = "gone" /\ chat[Text(m)] = "gone"
      BY <1>2 DEF EventsTell
    <2>1. CASE k \in DOMAIN queue
      BY <1>2, <2>1 DEF EventsTell
    <2>2. ASSUME k \notin DOMAIN queue, NEW p, OneRead(m, p) PROVE k = p
      BY <2>2 DEF OneRead
    <2>3. CASE k \notin DOMAIN queue
      <3>1. ~Untouched(m)
        BY <2>3 DEF Untouched
      <3>2. PICK p : OneRead(m, p)
        BY <1>3, <3>1
      <3>3. k = p
        BY <2>2, <2>3, <3>2
      <3> QED
        BY <3>2, <3>3 DEF OneRead
    <2> QED
      BY <2>1, <2>3
  <1>6. Unannounced'
    <2> SUFFICES ASSUME NEW m \in Messages, m \notin missing', m \notin announced'
                 PROVE  room[Text(m)] = "none" /\ Text(m) \notin Pending' /\ chat[Text(m)] = "none"
      BY <1>2 DEF Unannounced
    <2>1. /\ m \notin missing /\ m \notin announced
          /\ room[Text(m)] = "none" /\ Text(m) \notin Pending
          /\ chat[Text(m)] = "none" \/ IsUnread(Text(m))
      BY <1>2 DEF Unannounced
    <2>2. Untouched(m)
      BY <1>3, <2>1 DEF OneRead
    <2>3. Text(m) \notin Pending'
      BY <1>2, <2>1, <2>2 DEF Untouched, Pending
    <2> QED
      BY <2>1, <2>2, <2>3 DEF Untouched
  <1>7. Announced'
    <2> SUFFICES ASSUME NEW m \in announced' PROVE chat[Text(m)] # "none"
      BY <1>2, <1>4 DEF Announced
    <2>1. m \in Messages
      BY <1>2
    <2>2. CASE m \in announced
      BY <2>2 DEF Announced
    <2>3. CASE m \notin announced
      <3>1. ~Untouched(m)
        BY <2>3 DEF Untouched
      <3>2. PICK p : OneRead(m, p)
        BY <1>3, <2>1, <3>1
      <3> QED
        BY <3>2 DEF OneRead, Texts
    <2> QED
      BY <2>2, <2>3
  <1>8. ASSUME NEW m \in Messages, NEW p, OneRead(m, p), m \in announced', m \notin missing', m \notin announced
        PROVE  \A k \in DOMAIN queue' : queue'[k].subject = Text(m) => k = p
    <2>1. Text(m) \notin Pending
      BY <1>2, <1>8 DEF Unannounced
    <2> QED
      BY <1>2, <1>8, <2>1 DEF OneRead, Pending
  <1>9. Coming'
    <2> SUFFICES ASSUME NEW m \in announced', m \notin missing'
                 PROVE  /\ \A k, j \in DOMAIN queue' : IsNewOf(k, m)' /\ queue'[j].subject = Text(m) => k <= j
                        /\ HasNew(m)' <=> room[Text(m)] = "none"
      BY <1>2 DEF Coming
    <2>1. m \in Messages /\ m \notin missing
      BY <1>2
    <2>2. CASE Untouched(m)
      <3>1. m \in announced
        BY <2>2 DEF Untouched
      <3>2. \A k \in DOMAIN queue' : queue'[k].subject = Text(m) => k \in DOMAIN queue /\ queue'[k] = queue[k]
        BY <1>2, <2>2 DEF Untouched
      <3>3. HasNew(m)' <=> HasNew(m)
        BY <1>2, <3>2 DEF HasNew, IsNewOf
      <3> QED
        BY <2>1, <3>1, <3>2, <3>3 DEF Coming, IsNewOf
    <2>3. ASSUME NEW p, OneRead(m, p), chat[Text(m)] = "sent"
          PROVE  /\ \A k, j \in DOMAIN queue' : IsNewOf(k, m)' /\ queue'[j].subject = Text(m) => k <= j
                 /\ HasNew(m)' <=> room[Text(m)] = "none"
      <3>1. m \notin announced
        BY <2>3 DEF OneRead, Announced
      <3>2. \A k \in DOMAIN queue' : queue'[k].subject = Text(m) => k = p
        BY <1>8, <2>1, <2>3, <3>1
      <3>3. room[Text(m)] = "none"
        BY <2>1, <3>1 DEF Unannounced
      <3>4. p \in DOMAIN queue' /\ IsNewOf(p, m)' /\ p \in Nat
        BY <1>2, <2>3 DEF OneRead, IsNewOf
      <3> QED
        BY <3>2, <3>3, <3>4 DEF HasNew, IsNewOf
    <2>4. ASSUME NEW p, OneRead(m, p), chat[Text(m)] # "sent"
          PROVE  /\ \A k, j \in DOMAIN queue' : IsNewOf(k, m)' /\ queue'[j].subject = Text(m) => k <= j
                 /\ HasNew(m)' <=> room[Text(m)] = "none"
      <3>1. m \in announced /\ queue'[p].type # "message"
        BY <2>4 DEF OneRead
      <3>2. \A k \in DOMAIN queue' : IsNewOf(k, m)' => k \in DOMAIN queue /\ IsNewOf(k, m) /\ k < p
        BY <1>2, <2>4, <3>1 DEF OneRead, IsNewOf
      <3>3. HasNew(m)' <=> HasNew(m)
        BY <1>2, <3>2 DEF HasNew, IsNewOf
      <3>4. ASSUME NEW k \in DOMAIN queue', NEW j \in DOMAIN queue', IsNewOf(k, m)', queue'[j].subject = Text(m)
            PROVE  k <= j
        <4>1. CASE j = p
          BY <1>2, <3>2, <3>4, <4>1
        <4>2. CASE j # p
          <5>1. j \in DOMAIN queue /\ queue[j].subject = Text(m)
            BY <1>2, <2>4, <3>4, <4>2 DEF OneRead
          <5> QED
            BY <2>1, <3>1, <3>2, <3>4, <5>1 DEF Coming
        <4> QED
          BY <4>1, <4>2
      <3> QED
        BY <2>1, <3>1, <3>3, <3>4 DEF Coming
    <2> QED
      BY <1>3, <2>1, <2>2, <2>3, <2>4
  <1>10. Current'
    <2> SUFFICES ASSUME NEW m \in Messages, m \notin missing', Text(m) \notin lost'
                 PROVE  /\ \A k \in DOMAIN queue' : IsLast(k, Text(m))' => queue'[k].value = chat[Text(m)]
                        /\ Text(m) \notin Pending' => Right(m)
      BY <1>2 DEF Current, Right
    <2>1. CASE Untouched(m)
      <3>1. m \notin missing /\ Text(m) \notin lost /\ ~IsUnread(Text(m))
        BY <2>1 DEF Untouched
      <3>2. /\ \A k \in DOMAIN queue : IsLast(k, Text(m)) => queue[k].value = chat[Text(m)]
            /\ Text(m) \notin Pending => Right(m)
        BY <3>1 DEF Current
      <3>3. \A k \in DOMAIN queue' : IsLast(k, Text(m))' => k \in DOMAIN queue /\ IsLast(k, Text(m))
        BY <1>2, <2>1 DEF Untouched, IsLast
      <3>4. Text(m) \notin Pending' => Text(m) \notin Pending
        BY <1>2 DEF Pending
      <3> QED
        BY <1>2, <3>2, <3>3, <3>4
    <2>2. ASSUME NEW p, OneRead(m, p)
          PROVE  /\ \A k \in DOMAIN queue' : IsLast(k, Text(m))' => queue'[k].value = chat[Text(m)]
                 /\ Text(m) \in Pending'
      <3>1. p \in DOMAIN queue' /\ queue'[p].subject = Text(m) /\ queue'[p].value = chat[Text(m)]
        BY <2>2 DEF OneRead
      <3>2. \A k \in DOMAIN queue' : IsLast(k, Text(m))' => k = p
        BY <2>2, <3>1 DEF OneRead, IsLast
      <3> QED
        BY <3>1, <3>2 DEF Pending
    <2> QED
      BY <1>3, <2>1, <2>2
  <1> QED
    BY <1>2, <1>4, <1>5, <1>6, <1>7, <1>9, <1>10 DEF RowsCurrent, NotAhead

\* What an event does to the room R when it is about a message.
LEMMA AppliedText ==
    ASSUME NEW R, DOMAIN R = Subjects, NEW e \in Events, NEW m \in Messages, e.subject = Text(m),
           R[Text(m)] \in {"none", "gone"} \cup Texts
    PROVE  /\ e.type = "message" => Applied(R, e)[Text(m)] = IF R[Text(m)] = "none" THEN e.value
                                                              ELSE R[Text(m)]
           /\ e.type = "edit" => /\ e.value \in Texts
                                 /\ Applied(R, e)[Text(m)] = IF R[Text(m)] \in Texts THEN e.value
                                                             ELSE R[Text(m)]
           /\ e.type = "remove" => Applied(R, e)[Text(m)] = IF R[Text(m)] \in Texts THEN "gone"
                                                            ELSE R[Text(m)]
  <1>1. Text(m) \in DOMAIN R
    BY SubjectKinds
  <1>2. e.type = "edit" => e.value \in Texts
    BY DEF Events, EventOK
  <1>3. CASE e.type = "message"
    BY <1>1, <1>3 DEF Applied
  <1>4. CASE e.type = "edit"
    BY <1>1, <1>2, <1>4 DEF Applied
  <1>5. CASE e.type = "remove"
    BY <1>1, <1>5 DEF Applied
  <1> QED
    BY <1>3, <1>4, <1>5

\* An event is handled in a room that is there, or is made with no messages.
LEMMA MessagesApplied ==
    ASSUME MessagesInv, Typed, queue # <<>>, queue' = Tail(queue), created',
           NEW R, DOMAIN R = Subjects, \A m \in Messages : R[Text(m)] = room[Text(m)],
           room' = Applied(R, Head(queue)),
           UNCHANGED <<chat, stamp, unread, announced, missing>>,
           \A m \in Messages : Text(m) \notin lost' => Text(m) \notin lost
    PROVE  MessagesInv'
  <1> USE DEF MessagesInv
  <1> DEFINE e == Head(queue)
  <1>1. /\ e \in Events /\ 1 \in DOMAIN queue /\ e = queue[1]
        /\ \A k \in DOMAIN queue' : k + 1 \in DOMAIN queue /\ queue'[k] = queue[k + 1]
        /\ \A k \in DOMAIN queue : k = 1 \/ (k - 1 \in DOMAIN queue' /\ queue'[k - 1] = queue[k])
    BY Taken
  <1>2. DOMAIN queue \subseteq Nat \ {0} /\ DOMAIN queue' \subseteq Nat \ {0}
    <2>1. queue \in Seq(Events) /\ queue' \in Seq(Events)
      BY Taken DEF Typed
    <2> QED
      BY <2>1
  <1> HIDE DEF e
  <1>3. \A m \in Messages : room[Text(m)] \in {"none", "gone"} \cup Texts
    <2> SUFFICES ASSUME NEW m \in Messages PROVE room[Text(m)] \in {"none", "gone"} \cup Texts
      OBVIOUS
    <2>1. Text(m) \in Subjects /\ Values(Text(m)) = {"none", "gone"} \cup Texts
      BY SubjectKinds, ValueKinds
    <2> QED
      BY <2>1 DEF Typed, TypeOK
  <1>4. \A m \in Messages : e.subject # Text(m) => room'[Text(m)] = room[Text(m)]
    <2>1. \A m \in Messages : Text(m) \in Subjects
      BY SubjectKinds
    <2>2. \A s \in Subjects \ {e.subject} : room'[s] = R[s]
      BY <1>1, AppliedEvent DEF e
    <2> QED
      BY <2>1, <2>2
  <1>5. ASSUME NEW m \in Messages, e.subject = Text(m)
        PROVE  /\ e.type \in {"message", "edit", "remove"}
               /\ e.type = "message" => room'[Text(m)] = IF room[Text(m)] = "none" THEN "sent"
                                                         ELSE room[Text(m)]
               /\ e.type = "message" => e.value = "sent"
               /\ e.type = "edit" => /\ e.value \in Texts
                                     /\ room'[Text(m)] = IF room[Text(m)] \in Texts THEN e.value
                                                         ELSE room[Text(m)]
               /\ e.type = "remove" => /\ e.value = "gone" /\ chat[Text(m)] = "gone"
                                       /\ room'[Text(m)] = IF room[Text(m)] \in Texts THEN "gone"
                                                           ELSE room[Text(m)]
    <2>1. /\ e.type \in {"message", "edit", "remove"}
          /\ e.type = "message" => e.value = "sent"
          /\ e.type = "remove" => e.value = "gone" /\ chat[Text(m)] = "gone"
      BY <1>1, <1>5 DEF EventsTell
    <2>2. R[Text(m)] = room[Text(m)] /\ R[Text(m)] \in {"none", "gone"} \cup Texts
      BY <1>3
    <2>3. room' = Applied(R, e)
      BY DEF e
    <2> QED
      BY <1>1, <1>5, <2>1, <2>2, <2>3, AppliedText
  <1>6. ASSUME NEW m \in announced, m \notin missing, e.subject = Text(m)
        PROVE  /\ e.type = "message" <=> room[Text(m)] = "none"
               /\ ~HasNew(m)'
    <2>1. m \in Messages
      BY <1>6 DEF Typed, TypeOK
    <2>2. \A k \in DOMAIN queue : IsNewOf(k, m) => k = 1
      BY <1>1, <1>2, <1>6 DEF Coming
    <2>3. HasNew(m) <=> e.type = "message"
      BY <1>1, <1>6, <2>2 DEF HasNew, IsNewOf
    <2>4. ~HasNew(m)'
      BY <1>1, <1>2, <2>2 DEF HasNew, IsNewOf
    <2> QED
      BY <1>6, <2>3, <2>4 DEF Coming
  <1>7. EventsTell'
    BY <1>1 DEF EventsTell
  <1>8. NotAhead'
    <2> SUFFICES ASSUME NEW m \in Messages, room'[Text(m)] = "gone" PROVE chat[Text(m)] = "gone"
      BY DEF NotAhead
    <2>1. "gone" \notin Texts
      BY DEF Texts
    <2>2. CASE e.subject # Text(m)
      BY <1>4, <2>2 DEF NotAhead
    <2>3. CASE e.subject = Text(m)
      BY <1>5, <2>1, <2>3 DEF NotAhead
    <2> QED
      BY <2>2, <2>3
  <1>9. Unannounced'
    <2> SUFFICES ASSUME NEW m \in Messages \ (missing \cup announced)
                 PROVE  room'[Text(m)] = "none" /\ Text(m) \notin Pending'
      BY DEF Unannounced, IsUnread
    <2>1. room[Text(m)] = "none" /\ Text(m) \notin Pending
      BY DEF Unannounced
    <2>2. e.subject # Text(m)
      BY <1>1, <2>1 DEF Pending
    <2> QED
      BY <1>1, <1>4, <2>1, <2>2 DEF Pending
  <1>10. Announced'
    BY DEF Announced, IsUnread
  <1>11. Coming'
    <2> SUFFICES ASSUME NEW m \in announced, m \notin missing
                 PROVE  /\ \A k, j \in DOMAIN queue' : IsNewOf(k, m)' /\ queue'[j].subject = Text(m) => k <= j
                        /\ HasNew(m)' <=> room'[Text(m)] = "none"
      BY DEF Coming
    <2>1. m \in Messages
      BY DEF Typed, TypeOK
    <2>2. ASSUME NEW k \in DOMAIN queue', NEW j \in DOMAIN queue', IsNewOf(k, m)', queue'[j].subject = Text(m)
          PROVE  k <= j
      <3>1. k + 1 \in DOMAIN queue /\ j + 1 \in DOMAIN queue /\ IsNewOf(k + 1, m) /\ queue[j + 1].subject = Text(m)
        BY <1>1, <2>2 DEF IsNewOf
      <3>2. k + 1 <= j + 1
        BY <3>1 DEF Coming
      <3> QED
        BY <1>2, <3>2
    <2>3. CASE e.subject # Text(m)
      <3>1. HasNew(m)' => HasNew(m)
        BY <1>1 DEF HasNew, IsNewOf
      <3>2. ASSUME NEW k \in DOMAIN queue, IsNewOf(k, m) PROVE HasNew(m)'
        <4>1. k # 1
          BY <1>1, <2>3, <3>2 DEF IsNewOf
        <4>2. k - 1 \in DOMAIN queue' /\ queue'[k - 1] = queue[k]
          BY <1>1, <4>1
        <4> QED
          BY <3>2, <4>2 DEF HasNew, IsNewOf
      <3>3. HasNew(m) => HasNew(m)'
        BY <3>2 DEF HasNew
      <3> QED
        BY <1>4, <2>1, <2>2, <2>3, <3>1, <3>3 DEF Coming
    <2>4. CASE e.subject = Text(m)
      <3>1. "none" \notin Texts
        BY DEF Texts
      <3>2. room'[Text(m)] # "none"
        BY <1>5, <1>6, <2>1, <2>4, <3>1
      <3> QED
        BY <1>6, <2>2, <2>4, <3>2
    <2> QED
      BY <2>3, <2>4
  <1>12. Current'
    <2> SUFFICES ASSUME NEW m \in Messages \ missing, Text(m) \notin lost', ~IsUnread(Text(m))
                 PROVE  /\ \A k \in DOMAIN queue' : IsLast(k, Text(m))' => queue'[k].value = chat[Text(m)]
                        /\ Text(m) \notin Pending' => Right(m)'
      BY DEF Current, IsUnread
    <2>1. /\ \A k \in DOMAIN queue : IsLast(k, Text(m)) => queue[k].value = chat[Text(m)]
          /\ Text(m) \notin Pending => Right(m)
      BY DEF Current
    <2>2. ASSUME NEW k \in DOMAIN queue', IsLast(k, Text(m))' PROVE queue'[k].value = chat[Text(m)]
      <3>1. ASSUME NEW j \in DOMAIN queue, j > k + 1 PROVE queue[j].subject # Text(m)
        <4>1. j # 1 /\ j - 1 > k
          BY <1>2, <3>1
        <4> QED
          BY <1>1, <2>2, <4>1 DEF IsLast
      <3>2. IsLast(k + 1, Text(m))
        BY <1>1, <2>2, <3>1 DEF IsLast
      <3> QED
        BY <1>1, <2>1, <3>2
    <2>3. ASSUME Text(m) \notin Pending', e.subject # Text(m) PROVE Right(m)'
      <3>1. Text(m) \notin Pending
        BY <1>1, <2>3 DEF Pending
      <3>2. room'[Text(m)] = room[Text(m)] /\ chat' = chat
        BY <1>4, <2>3
      <3>3. Right(m)
        BY <2>1, <3>1
      <3> QED
        BY <3>2, <3>3 DEF Right
    <2>4. ASSUME Text(m) \notin Pending', e.subject = Text(m) PROVE Right(m)'
      <3>0. ASSUME NEW j \in DOMAIN queue, j > 1 PROVE queue[j].subject # Text(m)
        <4>1. j - 1 \in DOMAIN queue' /\ queue'[j - 1] = queue[j]
          BY <1>1, <1>2, <3>0
        <4> QED
          BY <2>4, <4>1 DEF Pending
      <3>1. IsLast(1, Text(m))
        BY <1>1, <2>4, <3>0 DEF IsLast
      <3>2. e.value = chat[Text(m)]
        BY <1>1, <2>1, <3>1
      <3>3. m \in announced
        BY <1>1, <2>4 DEF Unannounced, Pending
      <3>4. e.type = "message" <=> room[Text(m)] = "none"
        BY <1>6, <2>4, <3>3
      <3>5. room[Text(m)] = "gone" => chat[Text(m)] = "gone"
        BY DEF NotAhead
      <3>6. "gone" \notin Texts /\ "none" \notin Texts /\ "sent" \in Texts
        BY DEF Texts
      <3>7. room[Text(m)] \in {"none", "gone"} \cup Texts
        BY <1>3
      <3>8. CASE e.type = "message"
        BY <1>5, <2>4, <3>2, <3>4, <3>6, <3>8 DEF Right
      <3>9. CASE e.type = "edit"
        BY <1>5, <2>4, <3>2, <3>4, <3>5, <3>6, <3>7, <3>9 DEF Right
      <3>10. CASE e.type = "remove"
        BY <1>5, <2>4, <3>4, <3>6, <3>7, <3>10 DEF Right
      <3> QED
        BY <1>5, <2>4, <3>8, <3>9, <3>10
    <2> QED
      BY <2>2, <2>3, <2>4
  <1> QED
    BY <1>7, <1>8, <1>9, <1>10, <1>11, <1>12 DEF RowsCurrent, MessageRow

\* In the room there is, or in a new one.
LEMMA MessagesHandled == ASSUME MessagesInv, Typed, HandleInRoom \/ CreateRoom PROVE MessagesInv'
  <1>1. CASE HandleInRoom
    <2>1. /\ queue # <<>> /\ created' /\ room' = Applied(room, Head(queue)) /\ queue' = Tail(queue)
          /\ UNCHANGED <<chat, stamp, unread, announced, missing, lost>>
      BY <1>1 DEF HandleInRoom, appVars, history
    <2>2. DOMAIN room = Subjects
      BY DEF Typed
    <2> QED
      BY <2>1, <2>2, MessagesApplied
  <1>2. CASE CreateRoom
    <2>1. /\ queue # <<>> /\ ~created /\ ChatInfoFits /\ created'
          /\ room' = Applied(GetChatInfo, Head(queue)) /\ queue' = Tail(queue)
          /\ lost' = lost \ (InfoSubjects \ Pending)
          /\ UNCHANGED <<chat, stamp, unread, announced, missing>>
      BY <1>2 DEF CreateRoom, appVars
    <2>2. DOMAIN GetChatInfo = Subjects
      BY <2>1, ChatInfo
    <2>3. ASSUME NEW m \in Messages PROVE GetChatInfo[Text(m)] = room[Text(m)]
      <3>1. Text(m) \in Subjects /\ Text(m) \notin MemberSubjects /\ Text(m) # Name /\ Text(m) # Avatar
        BY SubjectKinds DEF InfoSubjects
      <3>2. GetChatInfo[Text(m)] = "none"
        BY <3>1 DEF GetChatInfo, Blank
      <3> QED
        BY <2>1, <3>2 DEF MessagesInv, NotAhead
    <2>4. \A m \in Messages : Text(m) \notin lost' => Text(m) \notin lost
      BY <2>1, SubjectKinds
    <2> QED
      BY <2>1, <2>2, <2>3, <2>4, MessagesApplied
  <1> QED
    BY <1>1, <1>2

\* Without a room an announcement that is dropped is the one known loss.
LEMMA MessagesDropped == ASSUME MessagesInv, Typed, DropEvent PROVE MessagesInv'
  <1> USE DEF MessagesInv
  <1>1. /\ queue # <<>> /\ ~created /\ queue' = Tail(queue)
        /\ missing' = IF Head(queue).type = "message" THEN missing \cup {Head(queue).subject[2]} ELSE missing
        /\ UNCHANGED <<chat, stamp, unread, created, room, announced, lost>>
    BY DEF DropEvent, appVars
  <1>2. /\ 1 \in DOMAIN queue /\ Head(queue) = queue[1]
        /\ \A k \in DOMAIN queue' : k + 1 \in DOMAIN queue /\ queue'[k] = queue[k + 1]
        /\ \A k \in DOMAIN queue : k = 1 \/ (k - 1 \in DOMAIN queue' /\ queue'[k - 1] = queue[k])
    BY <1>1, Taken
  <1>3. DOMAIN queue \subseteq Nat \ {0} /\ DOMAIN queue' \subseteq Nat \ {0}
    <2>1. queue \in Seq(Events) /\ queue' \in Seq(Events)
      BY <1>1, Taken DEF Typed
    <2> QED
      BY <2>1
  <1>4. ASSUME NEW m \in Messages, m \notin missing' PROVE m \notin missing /\ queue[1].subject # Text(m)
    <2>1. m \notin missing
      BY <1>1, <1>4
    <2>2. ASSUME queue[1].subject = Text(m) PROVE FALSE
      <3>1. Text(m) \in Pending
        BY <1>2, <2>2 DEF Pending
      <3>2. m \in announced
        BY <2>1, <3>1 DEF Unannounced
      <3>3. room[Text(m)] = "none"
        BY <1>1 DEF NotAhead
      <3>4. PICK k \in DOMAIN queue : IsNewOf(k, m)
        BY <2>1, <3>2, <3>3 DEF Coming, HasNew
      <3>5. k <= 1
        BY <1>2, <2>1, <2>2, <3>2, <3>4 DEF Coming
      <3>6. queue[1].type = "message"
        BY <1>3, <3>4, <3>5 DEF IsNewOf
      <3>7. Head(queue).subject[2] = m
        BY <1>2, <2>2 DEF Text
      <3> QED
        BY <1>1, <1>2, <1>4, <3>6, <3>7
    <2> QED
      BY <2>1, <2>2
  <1>5. EventsTell' /\ NotAhead' /\ Announced'
    BY <1>1, <1>2 DEF EventsTell, NotAhead, Announced, IsUnread
  <1>6. Unannounced'
    BY <1>1, <1>2, <1>4 DEF Unannounced, Pending, IsUnread
  <1>7. Coming'
    <2> SUFFICES ASSUME NEW m \in announced, m \notin missing'
                 PROVE  /\ \A k, j \in DOMAIN queue' : IsNewOf(k, m)' /\ queue'[j].subject = Text(m) => k <= j
                        /\ HasNew(m)' <=> room[Text(m)] = "none"
      BY <1>1 DEF Coming
    <2>1. m \in Messages
      BY DEF Typed, TypeOK
    <2>2. m \notin missing /\ queue[1].subject # Text(m)
      BY <1>4, <2>1
    <2>3. HasNew(m)' <=> HasNew(m)
      BY <1>2, <2>2 DEF HasNew, IsNewOf
    <2>4. ASSUME NEW k \in DOMAIN queue', NEW j \in DOMAIN queue', IsNewOf(k, m)', queue'[j].subject = Text(m)
          PROVE  k <= j
      <3>1. k + 1 \in DOMAIN queue /\ j + 1 \in DOMAIN queue /\ IsNewOf(k + 1, m) /\ queue[j + 1].subject = Text(m)
        BY <1>2, <2>4 DEF IsNewOf
      <3>2. k + 1 <= j + 1
        BY <2>2, <3>1 DEF Coming
      <3> QED
        BY <1>3, <3>2
    <2> QED
      BY <2>2, <2>3, <2>4 DEF Coming
  <1>8. Current'
    <2> SUFFICES ASSUME NEW m \in Messages, m \notin missing', Text(m) \notin lost, ~IsUnread(Text(m))
                 PROVE  /\ \A k \in DOMAIN queue' : IsLast(k, Text(m))' => queue'[k].value = chat[Text(m)]
                        /\ Text(m) \notin Pending' => Right(m)
      BY <1>1 DEF Current, IsUnread, Right
    <2>1. m \notin missing /\ queue[1].subject # Text(m)
      BY <1>4
    <2>2. ASSUME NEW k \in DOMAIN queue', IsLast(k, Text(m))' PROVE queue'[k].value = chat[Text(m)]
      <3>1. ASSUME NEW j \in DOMAIN queue, j > k + 1 PROVE queue[j].subject # Text(m)
        <4>1. j # 1 /\ j - 1 > k
          BY <1>3, <3>1
        <4> QED
          BY <1>2, <2>2, <4>1 DEF IsLast
      <3>2. IsLast(k + 1, Text(m))
        BY <1>2, <2>2, <3>1 DEF IsLast
      <3> QED
        BY <1>2, <2>1, <3>2 DEF Current
    <2>3. Text(m) \notin Pending' => Text(m) \notin Pending
      BY <1>2, <2>1 DEF Pending
    <2> QED
      BY <2>1, <2>2, <2>3 DEF Current
  <1> QED
    BY <1>1, <1>5, <1>6, <1>7, <1>8 DEF RowsCurrent, MessageRow

\* What was on its way at a crash is known to be lost.
LEMMA MessagesCrash == ASSUME MessagesInv, Typed, Crash PROVE MessagesInv'
  <1> USE DEF MessagesInv
  <1> DEFINE gone == Pending \cup {SubjectOf(r) : r \in unread}
  <1>1. /\ lost' = lost \cup (gone \cap Subjects)
        /\ missing' = missing \cup {m \in Messages : Text(m) \in gone /\ room[Text(m)] = "none"}
        /\ unread' = {} /\ queue' = <<>>
        /\ UNCHANGED <<chat, stamp, created, room, announced>>
    BY DEF Crash, appVars
  <1>2. \A s : IsUnread(s) \/ s \in Pending <=> s \in gone
    BY DEF IsUnread
  <1> HIDE DEF gone
  <1>3. DOMAIN queue' = {} /\ (\A s : ~IsUnread(s)') /\ Pending' = {}
    BY <1>1 DEF IsUnread, Pending
  <1>4. Unannounced'
    BY <1>1, <1>2, <1>3 DEF Unannounced
  <1>5. Announced'
    BY <1>1, <1>3 DEF Announced
  <1>6. Coming'
    <2> SUFFICES ASSUME NEW m \in announced, m \notin missing' PROVE room[Text(m)] # "none"
      BY <1>1, <1>3 DEF Coming, HasNew
    <2>1. m \in Messages
      BY DEF Typed, TypeOK
    <2>2. HasNew(m) => Text(m) \in gone
      BY <1>2 DEF HasNew, IsNewOf, Pending
    <2> QED
      BY <1>1, <2>1, <2>2 DEF Coming
  <1>7. Current'
    <2> SUFFICES ASSUME NEW m \in Messages, m \notin missing', Text(m) \notin lost' PROVE Right(m)
      BY <1>1, <1>3 DEF Current, Right
    <2>1. Text(m) \in Subjects
      BY SubjectKinds
    <2>2. m \notin missing /\ Text(m) \notin lost /\ Text(m) \notin gone
      BY <1>1, <2>1
    <2> QED
      BY <1>2, <2>2 DEF Current
  <1> QED
    BY <1>1, <1>3, <1>4, <1>5, <1>6, <1>7 DEF RowsCurrent, EventsTell, NotAhead

-----------------------------------------------------------------------------
(* Reactions                                                               *)

\* A message that is known to be missing is there, and comes no more as new.
Missed == \A m \in missing :
    /\ room[Text(m)] = "none" /\ ~HasNew(m)
    /\ chat[Text(m)] # "none" /\ (IsUnread(Text(m)) => chat[Text(m)] # "sent")

\* Who reacts does so to what is there, and is read no sooner than the message.
Reacted == \A m \in Messages, u \in Reacting :
    /\ IsUnread(Reaction(m, u)) => chat[Text(m)] # "none"
    /\ m \notin missing \cup announced => Reaction(m, u) \notin Pending

\* The newest reaction comes after its message.
Behind == \A m \in Messages \ missing, u \in Reacting :
    Reaction(m, u) \notin lost =>
        \A k, j \in DOMAIN queue : IsLast(k, Reaction(m, u)) /\ IsNewOf(j, m) => j < k

\* No message, no reactions to it.
Unshown == \A m \in Messages, u \in Reacting :
    room[Text(m)] = "none" => room[Reaction(m, u)] = "none"

\* A reaction that has been handled is shown with its message, and a message
\* that is still to come has none that were.
ReactionCarry == \A m \in Messages \ missing, u \in Reacting :
    Reaction(m, u) \notin lost /\ ~IsUnread(Reaction(m, u)) /\ Reaction(m, u) \notin Pending =>
        /\ room[Text(m)] = "none" => chat[Reaction(m, u)] = "none"
        /\ room[Text(m)] \in Texts => room[Reaction(m, u)] = chat[Reaction(m, u)]

ReactionsInv == Missed /\ Reacted /\ Behind /\ Unshown /\ ReactionCarry

\* Only the row of a reaction is about it.
LEMMA AboutReaction ==
    ASSUME NEW r, RowOK(r), NEW m \in Messages, NEW u \in Reacting
    PROVE  SubjectOf(r) = Reaction(m, u) <=> r.item = "tapback" /\ r.target = m /\ r.sender = u
  <1>1. CASE r.item = "tapback"
    <2>1. SubjectOf(r) = Reaction(r.target, r.sender)
      BY <1>1 DEF SubjectOf, HandleiMessage, HandleMessage, HandleTapback, Event
    <2> QED
      BY <1>1, <2>1 DEF Reaction
  <1>2. CASE r.item = "message"
    <2>1. SubjectOf(r) = Text(r.target)
      BY <1>2, AboutMessage
    <2> QED
      BY <1>2, <2>1, SubjectKinds
  <1>3. CASE r.item \in {"member", "name", "avatar"}
    <2>1. HandleiMessage(r).type = "info"
      BY <1>3 DEF HandleiMessage, HandleMember, HandleName, HandleAvatarOrMemberLeave, Event, RowOK, RowSet
    <2>2. SubjectOf(r) \in InfoSubjects \cup {Member(NoUser)}
      BY <2>1, RowEvent DEF Events, EventOK
    <2>3. Reaction(m, u) \notin InfoSubjects /\ Reaction(m, u) # Member(NoUser)
      BY SubjectKinds DEF Reaction, Member
    <2> QED
      BY <1>3, <2>2, <2>3
  <1> QED
    BY <1>1, <1>2, <1>3 DEF RowOK, RowSet

\* At first there are none.
LEMMA ReactionsInit == Init => ReactionsInv
  <1> SUFFICES ASSUME Init PROVE ReactionsInv
    OBVIOUS
  <1>1. unread = {} /\ DOMAIN queue = {} /\ missing = {} /\ room \in {chat, Blank}
    BY DEF Init
  <1>2. ASSUME NEW m \in Messages, NEW u \in Reacting
        PROVE  chat[Reaction(m, u)] = "none" /\ room[Reaction(m, u)] = "none"
    <2>1. /\ Reaction(m, u) \in Subjects /\ Reaction(m, u) \notin MemberSubjects
          /\ Reaction(m, u) # Name /\ Reaction(m, u) # Avatar
      BY SubjectKinds DEF InfoSubjects
    <2>2. Blank[Reaction(m, u)] = "none"
      BY <2>1 DEF Blank
    <2>3. PICK M \in SUBSET (Users \ {Self}) :
            chat = [x \in Subjects |-> IF x \in {Member(v) : v \in M \cup {Self}} THEN "in" ELSE Blank[x]]
      BY DEF Init
    <2>4. Reaction(m, u) \notin {Member(v) : v \in M \cup {Self}}
      BY DEF Reaction, Member
    <2> QED
      BY <1>1, <2>1, <2>2, <2>3, <2>4
  <1> QED
    BY <1>1, <1>2 DEF ReactionsInv, Missed, Reacted, Behind, Unshown, ReactionCarry, Pending, IsUnread

\* What the app changes: a reaction changes by a row of its own, and a message
\* that is there does not go.
LEMMA ReactionsChange ==
    ASSUME ReactionsInv, Typed, UNCHANGED <<queue, room, announced, missing, lost>>,
           \A m \in Messages : chat[Text(m)] # "none" => chat'[Text(m)] # "none",
           \A m \in missing : IsUnread(Text(m))' => chat'[Text(m)] # "sent",
           \A m \in Messages, u \in Reacting :
               /\ IsUnread(Reaction(m, u))' => chat'[Text(m)] # "none"
               /\ ~IsUnread(Reaction(m, u))' => /\ ~IsUnread(Reaction(m, u))
                                                /\ chat'[Reaction(m, u)] = chat[Reaction(m, u)]
    PROVE  ReactionsInv'
  <1> USE DEF ReactionsInv
  <1>1. missing \subseteq Messages /\ Pending' = Pending
    BY DEF Typed, TypeOK, Pending
  <1>2. Missed'
    BY <1>1 DEF Missed, HasNew, IsNewOf
  <1>3. Reacted'
    BY <1>1 DEF Reacted
  <1>4. Behind' /\ Unshown'
    BY DEF Behind, Unshown, IsLast, IsNewOf
  <1>5. ReactionCarry'
    BY <1>1 DEF ReactionCarry
  <1> QED
    BY <1>2, <1>3, <1>4, <1>5

\* Rows of their own: a reaction is to a message that is there.
LEMMA ReactionsOther ==
    ASSUME ReactionsInv, Typed, Typed', NEW s, NEW v, NEW item, NEW action, NEW sender, NEW target,
           Write(s, v, item, action, sender, target), item # "message",
           \A m \in Messages : s # Text(m),
           \A m \in Messages, u \in Reacting :
               /\ item = "tapback" /\ target = m /\ sender = u <=> s = Reaction(m, u)
               /\ s = Reaction(m, u) => chat[Text(m)] \in Texts
    PROVE  ReactionsInv'
  <1> DEFINE r == [item |-> item, action |-> action, sender |-> sender,
                   target |-> target, value |-> v, nr |-> changes + 1]
  <1>1. /\ chat' = [chat EXCEPT ![s] = v] /\ unread' = unread \cup {r}
        /\ UNCHANGED <<queue, room, announced, missing, lost>>
    BY DEF Write, AppLeaves, history
  <1>2. r.item = item /\ r.target = target /\ r.sender = sender
    OBVIOUS
  <1> HIDE DEF r
  <1>3. RowOK(r)
    BY <1>1 DEF Typed
  <1>4. DOMAIN chat = Subjects /\ "none" \notin Texts /\ missing \subseteq Messages
    BY DEF Typed, TypeOK, Texts
  <1>5. \A x : IsUnread(x)' <=> IsUnread(x) \/ SubjectOf(r) = x
    BY <1>1 DEF IsUnread
  <1>6. ASSUME NEW m \in Messages
        PROVE  chat'[Text(m)] = chat[Text(m)] /\ (IsUnread(Text(m))' <=> IsUnread(Text(m)))
    <2>1. Text(m) \in Subjects
      BY SubjectKinds
    <2>2. SubjectOf(r) # Text(m)
      BY <1>2, <1>3, AboutText
    <2> QED
      BY <1>1, <1>4, <1>5, <2>1, <2>2
  <1>7. ASSUME NEW m \in Messages, NEW u \in Reacting
        PROVE  /\ IsUnread(Reaction(m, u))' => chat'[Text(m)] # "none"
               /\ ~IsUnread(Reaction(m, u))' => /\ ~IsUnread(Reaction(m, u))
                                                /\ chat'[Reaction(m, u)] = chat[Reaction(m, u)]
    <2>1. Reaction(m, u) \in Subjects
      BY SubjectKinds
    <2>2. SubjectOf(r) = Reaction(m, u) <=> s = Reaction(m, u)
      BY <1>2, <1>3, AboutReaction
    <2>3. IsUnread(Reaction(m, u)) => chat[Text(m)] # "none"
      BY DEF ReactionsInv, Reacted
    <2> QED
      BY <1>1, <1>4, <1>5, <1>6, <2>1, <2>2, <2>3
  <1>8. \A m \in missing : IsUnread(Text(m))' => chat'[Text(m)] # "sent"
    BY <1>4, <1>6 DEF ReactionsInv, Missed
  <1> QED
    BY <1>1, <1>6, <1>7, <1>8, ReactionsChange

\* The row of a message: what is missing is not sent again.
LEMMA ReactionsText ==
    ASSUME ReactionsInv, Typed, NEW m \in Messages, NEW v \in Texts \cup {"gone"}, WriteText(m, v),
           v = "sent" => chat[Text(m)] = "none"
    PROVE  ReactionsInv'
  <1> DEFINE r == MessageRow(m)'
  <1>1. /\ chat' = [chat EXCEPT ![Text(m)] = v]
        /\ unread' = (unread \ {MessageRow(m)}) \cup {r}
        /\ UNCHANGED <<queue, room, announced, missing, lost>>
    BY DEF WriteText, AppLeaves, history
  <1>2. r.item = "message" /\ r.target = m
    BY DEF MessageRow
  <1> HIDE DEF r
  <1>3. MessageRow(m).item = "message" /\ MessageRow(m).target = m
    BY DEF MessageRow
  <1>4. SubjectOf(r) = Text(m) /\ SubjectOf(MessageRow(m)) = Text(m)
    BY <1>2, <1>3, AboutMessage
  <1>5. \A x : x # Text(m) => (IsUnread(x)' <=> IsUnread(x))
    BY <1>1, <1>4 DEF IsUnread
  <1>6. DOMAIN chat = Subjects /\ missing \subseteq Messages
    BY DEF Typed, TypeOK
  <1>7. \A x \in Subjects : chat'[x] = IF x = Text(m) THEN v ELSE chat[x]
    BY <1>1, <1>6
  <1>8. v # "none"
    BY DEF Texts
  <1>9. \A n \in Messages : Text(n) \in Subjects /\ (Text(n) = Text(m) <=> n = m)
    BY SubjectKinds DEF Text
  <1>10. \A n \in Messages : chat[Text(n)] # "none" => chat'[Text(n)] # "none"
    BY <1>7, <1>8, <1>9
  <1>11. \A n \in missing : IsUnread(Text(n))' => chat'[Text(n)] # "sent"
    <2> SUFFICES ASSUME NEW n \in missing, IsUnread(Text(n))' PROVE chat'[Text(n)] # "sent"
      OBVIOUS
    <2>1. chat[Text(n)] # "none" /\ (IsUnread(Text(n)) => chat[Text(n)] # "sent")
      BY DEF ReactionsInv, Missed
    <2>2. CASE n = m
      BY <1>6, <1>7, <1>9, <2>1, <2>2
    <2>3. CASE n # m
      BY <1>5, <1>6, <1>7, <1>9, <2>1, <2>3
    <2> QED
      BY <2>2, <2>3
  <1>12. ASSUME NEW n \in Messages, NEW u \in Reacting
         PROVE  /\ IsUnread(Reaction(n, u))' => chat'[Text(n)] # "none"
                /\ ~IsUnread(Reaction(n, u))' => /\ ~IsUnread(Reaction(n, u))
                                                 /\ chat'[Reaction(n, u)] = chat[Reaction(n, u)]
    <2>1. Reaction(n, u) \in Subjects /\ Reaction(n, u) # Text(m)
      BY SubjectKinds
    <2>2. IsUnread(Reaction(n, u)) => chat[Text(n)] # "none"
      BY DEF ReactionsInv, Reacted
    <2> QED
      BY <1>5, <1>7, <1>10, <2>1, <2>2
  <1> QED
    BY <1>1, <1>10, <1>11, <1>12, ReactionsChange

\* What the app does.
LEMMA ReactionsApp == ASSUME ReactionsInv, Inv, App PROVE ReactionsInv'
  <1>1. Typed /\ Typed'
    BY InvApp DEF Inv
  <1>2. ASSUME NEW u \in Users, Join(u) \/ RemoveUser(u) \/ Leave(u) PROVE ReactionsInv'
    <2>1. \A m, w : Member(u) # Text(m) /\ Member(u) # Reaction(m, w)
      BY DEF Member, Text, Reaction
    <2>2. \/ Write(Member(u), "in", "member", 0, Self, u)
          \/ Write(Member(u), "out", "member", 1, Self, u)
          \/ Write(Member(u), "out", "avatar", 0, u, NoUser)
      BY <1>2 DEF Join, RemoveUser, Leave
    <2> QED
      BY <1>1, <2>1, <2>2, ReactionsOther
  <1>3. CASE Rename \/ SetAvatar \/ RemoveAvatar
    <2>1. \A m, w : Name \notin {Text(m), Reaction(m, w)} /\ Avatar \notin {Text(m), Reaction(m, w)}
      BY DEF Name, Avatar, Text, Reaction
    <2>2. \/ \E n : Write(Name, n, "name", 0, Self, NoUser)
          \/ Write(Avatar, "set", "avatar", 1, Self, NoUser)
          \/ Write(Avatar, "removed", "avatar", 2, Self, NoUser)
      BY <1>3 DEF Rename, SetAvatar, RemoveAvatar
    <2> QED
      BY <1>1, <2>1, <2>2, ReactionsOther
  <1>4. ASSUME NEW n \in Messages, NEW u \in Reacting, React(n, u) PROVE ReactionsInv'
    <2>1. \A m : Reaction(n, u) # Text(m)
      BY SubjectKinds
    <2>2. PICK v : Write(Reaction(n, u), v, "tapback", 0, u, n)
      BY <1>4 DEF React
    <2>3. \A m, w : n = m /\ u = w <=> Reaction(n, u) = Reaction(m, w)
      BY DEF Reaction
    <2>4. chat[Text(n)] \in Texts
      BY <1>4 DEF React
    <2> QED
      BY <1>1, <2>1, <2>2, <2>3, <2>4, ReactionsOther
  <1>5. ASSUME NEW m \in Messages, Send(m) \/ Edit(m) \/ Retract(m) PROVE ReactionsInv'
    <2>1. PICK v \in Texts \cup {"gone"} : WriteText(m, v) /\ (v = "sent" => chat[Text(m)] = "none")
      BY <1>5 DEF Send, Edit, Retract, Texts
    <2> QED
      BY <1>1, <2>1, ReactionsText
  <1> QED
    BY <1>2, <1>3, <1>4, <1>5 DEF App

\* A reaction read before its message is known to be lost, and no message that
\* was sent before it is read after it.
LEMMA ReactionsRead == ASSUME ReactionsInv, MessagesInv, Typed, Read PROVE ReactionsInv'
  <1> USE DEF ReactionsInv, MessagesInv
  <1>1. PICK rows, o : ReadAs(rows, o)
    BY ReadInOrder
  <1>2. /\ \A k \in DOMAIN queue : k \in DOMAIN queue' /\ queue'[k] = queue[k]
        /\ unread' = {} /\ UNCHANGED <<chat, stamp, created, room>>
        /\ announced \subseteq announced' /\ missing \subseteq missing'
        /\ missing' \subseteq Messages /\ announced \subseteq Messages
        /\ lost' = (lost \ {SubjectOf(r) : r \in rows}) \cup Disordered(o)
        /\ unread \subseteq rows
        /\ \A r \in rows : SubjectOf(r) \in Tracked => r \in unread
    <2>1. missing' \subseteq Messages /\ announced \subseteq Messages
      BY <1>1 DEF ReadAs, ReadLate, RowOK, Typed, TypeOK
    <2> QED
      BY <1>1, <2>1 DEF ReadAs, Follows
  <1>3. /\ DOMAIN o = 1 .. Len(o) /\ Len(o) \in Nat
        /\ DOMAIN queue = 1 .. Len(queue) /\ Len(queue) \in Nat
        /\ \A i \in DOMAIN o : /\ o[i] \in rows /\ RowOK(o[i])
                                /\ Len(queue) + i \in DOMAIN queue'
                                /\ queue'[Len(queue) + i] = HandleiMessage(o[i])
        /\ \A k \in DOMAIN queue' : k \in DOMAIN queue \/ \E i \in DOMAIN o : k = Len(queue) + i
        /\ \A r \in rows : \E i \in DOMAIN o : o[i] = r
    BY <1>1 DEF ReadAs, Follows
  <1>4. \A i \in DOMAIN o : queue'[Len(queue) + i].subject = SubjectOf(o[i])
    BY <1>3 DEF SubjectOf
  <1>5. \A m \in Messages : Untouched(m) \/ \E p : OneRead(m, p)
    BY <1>1, MessageRead
  <1>6. \A s : ~IsUnread(s)'
    BY <1>2 DEF IsUnread
  <1>7. \A m \in Messages, u \in Reacting : Reaction(m, u) \in Tracked /\ Reaction(m, u) \in Subjects
    BY SubjectKinds
  <1>8. ASSUME NEW s, \A i \in DOMAIN o : SubjectOf(o[i]) # s
        PROVE  ~IsUnread(s) /\ (s \notin lost' => s \notin lost)
    <2>1. \A r \in rows : SubjectOf(r) # s
      BY <1>3, <1>8
    <2> QED
      BY <1>2, <2>1 DEF IsUnread
  <1>9. ASSUME NEW i \in DOMAIN o, SubjectOf(o[i]) \in Tracked PROVE IsUnread(SubjectOf(o[i]))
    BY <1>2, <1>3, <1>9 DEF IsUnread
  <1>10. Missed'
    <2> SUFFICES ASSUME NEW m \in missing'
                 PROVE  room[Text(m)] = "none" /\ ~HasNew(m)' /\ chat[Text(m)] # "none"
      BY <1>2, <1>6 DEF Missed
    <2>1. m \in Messages
      BY <1>2
    <2>2. /\ room[Text(m)] = "none" /\ ~HasNew(m)
          /\ m \in missing => chat[Text(m)] # "none" /\ (IsUnread(Text(m)) => chat[Text(m)] # "sent")
      <3>1. CASE m \in missing
        BY <3>1 DEF Missed
      <3>2. CASE m \notin missing
        <4>1. m \notin announced
          <5>1. ~Untouched(m)
            BY <3>2 DEF Untouched
          <5> QED
            BY <1>5, <2>1, <3>2, <5>1 DEF OneRead
        <4>2. room[Text(m)] = "none" /\ Text(m) \notin Pending
          BY <2>1, <3>2, <4>1 DEF Unannounced
        <4> QED
          BY <3>2, <4>2 DEF HasNew, IsNewOf, Pending
      <3> QED
        BY <3>1, <3>2
    <2>3. CASE Untouched(m)
      <3>1. m \in missing
        BY <2>3 DEF Untouched
      <3>2. ~HasNew(m)'
        BY <1>2, <2>2, <2>3 DEF Untouched, HasNew, IsNewOf
      <3> QED
        BY <2>2, <3>1, <3>2
    <2>4. ASSUME NEW p, OneRead(m, p) PROVE ~HasNew(m)' /\ chat[Text(m)] # "none"
      <3>1. chat[Text(m)] # "none"
        BY <2>4 DEF OneRead, Texts
      <3>2. chat[Text(m)] # "sent"
        <4>1. CASE m \in missing
          BY <2>2, <2>4, <4>1 DEF OneRead
        <4>2. CASE m \notin missing
          BY <2>4, <4>2 DEF OneRead
        <4> QED
          BY <4>1, <4>2
      <3>3. queue'[p].type # "message"
        BY <2>4, <3>2 DEF OneRead
      <3>4. ASSUME NEW k \in DOMAIN queue', IsNewOf(k, m)' PROVE FALSE
        <4>1. k = p \/ k \in DOMAIN queue
          BY <2>4, <3>4 DEF OneRead, IsNewOf
        <4> QED
          BY <1>2, <2>2, <3>3, <3>4, <4>1 DEF HasNew, IsNewOf
      <3> QED
        BY <3>1, <3>4 DEF HasNew
    <2> QED
      BY <1>5, <2>1, <2>2, <2>3, <2>4
  <1>11. Reacted'
    <2> SUFFICES ASSUME NEW m \in Messages, NEW u \in Reacting, m \notin missing', m \notin announced',
                        NEW k \in DOMAIN queue', queue'[k].subject = Reaction(m, u)
                 PROVE  FALSE
      BY <1>6 DEF Reacted, Pending
    <2>1. m \notin missing /\ m \notin announced
      BY <1>2
    <2>2. Reaction(m, u) \notin Pending
      BY <2>1 DEF Reacted
    <2>3. k \notin DOMAIN queue
      BY <1>2, <2>2 DEF Pending
    <2>4. PICK i \in DOMAIN o : k = Len(queue) + i
      BY <1>3, <2>3
    <2>5. SubjectOf(o[i]) = Reaction(m, u)
      BY <1>4, <2>4
    <2>6. chat[Text(m)] # "none"
      BY <1>7, <1>9, <2>5 DEF Reacted
    <2>7. IsUnread(Text(m))
      BY <2>1, <2>6 DEF Unannounced
    <2>8. ~Untouched(m)
      BY <2>7 DEF Untouched
    <2>9. PICK p : OneRead(m, p)
      BY <1>5, <2>8
    <2> QED
      BY <2>1, <2>9 DEF OneRead
  <1>12. Behind'
    <2> SUFFICES ASSUME NEW m \in Messages, m \notin missing', NEW u \in Reacting, Reaction(m, u) \notin lost',
                        NEW k \in DOMAIN queue', NEW j \in DOMAIN queue',
                        IsLast(k, Reaction(m, u))', IsNewOf(j, m)'
                 PROVE  j < k
      BY DEF Behind
    <2>1. m \notin missing
      BY <1>2
    <2>2. /\ queue'[k].subject = Reaction(m, u)
          /\ \A l \in DOMAIN queue' : l > k => queue'[l].subject # Reaction(m, u)
          /\ queue'[j].subject = Text(m) /\ queue'[j].type = "message"
      BY DEF IsLast, IsNewOf
    <2>3. CASE j \in DOMAIN queue /\ k \notin DOMAIN queue
      <3>1. PICK i \in DOMAIN o : k = Len(queue) + i
        BY <1>3, <2>3
      <3> QED
        BY <1>3, <2>3, <3>1
    <2>4. CASE j \in DOMAIN queue /\ k \in DOMAIN queue
      <3>1. ASSUME NEW i \in DOMAIN o PROVE SubjectOf(o[i]) # Reaction(m, u)
        <4>1. Len(queue) + i \in DOMAIN queue' /\ Len(queue) + i > k
          BY <1>3, <2>4
        <4> QED
          BY <1>4, <2>2, <4>1
      <3>2. Reaction(m, u) \notin lost
        BY <1>8, <3>1
      <3>3. IsLast(k, Reaction(m, u)) /\ IsNewOf(j, m)
        BY <1>2, <2>2, <2>4 DEF IsLast, IsNewOf
      <3> QED
        BY <2>1, <2>4, <3>2, <3>3 DEF Behind
    <2>5. CASE j \notin DOMAIN queue /\ k \in DOMAIN queue
      <3>1. ~Untouched(m)
        BY <2>2, <2>5 DEF Untouched
      <3>2. PICK p : OneRead(m, p)
        BY <1>5, <3>1
      <3>3. j = p
        BY <2>2, <2>5, <3>2 DEF OneRead
      <3>4. chat[Text(m)] = "sent" /\ IsUnread(Text(m))
        BY <2>2, <3>2, <3>3 DEF OneRead
      <3>5. m \notin announced
        BY <3>4 DEF Announced
      <3>6. Reaction(m, u) \notin Pending
        BY <2>1, <3>5 DEF Reacted
      <3> QED
        BY <1>2, <2>2, <2>5, <3>6 DEF Pending
    <2>6. CASE j \notin DOMAIN queue /\ k \notin DOMAIN queue
      <3>1. PICK a \in DOMAIN o : k = Len(queue) + a
        BY <1>3, <2>6
      <3>2. PICK b \in DOMAIN o : j = Len(queue) + b
        BY <1>3, <2>6
      <3>3. SubjectOf(o[a]) = Reaction(m, u) /\ SubjectOf(o[b]) = Text(m)
        BY <1>4, <2>2, <3>1, <3>2
      <3>4. o[a].item = "tapback" /\ o[a].target = m
        BY <1>3, <3>3, AboutReaction
      <3>5. o[b].item = "message" /\ o[b].target = m
        BY <1>3, <3>3, AboutText
      <3>6. ~(a < b)
        <4> SUFFICES ASSUME a < b PROVE FALSE
          OBVIOUS
        <4>1. SubjectOf(o[a]) \in Disordered(o)
          BY <1>7, <3>3, <3>4, <3>5 DEF Disordered
        <4> QED
          BY <1>2, <3>3, <4>1
      <3>7. a # b
        BY <3>4, <3>5
      <3> QED
        BY <1>3, <3>1, <3>2, <3>6, <3>7
    <2> QED
      BY <2>3, <2>4, <2>5, <2>6
  <1>13. Unshown'
    BY <1>2 DEF Unshown
  <1>14. ReactionCarry'
    <2> SUFFICES ASSUME NEW m \in Messages, m \notin missing', NEW u \in Reacting,
                        Reaction(m, u) \notin lost', Reaction(m, u) \notin Pending'
                 PROVE  /\ room[Text(m)] = "none" => chat[Reaction(m, u)] = "none"
                        /\ room[Text(m)] \in Texts => room[Reaction(m, u)] = chat[Reaction(m, u)]
      BY <1>2 DEF ReactionCarry
    <2>1. \A i \in DOMAIN o : SubjectOf(o[i]) # Reaction(m, u)
      BY <1>3, <1>4 DEF Pending
    <2>2. ~IsUnread(Reaction(m, u)) /\ Reaction(m, u) \notin lost
      BY <1>8, <2>1
    <2>3. Reaction(m, u) \notin Pending /\ m \notin missing
      BY <1>2 DEF Pending
    <2> QED
      BY <2>2, <2>3 DEF ReactionCarry
  <1> QED
    BY <1>10, <1>11, <1>12, <1>13, <1>14

\* What a shorter queue still has.
LEMMA QueueShorter ==
    ASSUME Typed, queue # <<>>, queue' = Tail(queue)
    PROVE  /\ 1 \in DOMAIN queue /\ Head(queue) = queue[1] /\ Head(queue) \in Events
           /\ DOMAIN queue \subseteq Nat \ {0} /\ DOMAIN queue' \subseteq Nat \ {0}
           /\ \A s : s \in Pending' => s \in Pending
           /\ \A s : s \in Pending => s \in Pending' \/ Head(queue).subject = s
           /\ \A s : Head(queue).subject = s => s \in Pending /\ (s \notin Pending' => IsLast(1, s))
           /\ \A s : \A k \in DOMAIN queue' : k + 1 \in DOMAIN queue /\ (IsLast(k, s)' => IsLast(k + 1, s))
           /\ \A m : \A k \in DOMAIN queue' : IsNewOf(k, m)' => IsNewOf(k + 1, m)
           /\ \A m : HasNew(m)' => HasNew(m)
  <1>1. /\ 1 \in DOMAIN queue /\ Head(queue) = queue[1] /\ Head(queue) \in Events
        /\ \A k \in DOMAIN queue' : k + 1 \in DOMAIN queue /\ queue'[k] = queue[k + 1]
        /\ \A k \in DOMAIN queue : k = 1 \/ (k - 1 \in DOMAIN queue' /\ queue'[k - 1] = queue[k])
    BY Taken
  <1>2. DOMAIN queue \subseteq Nat \ {0} /\ DOMAIN queue' \subseteq Nat \ {0}
    <2>1. queue \in Seq(Events) /\ queue' \in Seq(Events)
      BY Taken DEF Typed
    <2> QED
      BY <2>1
  <1>3. ASSUME NEW s, NEW k \in DOMAIN queue', IsLast(k, s)' PROVE IsLast(k + 1, s)
    <2>1. ASSUME NEW j \in DOMAIN queue, j > k + 1 PROVE queue[j].subject # s
      <3>1. j # 1 /\ j - 1 > k
        BY <1>2, <2>1
      <3> QED
        BY <1>1, <1>3, <3>1 DEF IsLast
    <2> QED
      BY <1>1, <1>3, <2>1 DEF IsLast
  <1>4. ASSUME NEW s, Head(queue).subject = s, s \notin Pending' PROVE IsLast(1, s)
    <2>1. ASSUME NEW j \in DOMAIN queue, j > 1 PROVE queue[j].subject # s
      <3>1. j - 1 \in DOMAIN queue' /\ queue'[j - 1] = queue[j]
        BY <1>1, <1>2, <2>1
      <3> QED
        BY <1>4, <3>1 DEF Pending
    <2> QED
      BY <1>1, <1>4, <2>1 DEF IsLast
  <1>5. \A s : s \in Pending => s \in Pending' \/ Head(queue).subject = s
    BY <1>1 DEF Pending
  <1>6. \A s : s \in Pending' => s \in Pending
    BY <1>1 DEF Pending
  <1>7. Head(queue).subject \in Pending
    BY <1>1 DEF Pending
  <1>8. \A m : \A k \in DOMAIN queue' : IsNewOf(k, m)' => IsNewOf(k + 1, m)
    BY <1>1 DEF IsNewOf
  <1>9. \A m : HasNew(m)' => HasNew(m)
    BY <1>1, <1>8 DEF HasNew
  <1> QED
    BY <1>1, <1>2, <1>3, <1>4, <1>5, <1>6, <1>7, <1>8, <1>9

\* A reaction is not the newest of an unshown message.
LEMMA NotUnshown ==
    ASSUME ReactionsInv, MessagesInv, NEW m \in Messages \ missing, NEW u \in Reacting,
           Reaction(m, u) \notin lost, DOMAIN queue \subseteq Nat \ {0}, 1 \in DOMAIN queue,
           IsLast(1, Reaction(m, u))
    PROVE  room[Text(m)] # "none"
  <1> SUFFICES ASSUME room[Text(m)] = "none" PROVE FALSE
    OBVIOUS
  <1> USE DEF ReactionsInv, MessagesInv
  <1>1. Reaction(m, u) \in Pending
    BY DEF IsLast, Pending
  <1>2. m \in announced
    BY <1>1 DEF Reacted
  <1>3. PICK j \in DOMAIN queue : IsNewOf(j, m)
    BY <1>2 DEF Coming, HasNew
  <1>4. j < 1
    BY <1>3 DEF Behind
  <1> QED
    BY <1>3, <1>4

\* What an event does to the room R when it is about a reaction.
LEMMA AppliedReaction ==
    ASSUME NEW R, DOMAIN R = Subjects, NEW e \in Events, NEW m \in Messages, NEW u \in Reacting,
           e.subject = Reaction(m, u)
    PROVE  Applied(R, e)[Reaction(m, u)] = IF R[Text(m)] \in Texts THEN e.value ELSE R[Reaction(m, u)]
  <1>1. EventOK(e) /\ e \in EventSet /\ e.type \in EventTypes
    BY DEF Events, EventSet
  <1>2. /\ Reaction(m, u) \in DOMAIN R /\ Reaction(m, u) \notin InfoSubjects
        /\ \A n : Text(n) # Reaction(m, u)
    BY SubjectKinds
  <1>3. Reaction(m, u) # Member(NoUser) /\ Reaction(m, u)[2][1] = m
    BY DEF Reaction, Member
  <1>4. e.type = "reaction"
    BY <1>1, <1>2, <1>3 DEF EventOK, EventTypes
  <1>5. Applied(R, e) = IF R[Text(m)] \in Texts THEN [R EXCEPT ![Reaction(m, u)] = e.value] ELSE R
    BY <1>3, <1>4 DEF Applied
  <1> QED
    BY <1>2, <1>5

\* An event is handled in a room that is there, or is made with no messages.
LEMMA ReactionsApplied ==
    ASSUME ReactionsInv, MessagesInv, Inv, queue # <<>>, queue' = Tail(queue),
           NEW R, DOMAIN R = Subjects, \A m \in Messages : R[Text(m)] = room[Text(m)],
           \A m \in Messages, u \in Reacting : R[Reaction(m, u)] = room[Reaction(m, u)],
           room' = Applied(R, Head(queue)),
           UNCHANGED <<chat, unread, announced, missing>>,
           \A m \in Messages, u \in Reacting : Reaction(m, u) \notin lost' => Reaction(m, u) \notin lost
    PROVE  ReactionsInv'
  <1> USE DEF ReactionsInv
  <1> DEFINE e == Head(queue)
  <1>1. Typed /\ QueueCarry /\ MessagesInv
    BY DEF Inv
  <1>2. /\ 1 \in DOMAIN queue /\ e = queue[1] /\ e \in Events
        /\ DOMAIN queue \subseteq Nat \ {0} /\ DOMAIN queue' \subseteq Nat \ {0}
        /\ \A s : s \in Pending' => s \in Pending
        /\ \A s : s \in Pending => s \in Pending' \/ e.subject = s
        /\ \A s : e.subject = s => s \in Pending /\ (s \notin Pending' => IsLast(1, s))
        /\ \A s : \A k \in DOMAIN queue' : k + 1 \in DOMAIN queue /\ (IsLast(k, s)' => IsLast(k + 1, s))
        /\ \A m : \A k \in DOMAIN queue' : IsNewOf(k, m)' => IsNewOf(k + 1, m)
        /\ \A m : HasNew(m)' => HasNew(m)
    BY <1>1, QueueShorter
  <1>3. room' = Applied(R, e)
    OBVIOUS
  <1> HIDE DEF e
  <1>4. "none" \notin Texts /\ "gone" \notin Texts
    BY DEF Texts
  <1>5. \A s : IsUnread(s)' <=> IsUnread(s)
    BY DEF IsUnread
  <1>6. missing \subseteq Messages
    BY <1>1 DEF Typed, TypeOK
  <1>7. \A s \in Subjects : s # e.subject => room'[s] = R[s]
    BY <1>2, <1>3, AppliedEvent
  <1>8. ASSUME NEW m \in Messages
        PROVE  /\ Text(m) \in Subjects /\ R[Text(m)] = room[Text(m)]
               /\ room[Text(m)] \in {"none", "gone"} \cup Texts
    <2>1. Text(m) \in Subjects /\ Values(Text(m)) = {"none", "gone"} \cup Texts
      BY SubjectKinds, ValueKinds
    <2> QED
      BY <1>1, <2>1 DEF Typed, TypeOK
  <1>9. ASSUME NEW m \in Messages
        PROVE  /\ room'[Text(m)] = "none" => room[Text(m)] = "none"
               /\ room'[Text(m)] \in Texts /\ room[Text(m)] \notin Texts =>
                      room[Text(m)] = "none" /\ e.subject = Text(m) /\ e.type = "message"
               /\ e.subject = Text(m) /\ e.type = "message" => HasNew(m)
    <2>1. e.subject = Text(m) /\ e.type = "message" => HasNew(m)
      BY <1>2 DEF HasNew, IsNewOf
    <2>2. CASE e.subject # Text(m)
      BY <1>7, <1>8, <2>1, <2>2
    <2>3. CASE e.subject = Text(m)
      <3>1. /\ e.type \in {"message", "edit", "remove"}
            /\ e.type = "message" => e.value = "sent"
        BY <1>1, <1>2, <2>3 DEF MessagesInv, EventsTell
      <3>2. /\ e.type = "message" => room'[Text(m)] = IF room[Text(m)] = "none" THEN e.value
                                                      ELSE room[Text(m)]
            /\ e.type = "edit" => /\ e.value \in Texts
                                  /\ room'[Text(m)] = IF room[Text(m)] \in Texts THEN e.value
                                                      ELSE room[Text(m)]
            /\ e.type = "remove" => room'[Text(m)] = IF room[Text(m)] \in Texts THEN "gone"
                                                     ELSE room[Text(m)]
        BY <1>2, <1>3, <1>8, <2>3, AppliedText
      <3> QED
        BY <1>4, <1>8, <2>1, <2>3, <3>1, <3>2
    <2> QED
      BY <2>2, <2>3
  <1>10. ASSUME NEW m \in Messages, NEW u \in Reacting
         PROVE  room'[Reaction(m, u)] = IF e.subject = Reaction(m, u) /\ room[Text(m)] \in Texts
                                        THEN e.value ELSE room[Reaction(m, u)]
    <2>1. Reaction(m, u) \in Subjects
      BY SubjectKinds
    <2>2. CASE e.subject # Reaction(m, u)
      BY <1>7, <2>1, <2>2
    <2>3. CASE e.subject = Reaction(m, u)
      BY <1>2, <1>3, <1>8, <2>3, AppliedReaction
    <2> QED
      BY <2>2, <2>3
  <1>11. Missed'
    <2> SUFFICES ASSUME NEW m \in missing PROVE room'[Text(m)] = "none" /\ ~HasNew(m)'
      BY <1>5 DEF Missed
    <2>1. m \in Messages /\ room[Text(m)] = "none" /\ ~HasNew(m)
      BY <1>6 DEF Missed
    <2>2. CASE e.subject # Text(m)
      BY <1>2, <1>7, <1>8, <2>1, <2>2
    <2>3. CASE e.subject = Text(m)
      <3>1. e.type \in {"edit", "remove"}
        BY <1>1, <1>2, <1>9, <2>1, <2>3 DEF MessagesInv, EventsTell
      <3>2. room'[Text(m)] = room[Text(m)]
        BY <1>2, <1>3, <1>4, <1>8, <2>1, <2>3, <3>1, AppliedText
      <3> QED
        BY <1>2, <2>1, <3>2
    <2> QED
      BY <2>2, <2>3
  <1>12. Reacted'
    BY <1>2, <1>5 DEF Reacted
  <1>13. Behind'
    <2> SUFFICES ASSUME NEW m \in Messages \ missing, NEW u \in Reacting, Reaction(m, u) \notin lost',
                        NEW k \in DOMAIN queue', NEW j \in DOMAIN queue',
                        IsLast(k, Reaction(m, u))', IsNewOf(j, m)'
                 PROVE  j < k
      BY DEF Behind
    <2>1. /\ k + 1 \in DOMAIN queue /\ j + 1 \in DOMAIN queue
          /\ IsLast(k + 1, Reaction(m, u)) /\ IsNewOf(j + 1, m)
      BY <1>2
    <2>2. j + 1 < k + 1
      BY <2>1 DEF Behind
    <2> QED
      BY <1>2, <2>2
  <1>14. Unshown'
    <2> SUFFICES ASSUME NEW m \in Messages, NEW u \in Reacting, room'[Text(m)] = "none"
                 PROVE  room'[Reaction(m, u)] = "none"
      BY DEF Unshown
    <2>1. room[Text(m)] = "none" /\ room[Reaction(m, u)] = "none"
      BY <1>9 DEF Unshown
    <2> QED
      BY <1>4, <1>10, <2>1
  <1>15. ReactionCarry'
    <2> SUFFICES ASSUME NEW m \in Messages \ missing, NEW u \in Reacting,
                        Reaction(m, u) \notin lost, ~IsUnread(Reaction(m, u)), Reaction(m, u) \notin Pending'
                 PROVE  /\ room'[Text(m)] = "none" => chat[Reaction(m, u)] = "none"
                        /\ room'[Text(m)] \in Texts => room'[Reaction(m, u)] = chat[Reaction(m, u)]
      BY <1>5 DEF ReactionCarry
    <2>1. CASE e.subject = Reaction(m, u)
      <3>1. IsLast(1, Reaction(m, u))
        BY <1>2, <2>1
      <3>2. Reaction(m, u) \in Tracked /\ Reaction(m, u) # Text(m)
        BY SubjectKinds
      <3>3. e.value = chat[Reaction(m, u)]
        BY <1>1, <1>2, <3>1, <3>2 DEF QueueCarry
      <3>4. room[Text(m)] # "none"
        BY <1>1, <1>2, <3>1, NotUnshown
      <3> QED
        BY <1>9, <1>10, <2>1, <3>2, <3>3, <3>4
    <2>2. CASE e.subject # Reaction(m, u)
      <3>1. Reaction(m, u) \notin Pending
        BY <1>2, <2>2
      <3>2. /\ room[Text(m)] = "none" => chat[Reaction(m, u)] = "none"
            /\ room[Text(m)] \in Texts => room[Reaction(m, u)] = chat[Reaction(m, u)]
        BY <3>1 DEF ReactionCarry
      <3>3. room[Text(m)] = "none" => room[Reaction(m, u)] = "none"
        BY DEF Unshown
      <3> QED
        BY <1>9, <1>10, <2>2, <3>2, <3>3
    <2> QED
      BY <2>1, <2>2
  <1> QED
    BY <1>11, <1>12, <1>13, <1>14, <1>15

\* In the room there is, or in a new one.
LEMMA ReactionsHandled ==
    ASSUME ReactionsInv, MessagesInv, Inv, HandleInRoom \/ CreateRoom
    PROVE  ReactionsInv'
  <1>1. CASE HandleInRoom
    <2>1. /\ queue # <<>> /\ room' = Applied(room, Head(queue)) /\ queue' = Tail(queue)
          /\ UNCHANGED <<chat, unread, announced, missing, lost>>
      BY <1>1 DEF HandleInRoom, appVars, history
    <2>2. DOMAIN room = Subjects
      BY DEF Inv, Typed
    <2> QED
      BY <2>1, <2>2, ReactionsApplied
  <1>2. CASE CreateRoom
    <2>1. /\ queue # <<>> /\ ~created /\ ChatInfoFits
          /\ room' = Applied(GetChatInfo, Head(queue)) /\ queue' = Tail(queue)
          /\ lost' = lost \ (InfoSubjects \ Pending)
          /\ UNCHANGED <<chat, unread, announced, missing>>
      BY <1>2 DEF CreateRoom, appVars
    <2>2. DOMAIN GetChatInfo = Subjects
      BY <2>1, ChatInfo DEF Inv
    <2>3. ASSUME NEW s \in Subjects, s \notin InfoSubjects PROVE GetChatInfo[s] = "none"
      <3>1. s \notin MemberSubjects /\ s # Name /\ s # Avatar
        BY <2>3 DEF InfoSubjects
      <3> QED
        BY <3>1 DEF GetChatInfo, Blank
    <2>4. \A m \in Messages : GetChatInfo[Text(m)] = "none" /\ room[Text(m)] = "none"
      BY <2>1, <2>3, SubjectKinds DEF MessagesInv, NotAhead
    <2>5. \A m \in Messages, u \in Reacting :
             GetChatInfo[Reaction(m, u)] = "none" /\ room[Reaction(m, u)] = "none"
      BY <2>3, <2>4, SubjectKinds DEF ReactionsInv, Unshown
    <2>6. \A m \in Messages, u \in Reacting : Reaction(m, u) \notin lost' => Reaction(m, u) \notin lost
      BY <2>1, SubjectKinds
    <2> QED
      BY <2>1, <2>2, <2>4, <2>5, <2>6, ReactionsApplied
  <1> QED
    BY <1>1, <1>2

\* Without a room the newest reaction to a message that is still to come is
\* never at the front.
LEMMA ReactionsDropped == ASSUME ReactionsInv, MessagesInv, Typed, DropEvent PROVE ReactionsInv'
  <1> USE DEF ReactionsInv
  <1>1. /\ queue # <<>> /\ ~created /\ queue' = Tail(queue)
        /\ missing' = IF Head(queue).type = "message" THEN missing \cup {Head(queue).subject[2]} ELSE missing
        /\ UNCHANGED <<chat, unread, room, announced, lost>>
    BY DEF DropEvent, appVars
  <1> DEFINE e == Head(queue)
  <1>2. /\ 1 \in DOMAIN queue /\ e = queue[1] /\ e \in Events
        /\ DOMAIN queue \subseteq Nat \ {0} /\ DOMAIN queue' \subseteq Nat \ {0}
        /\ \A s : s \in Pending' => s \in Pending
        /\ \A s : s \in Pending => s \in Pending' \/ e.subject = s
        /\ \A s : e.subject = s => s \in Pending /\ (s \notin Pending' => IsLast(1, s))
        /\ \A s : \A k \in DOMAIN queue' : k + 1 \in DOMAIN queue /\ (IsLast(k, s)' => IsLast(k + 1, s))
        /\ \A m : \A k \in DOMAIN queue' : IsNewOf(k, m)' => IsNewOf(k + 1, m)
        /\ \A m : HasNew(m)' => HasNew(m)
    BY <1>1, QueueShorter
  <1>3. missing' = IF e.type = "message" THEN missing \cup {e.subject[2]} ELSE missing
    BY <1>1
  <1> HIDE DEF e
  <1>4. \A s : IsUnread(s)' <=> IsUnread(s)
    BY <1>1 DEF IsUnread
  <1>5. \A m \in Messages : room[Text(m)] = "none"
    BY <1>1 DEF MessagesInv, NotAhead
  <1>6. missing \subseteq missing' /\ missing \subseteq Messages
    BY <1>3 DEF Typed, TypeOK
  <1>7. Missed'
    <2> SUFFICES ASSUME NEW m \in missing'
                 PROVE  /\ room[Text(m)] = "none" /\ ~HasNew(m)'
                        /\ chat[Text(m)] # "none" /\ (IsUnread(Text(m)) => chat[Text(m)] # "sent")
      BY <1>1, <1>4 DEF Missed
    <2>1. CASE m \in missing
      BY <1>2, <2>1 DEF Missed
    <2>2. CASE m \notin missing
      <3>1. e.type = "message" /\ e.subject[2] = m
        BY <1>3, <2>2
      <3>2. PICK n \in Messages : e.subject = Text(n)
        BY <1>2, <3>1 DEF Events, EventOK
      <3>3. m \in Messages /\ e.subject = Text(m)
        BY <3>1, <3>2 DEF Text
      <3>4. m \in announced
        BY <1>2, <2>2, <3>3 DEF MessagesInv, Unannounced
      <3>5. \A k \in DOMAIN queue : IsNewOf(k, m) => k <= 1
        BY <1>2, <2>2, <3>3, <3>4 DEF MessagesInv, Coming
      <3>6. ASSUME NEW k \in DOMAIN queue', IsNewOf(k, m)' PROVE FALSE
        <4>1. k + 1 \in DOMAIN queue /\ IsNewOf(k + 1, m) /\ k \in Nat \ {0}
          BY <1>2, <3>6
        <4> QED
          BY <3>5, <4>1
      <3> QED
        BY <1>5, <3>3, <3>4, <3>6 DEF MessagesInv, Announced, HasNew
    <2> QED
      BY <2>1, <2>2
  <1>8. Reacted'
    BY <1>1, <1>2, <1>4, <1>6 DEF Reacted
  <1>9. Behind'
    <2> SUFFICES ASSUME NEW m \in Messages, m \notin missing', NEW u \in Reacting, Reaction(m, u) \notin lost,
                        NEW k \in DOMAIN queue', NEW j \in DOMAIN queue',
                        IsLast(k, Reaction(m, u))', IsNewOf(j, m)'
                 PROVE  j < k
      BY <1>1 DEF Behind
    <2>1. /\ k + 1 \in DOMAIN queue /\ j + 1 \in DOMAIN queue
          /\ IsLast(k + 1, Reaction(m, u)) /\ IsNewOf(j + 1, m)
      BY <1>2
    <2>2. j + 1 < k + 1
      BY <1>6, <2>1 DEF Behind
    <2> QED
      BY <1>2, <2>2
  <1>10. Unshown'
    BY <1>1 DEF Unshown
  <1>11. ReactionCarry'
    <2> SUFFICES ASSUME NEW m \in Messages, m \notin missing', NEW u \in Reacting,
                        Reaction(m, u) \notin lost, ~IsUnread(Reaction(m, u)), Reaction(m, u) \notin Pending'
                 PROVE  /\ room[Text(m)] = "none" => chat[Reaction(m, u)] = "none"
                        /\ room[Text(m)] \in Texts => room[Reaction(m, u)] = chat[Reaction(m, u)]
      BY <1>1, <1>4 DEF ReactionCarry
    <2>1. m \notin missing
      BY <1>6
    <2>2. CASE e.subject = Reaction(m, u)
      <3>1. IsLast(1, Reaction(m, u))
        BY <1>2, <2>2
      <3> QED
        BY <1>2, <1>5, <2>1, <3>1, NotUnshown
    <2>3. CASE e.subject # Reaction(m, u)
      BY <1>2, <2>1, <2>3 DEF ReactionCarry
    <2> QED
      BY <2>2, <2>3
  <1> QED
    BY <1>7, <1>8, <1>9, <1>10, <1>11

\* A crash loses what was on its way, and says so.
LEMMA ReactionsCrash == ASSUME ReactionsInv, MessagesInv, Typed, Crash PROVE ReactionsInv'
  <1> USE DEF ReactionsInv
  <1> DEFINE gone == Pending \cup {SubjectOf(r) : r \in unread}
  <1>1. /\ lost' = lost \cup (gone \cap Subjects)
        /\ missing' = missing \cup {m \in Messages : Text(m) \in gone /\ room[Text(m)] = "none"}
        /\ unread' = {} /\ queue' = <<>>
        /\ UNCHANGED <<chat, room, announced>>
    BY DEF Crash, appVars
  <1>2. \A s : IsUnread(s) \/ s \in Pending <=> s \in gone
    BY DEF IsUnread
  <1> HIDE DEF gone
  <1>3. DOMAIN queue' = {} /\ (\A s : ~IsUnread(s)') /\ Pending' = {}
    BY <1>1 DEF IsUnread, Pending
  <1>4. ASSUME NEW m \in Messages, m \notin missing, Text(m) \in gone PROVE chat[Text(m)] # "none"
    <2>1. CASE IsUnread(Text(m))
      <3>1. PICK r \in unread : SubjectOf(r) = Text(m)
        BY <2>1 DEF IsUnread
      <3>2. RowOK(r)
        BY DEF Typed
      <3>3. r.item = "message" /\ r.target = m
        BY <3>1, <3>2, AboutText
      <3>4. r = MessageRow(m) /\ r.value \in Texts \cup {"gone"}
        BY <3>2, <3>3 DEF MessagesInv, RowsCurrent, RowOK
      <3>5. r.value = chat[Text(m)]
        BY <3>4, RowOfMessage
      <3> QED
        BY <3>4, <3>5 DEF Texts
    <2>2. CASE Text(m) \in Pending
      <3>1. m \in announced
        BY <1>4, <2>2 DEF MessagesInv, Unannounced
      <3> QED
        BY <3>1 DEF MessagesInv, Announced
    <2> QED
      BY <1>2, <1>4, <2>1, <2>2
  <1>5. Missed'
    <2> SUFFICES ASSUME NEW m \in missing' PROVE room[Text(m)] = "none" /\ chat[Text(m)] # "none"
      BY <1>1, <1>3 DEF Missed, HasNew
    <2>1. CASE m \in missing
      BY <2>1 DEF Missed
    <2>2. CASE m \notin missing
      BY <1>1, <1>4, <2>2
    <2> QED
      BY <2>1, <2>2
  <1>6. Reacted' /\ Behind' /\ Unshown'
    BY <1>1, <1>3 DEF Reacted, Behind, Unshown
  <1>7. ReactionCarry'
    <2> SUFFICES ASSUME NEW m \in Messages, m \notin missing', NEW u \in Reacting, Reaction(m, u) \notin lost'
                 PROVE  /\ room[Text(m)] = "none" => chat[Reaction(m, u)] = "none"
                        /\ room[Text(m)] \in Texts => room[Reaction(m, u)] = chat[Reaction(m, u)]
      BY <1>1 DEF ReactionCarry
    <2>1. Reaction(m, u) \in Subjects
      BY SubjectKinds
    <2>2. m \notin missing /\ Reaction(m, u) \notin lost /\ Reaction(m, u) \notin gone
      BY <1>1, <2>1
    <2> QED
      BY <1>2, <2>2 DEF ReactionCarry
  <1> QED
    BY <1>5, <1>6, <1>7

-----------------------------------------------------------------------------
(* The feed                                                                *)

\* The room is never ahead of what is queued, events about a message are queued
\* in the order of its versions, and none is ahead of the chat.
Ordered == \A m \in Messages :
    /\ Version(room[Text(m)]) <= Version(chat[Text(m)])
    /\ \A k \in DOMAIN queue : queue[k].subject = Text(m) =>
        /\ Version(room[Text(m)]) <= Version(queue[k].value)
        /\ Version(queue[k].value) <= Version(chat[Text(m)])
        /\ \A j \in DOMAIN queue : j > k /\ queue[j].subject = Text(m) =>
            Version(queue[k].value) <= Version(queue[j].value)

TextValues == {"none", "gone"} \cup Texts

\* The numbers of the versions.
LEMMA VersionKinds ==
    /\ Version("none") = 0 /\ Version("sent") = 1 /\ Version("edited") = 2
    /\ Version("reedited") = 3 /\ Version("gone") = 4
    /\ \A v \in TextValues : Version(v) \in 0 .. 4 /\ (Version(v) = 0 <=> v = "none")
  BY DEF Version, TextValues, Texts

\* What is said of a message is a version of it.
LEMMA TextsTyped ==
    ASSUME Typed, NEW m \in Messages
    PROVE  chat[Text(m)] \in TextValues /\ room[Text(m)] \in TextValues /\ Text(m) \in Subjects
  <1>1. Text(m) \in Subjects /\ Values(Text(m)) = {"none", "gone"} \cup Texts
    BY SubjectKinds, ValueKinds
  <1> QED
    BY <1>1 DEF Typed, TypeOK, TextValues

\* And so is what an event carries.
LEMMA EventsTyped ==
    ASSUME Typed, EventsTell, NEW k \in DOMAIN queue, NEW m \in Messages, queue[k].subject = Text(m)
    PROVE  queue[k].value \in TextValues \ {"none"}
  <1>1. queue[k] \in Events
    <2>1. queue \in Seq(Events)
      BY DEF Typed
    <2> QED
      BY <2>1
  <1>2. /\ queue[k].type \in {"message", "edit", "remove"}
        /\ queue[k].type = "remove" => queue[k].value = "gone"
    BY DEF EventsTell
  <1>3. queue[k].type \in {"message", "edit"} => queue[k].value \in Texts
    BY <1>1 DEF Events, EventOK
  <1> QED
    BY <1>2, <1>3 DEF TextValues, Texts

\* A message in the chat goes forward only.
LEMMA ChatForward ==
    ASSUME Typed, App, NEW m \in Messages
    PROVE  Version(chat[Text(m)]) <= Version(chat'[Text(m)])
  <1>1. chat[Text(m)] \in TextValues /\ Text(m) \in Subjects /\ DOMAIN chat = Subjects
    BY TextsTyped DEF Typed
  <1>2. Version(chat[Text(m)]) \in 0 .. 4
    BY <1>1, VersionKinds
  <1>3. ASSUME NEW x, NEW v, chat' = [chat EXCEPT ![x] = v], x # Text(m)
        PROVE  chat'[Text(m)] = chat[Text(m)]
    BY <1>1, <1>3
  <1>4. ASSUME NEW u \in Users, Join(u) \/ RemoveUser(u) \/ Leave(u)
        PROVE  chat'[Text(m)] = chat[Text(m)]
    <2>1. Member(u) # Text(m)
      BY DEF Member, Text
    <2> QED
      BY <1>3, <1>4, <2>1 DEF Join, RemoveUser, Leave, Write
  <1>5. ASSUME Rename \/ SetAvatar \/ RemoveAvatar PROVE chat'[Text(m)] = chat[Text(m)]
    <2>1. Name # Text(m) /\ Avatar # Text(m)
      BY DEF Name, Avatar, Text
    <2> QED
      BY <1>3, <1>5, <2>1 DEF Rename, SetAvatar, RemoveAvatar, Write
  <1>6. ASSUME NEW n \in Messages, NEW u \in Reacting, React(n, u) PROVE chat'[Text(m)] = chat[Text(m)]
    <2>1. Reaction(n, u) # Text(m)
      BY SubjectKinds
    <2> QED
      BY <1>3, <1>6, <2>1 DEF React, Write
  <1>7. ASSUME NEW n \in Messages, Send(n) \/ Edit(n) \/ Retract(n)
        PROVE  Version(chat[Text(m)]) <= Version(chat'[Text(m)])
    <2>1. PICK v \in TextValues : chat' = [chat EXCEPT ![Text(n)] = v] /\ Version(chat[Text(n)]) <= Version(v)
      <3>1. CASE Send(n)
        BY <3>1, VersionKinds DEF Send, WriteText, TextValues, Texts
      <3>2. CASE Edit(n)
        BY <3>2, VersionKinds DEF Edit, WriteText, TextValues, Texts
      <3>3. CASE Retract(n)
        <4>1. chat[Text(n)] \in TextValues /\ "gone" \in TextValues
          BY TextsTyped DEF TextValues
        <4>2. Version(chat[Text(n)]) <= Version("gone")
          BY <4>1, VersionKinds
        <4> QED
          BY <3>3, <4>1, <4>2 DEF Retract, WriteText
      <3> QED
        BY <1>7, <3>1, <3>2, <3>3
    <2>2. CASE Text(n) = Text(m)
      BY <1>1, <2>1, <2>2
    <2>3. CASE Text(n) # Text(m)
      BY <1>2, <1>3, <2>1, <2>3
    <2> QED
      BY <2>2, <2>3
  <1> QED
    BY <1>2, <1>4, <1>5, <1>6, <1>7 DEF App

LEMMA OrderedInit == Init => Ordered
  <1> SUFFICES ASSUME Init PROVE Ordered
    OBVIOUS
  <1>1. Typed /\ NotAhead
    BY InvInit, MessagesInit DEF Inv, MessagesInv
  <1>2. \A m \in Messages : room[Text(m)] = "none" \/ room = chat
    BY <1>1 DEF Init, NotAhead
  <1>3. \A m \in Messages : Version(room[Text(m)]) <= Version(chat[Text(m)])
    <2> TAKE m \in Messages
    <2>1. room[Text(m)] \in TextValues /\ chat[Text(m)] \in TextValues
      BY <1>1, TextsTyped
    <2> QED
      BY <1>2, <2>1, VersionKinds
  <1>4. DOMAIN queue = {}
    BY DEF Init
  <1> QED
    BY <1>3, <1>4 DEF Ordered

\* The chat goes on.
LEMMA OrderedApp == ASSUME Ordered, MessagesInv, Inv, App PROVE Ordered'
  <1>1. Typed /\ Typed' /\ EventsTell
    BY InvApp DEF Inv, MessagesInv
  <1>2. UNCHANGED <<queue, room>>
    BY DEF App, Join, RemoveUser, Leave, Rename, SetAvatar, RemoveAvatar, React, Send, Edit, Retract,
       Write, WriteText, AppLeaves
  <1> SUFFICES ASSUME NEW m \in Messages
               PROVE  /\ Version(room[Text(m)]) <= Version(chat'[Text(m)])
                      /\ \A k \in DOMAIN queue : queue[k].subject = Text(m) =>
                          Version(queue[k].value) <= Version(chat'[Text(m)])
    BY <1>2 DEF Ordered
  <1>3. Version(chat[Text(m)]) <= Version(chat'[Text(m)])
    BY <1>1, ChatForward
  <1>4. chat[Text(m)] \in TextValues /\ room[Text(m)] \in TextValues
    BY <1>1, TextsTyped
  <1>5. chat'[Text(m)] \in TextValues
    <2>1. Text(m) \in Subjects /\ Values(Text(m)) = {"none", "gone"} \cup Texts
      BY SubjectKinds, ValueKinds
    <2> QED
      BY <1>1, <2>1 DEF Typed, TypeOK, TextValues
  <1>6. \A k \in DOMAIN queue : queue[k].subject = Text(m) => queue[k].value \in TextValues
    BY <1>1, EventsTyped
  <1>7. /\ Version(chat[Text(m)]) \in 0 .. 4 /\ Version(chat'[Text(m)]) \in 0 .. 4
        /\ Version(room[Text(m)]) \in 0 .. 4
        /\ \A k \in DOMAIN queue : queue[k].subject = Text(m) => Version(queue[k].value) \in 0 .. 4
    BY <1>4, <1>5, <1>6, VersionKinds
  <1> QED
    BY <1>3, <1>7 DEF Ordered

\* What is read is the version of now.
LEMMA OrderedRead == ASSUME Ordered, MessagesInv, Typed, Read PROVE Ordered'
  <1>1. PICK rows, o : ReadAs(rows, o)
    BY ReadInOrder
  <1>2. /\ \A k \in DOMAIN queue : k \in DOMAIN queue' /\ queue'[k] = queue[k]
        /\ UNCHANGED <<chat, room>> /\ DOMAIN queue' \subseteq Nat
    <2>1. queue' \in Seq(Events)
      BY <1>1 DEF ReadAs, Follows
    <2>2. DOMAIN queue' \subseteq Nat
      BY <2>1
    <2> QED
      BY <1>1, <2>2 DEF ReadAs, Follows
  <1> SUFFICES ASSUME NEW m \in Messages, NEW k \in DOMAIN queue', queue'[k].subject = Text(m)
               PROVE  /\ Version(room[Text(m)]) <= Version(queue'[k].value)
                      /\ Version(queue'[k].value) <= Version(chat[Text(m)])
                      /\ \A j \in DOMAIN queue' : j > k /\ queue'[j].subject = Text(m) =>
                          Version(queue'[k].value) <= Version(queue'[j].value)
    BY <1>2 DEF Ordered
  <1>3. /\ Version(chat[Text(m)]) \in 0 .. 4
        /\ Version(room[Text(m)]) <= Version(chat[Text(m)])
    BY TextsTyped, VersionKinds DEF Ordered
  <1>4. Untouched(m) \/ \E p : OneRead(m, p)
    BY <1>1, MessageRead DEF MessagesInv
  <1>5. CASE Untouched(m)
    BY <1>2, <1>5 DEF Untouched, Ordered
  <1>6. ASSUME NEW p, OneRead(m, p)
        PROVE  /\ Version(room[Text(m)]) <= Version(queue'[k].value)
               /\ Version(queue'[k].value) <= Version(chat[Text(m)])
               /\ \A j \in DOMAIN queue' : j > k /\ queue'[j].subject = Text(m) =>
                   Version(queue'[k].value) <= Version(queue'[j].value)
    <2>1. /\ p \in DOMAIN queue' /\ queue'[p].value = chat[Text(m)] /\ \A l \in DOMAIN queue : l < p
          /\ \A l \in DOMAIN queue' : queue'[l].subject = Text(m) => l = p \/ l \in DOMAIN queue
      BY <1>6 DEF OneRead
    <2>2. CASE k = p
      <3>1. ~\E j \in DOMAIN queue' : j > k /\ queue'[j].subject = Text(m)
        BY <1>2, <2>1, <2>2
      <3> QED
        BY <1>3, <2>1, <2>2, <3>1
    <2>3. CASE k \in DOMAIN queue
      <3>1. queue'[k] = queue[k] /\ queue[k].subject = Text(m)
        BY <1>2, <2>3
      <3>2. Version(room[Text(m)]) <= Version(queue[k].value) /\ Version(queue[k].value) <= Version(chat[Text(m)])
        BY <2>3, <3>1 DEF Ordered
      <3>3. ASSUME NEW j \in DOMAIN queue', j > k, queue'[j].subject = Text(m)
            PROVE  Version(queue[k].value) <= Version(queue'[j].value)
        <4>1. CASE j = p
          BY <2>1, <3>2, <4>1
        <4>2. CASE j \in DOMAIN queue
          BY <1>2, <2>3, <3>1, <3>3, <4>2 DEF Ordered
        <4> QED
          BY <2>1, <3>3, <4>1, <4>2
      <3> QED
        BY <3>1, <3>2, <3>3
    <2> QED
      BY <2>1, <2>2, <2>3
  <1> QED
    BY <1>4, <1>5, <1>6

\* What becomes of a message in the room R: what its event carries, or nothing.
LEMMA RoomOrNewer ==
    ASSUME MessagesInv, Typed, queue # <<>>,
           NEW R, DOMAIN R = Subjects, NEW m \in Messages, R[Text(m)] = room[Text(m)],
           room' = Applied(R, Head(queue))
    PROVE  \/ room'[Text(m)] = room[Text(m)]
           \/ /\ Head(queue).subject = Text(m) /\ room'[Text(m)] = Head(queue).value
              /\ room[Text(m)] \in {"none"} \cup Texts
  <1> DEFINE e == Head(queue)
  <1>1. 1 \in DOMAIN queue /\ e = queue[1] /\ e \in Events
    <2>1. queue \in Seq(Events)
      BY DEF Typed
    <2>2. 1 \in DOMAIN queue /\ Head(queue) = queue[1]
      BY <2>1
    <2> QED
      BY <2>1, <2>2
  <1>2. room' = Applied(R, e)
    OBVIOUS
  <1> HIDE DEF e
  <1>3. Text(m) \in Subjects /\ room[Text(m)] \in {"none", "gone"} \cup Texts
    BY TextsTyped DEF TextValues
  <1>4. CASE e.subject # Text(m)
    <2>1. room'[Text(m)] = R[Text(m)]
      BY <1>1, <1>2, <1>3, <1>4, AppliedEvent
    <2> QED
      BY <2>1
  <1>5. CASE e.subject = Text(m)
    <2>1. /\ e.type \in {"message", "edit", "remove"}
          /\ e.type = "remove" => e.value = "gone"
      BY <1>1, <1>5 DEF MessagesInv, EventsTell
    <2>2. /\ e.type = "message" => room'[Text(m)] = IF R[Text(m)] = "none" THEN e.value ELSE R[Text(m)]
          /\ e.type = "edit" => room'[Text(m)] = IF R[Text(m)] \in Texts THEN e.value ELSE R[Text(m)]
          /\ e.type = "remove" => room'[Text(m)] = IF R[Text(m)] \in Texts THEN "gone" ELSE R[Text(m)]
      BY <1>1, <1>2, <1>3, <1>5, AppliedText
    <2> QED
      BY <1>5, <2>1, <2>2 DEF e
  <1> QED
    BY <1>4, <1>5

\* The room goes forward, to what is first in the queue.
LEMMA OrderedTaken ==
    ASSUME Ordered, MessagesInv, Typed, queue # <<>>, queue' = Tail(queue), UNCHANGED chat,
           \A m \in Messages : \/ room'[Text(m)] = room[Text(m)]
                               \/ /\ Head(queue).subject = Text(m)
                                  /\ room'[Text(m)] = Head(queue).value
    PROVE  Ordered'
  <1>1. /\ 1 \in DOMAIN queue /\ Head(queue) = queue[1]
        /\ \A k \in DOMAIN queue' : k + 1 \in DOMAIN queue /\ queue'[k] = queue[k + 1]
        /\ DOMAIN queue' \subseteq Nat \ {0}
    BY Taken, QueueShorter
  <1>2. \A k, j \in DOMAIN queue' : j > k => j + 1 > k + 1 /\ k + 1 > 1
    BY <1>1
  <1> SUFFICES ASSUME NEW m \in Messages
               PROVE  /\ Version(room'[Text(m)]) <= Version(chat[Text(m)])
                      /\ \A k \in DOMAIN queue' : queue'[k].subject = Text(m) =>
                          /\ Version(room'[Text(m)]) <= Version(queue'[k].value)
                          /\ Version(queue'[k].value) <= Version(chat[Text(m)])
                          /\ \A j \in DOMAIN queue' : j > k /\ queue'[j].subject = Text(m) =>
                              Version(queue'[k].value) <= Version(queue'[j].value)
    BY DEF Ordered
  <1>3. Version(room'[Text(m)]) <= Version(chat[Text(m)])
    BY <1>1 DEF Ordered
  <1>4. ASSUME NEW k \in DOMAIN queue', queue'[k].subject = Text(m)
        PROVE  /\ Version(room'[Text(m)]) <= Version(queue'[k].value)
               /\ Version(queue'[k].value) <= Version(chat[Text(m)])
               /\ \A j \in DOMAIN queue' : j > k /\ queue'[j].subject = Text(m) =>
                   Version(queue'[k].value) <= Version(queue'[j].value)
    <2>1. k + 1 \in DOMAIN queue /\ queue'[k] = queue[k + 1] /\ k + 1 > 1
      BY <1>1
    <2>2. Version(room'[Text(m)]) <= Version(queue[k + 1].value)
      BY <1>1, <1>4, <2>1 DEF Ordered
    <2>3. Version(queue[k + 1].value) <= Version(chat[Text(m)])
      BY <1>4, <2>1 DEF Ordered
    <2>4. ASSUME NEW j \in DOMAIN queue', j > k, queue'[j].subject = Text(m)
          PROVE  Version(queue[k + 1].value) <= Version(queue'[j].value)
      <3>1. j + 1 \in DOMAIN queue /\ queue'[j] = queue[j + 1] /\ j + 1 > k + 1
        BY <1>1, <1>2, <2>4
      <3> QED
        BY <1>4, <2>1, <2>4, <3>1 DEF Ordered
    <2> QED
      BY <2>1, <2>2, <2>3, <2>4
  <1> QED
    BY <1>3, <1>4

\* How the portal takes an event: in a room R that shows the messages of now.
LEMMA RoomTakes ==
    ASSUME MessagesInv, Typed, HandleInRoom \/ CreateRoom
    PROVE  /\ queue # <<>> /\ queue' = Tail(queue) /\ UNCHANGED chat
           /\ \E R : /\ DOMAIN R = Subjects /\ \A m \in Messages : R[Text(m)] = room[Text(m)]
                     /\ room' = Applied(R, Head(queue))
  <1>1. CASE HandleInRoom
    BY <1>1 DEF HandleInRoom, appVars, Typed
  <1>2. CASE CreateRoom
    <2>1. /\ queue # <<>> /\ ~created /\ ChatInfoFits /\ queue' = Tail(queue) /\ UNCHANGED chat
          /\ room' = Applied(GetChatInfo, Head(queue))
      BY <1>2 DEF CreateRoom, appVars
    <2>2. DOMAIN GetChatInfo = Subjects
      BY <2>1, ChatInfo
    <2>3. ASSUME NEW m \in Messages PROVE GetChatInfo[Text(m)] = room[Text(m)]
      <3>1. Text(m) \in Subjects /\ Text(m) \notin MemberSubjects /\ Text(m) # Name /\ Text(m) # Avatar
        BY SubjectKinds DEF InfoSubjects
      <3>2. GetChatInfo[Text(m)] = "none"
        BY <3>1 DEF GetChatInfo, Blank
      <3> QED
        BY <2>1, <3>2 DEF MessagesInv, NotAhead
    <2> QED
      BY <2>1, <2>2, <2>3
  <1> QED
    BY <1>1, <1>2

LEMMA OrderedHandled == ASSUME Ordered, MessagesInv, Typed, HandleInRoom \/ CreateRoom PROVE Ordered'
  <1>1. queue # <<>> /\ queue' = Tail(queue) /\ UNCHANGED chat
    BY RoomTakes
  <1>2. PICK R : /\ DOMAIN R = Subjects /\ \A m \in Messages : R[Text(m)] = room[Text(m)]
                 /\ room' = Applied(R, Head(queue))
    BY RoomTakes
  <1>3. \A m \in Messages : \/ room'[Text(m)] = room[Text(m)]
                            \/ Head(queue).subject = Text(m) /\ room'[Text(m)] = Head(queue).value
    BY <1>1, <1>2, RoomOrNewer
  <1> QED
    BY <1>1, <1>3, OrderedTaken

LEMMA OrderedStep == ASSUME Ordered, MessagesInv, Inv, [Next]_vars PROVE Ordered'
  <1>1. Typed
    BY DEF Inv
  <1>2. CASE App
    BY <1>2, OrderedApp
  <1>3. CASE Read
    BY <1>1, <1>3, OrderedRead
  <1>4. CASE HandleInRoom \/ CreateRoom
    BY <1>1, <1>4, OrderedHandled
  <1>5. CASE DropEvent
    <2>1. queue # <<>> /\ queue' = Tail(queue) /\ UNCHANGED <<chat, room>>
      BY <1>5 DEF DropEvent, appVars
    <2> QED
      BY <1>1, <2>1, OrderedTaken
  <1>6. CASE Crash
    <2>1. DOMAIN queue' = {} /\ UNCHANGED <<chat, room>>
      BY <1>6 DEF Crash, appVars
    <2> QED
      BY <2>1 DEF Ordered
  <1>7. CASE UNCHANGED vars
    BY <1>7 DEF vars, appVars, Ordered
  <1> QED
    BY <1>2, <1>3, <1>4, <1>5, <1>6, <1>7 DEF Next

\* The variables of the feed.
inChat == [m \in Messages |-> Version(chat[Text(m)])]
inRoom == [m \in Messages |-> Version(room[Text(m)])]
inCount == [m \in Messages |-> IF room[Text(m)] = "none" THEN 0 ELSE 1]

\* A change of one message in the chat is Happen.
LEMMA FeedHappens ==
    ASSUME Typed, Typed', NEW m \in Messages,
           Version(chat[Text(m)]) <= Version(chat'[Text(m)]),
           \A n \in Messages \ {m} : chat'[Text(n)] = chat[Text(n)], UNCHANGED room
    PROVE  Feed!Happen(m)
  <1>1. chat'[Text(m)] \in TextValues
    <2>1. Text(m) \in Subjects /\ Values(Text(m)) = {"none", "gone"} \cup Texts
      BY SubjectKinds, ValueKinds
    <2> QED
      BY <2>1 DEF Typed, TypeOK, TextValues
  <1>2. Version(chat'[Text(m)]) \in Nat
    BY <1>1, VersionKinds
  <1>3. /\ inChat' = [n \in Messages |-> IF n = m THEN Version(chat'[Text(n)]) ELSE inChat[n]]
        /\ inChat'[m] = Version(chat'[Text(m)]) /\ inChat[m] = Version(chat[Text(m)])
    BY DEF inChat
  <1>4. inChat' = [inChat EXCEPT ![m] = inChat'[m]]
    BY <1>3 DEF inChat
  <1>5. inRoom' = inRoom /\ inCount' = inCount
    BY DEF inRoom, inCount
  <1> QED
    BY <1>2, <1>3, <1>4, <1>5 DEF Feed!Happen, inChat, inRoom, inCount

\* A change of one message in the room is Announce or Update.
LEMMA FeedShows ==
    ASSUME Ordered, Typed, Typed', UNCHANGED chat, NEW m \in Messages,
           \A n \in Messages \ {m} : room'[Text(n)] = room[Text(n)],
           room'[Text(m)] # "none", Version(room[Text(m)]) <= Version(room'[Text(m)]),
           Version(room'[Text(m)]) <= Version(chat[Text(m)])
    PROVE  Feed!Announce(m) \/ Feed!Update(m)
  <1> DEFINE t == Version(room'[Text(m)])
  <1>1. room'[Text(m)] \in TextValues /\ room[Text(m)] \in TextValues /\ chat[Text(m)] \in TextValues
    <2>1. Text(m) \in Subjects /\ Values(Text(m)) = {"none", "gone"} \cup Texts
      BY SubjectKinds, ValueKinds
    <2> QED
      BY <2>1 DEF Typed, TypeOK, TextValues
  <1>2. /\ t \in 1 .. Version(chat[Text(m)]) /\ Version(room[Text(m)]) <= t
        /\ Version(room[Text(m)]) = 0 <=> room[Text(m)] = "none"
    BY <1>1, VersionKinds
  <1>3. inChat' = inChat /\ inChat[m] = Version(chat[Text(m)]) /\ inRoom[m] = Version(room[Text(m)])
    BY DEF inChat, inRoom
  <1>4. inRoom' = [inRoom EXCEPT ![m] = t]
    BY DEF inRoom
  <1> HIDE DEF t
  <1>5. CASE room[Text(m)] = "none"
    <2>1. inCount' = [inCount EXCEPT ![m] = @ + 1]
      <3>1. inCount[m] = 0
        BY <1>5 DEF inCount
      <3>2. inCount' = [n \in Messages |-> IF n = m THEN 1 ELSE inCount[n]]
        BY DEF inCount
      <3>3. DOMAIN inCount = Messages /\ 0 + 1 = 1
        BY DEF inCount
      <3>4. inCount = [n \in Messages |-> inCount[n]]
        BY DEF inCount
      <3> QED
        BY <3>1, <3>2, <3>3, <3>4
    <2>2. Feed!Announce(m)
      BY <1>2, <1>3, <1>4, <1>5, <2>1 DEF Feed!Announce, inChat, inRoom, inCount
    <2> QED
      BY <2>2
  <1>6. CASE room[Text(m)] # "none"
    <2>1. inCount' = inCount
      BY <1>6 DEF inCount
    <2>2. Feed!Update(m)
      BY <1>2, <1>3, <1>4, <2>1 DEF Feed!Update, inChat, inRoom, inCount
    <2> QED
      BY <2>2
  <1> QED
    BY <1>5, <1>6

\* Every step of the portal is a step of the feed, or invisible in it.
LEMMA PortalFeedStep ==
    ASSUME Ordered, MessagesInv, Inv, Inv', [Next]_vars
    PROVE  [Feed!Next]_<<inChat, inRoom, inCount>>
  <1>1. Typed /\ Typed'
    BY DEF Inv
  <1>2. ASSUME \A m \in Messages : chat'[Text(m)] = chat[Text(m)] /\ room'[Text(m)] = room[Text(m)]
        PROVE  UNCHANGED <<inChat, inRoom, inCount>>
    BY <1>2 DEF inChat, inRoom, inCount
  <1>3. CASE App
    <2>1. UNCHANGED room
      BY <1>3 DEF App, Join, RemoveUser, Leave, Rename, SetAvatar, RemoveAvatar, React, Send, Edit, Retract,
         Write, WriteText, AppLeaves
    <2>2. PICK x : \A s \in Subjects : s # x => chat'[s] = chat[s]
      <3>1. \A x, v : chat' = [chat EXCEPT ![x] = v] => \A s \in Subjects : s # x => chat'[s] = chat[s]
        BY <1>1 DEF Typed
      <3>2. \E x, v : chat' = [chat EXCEPT ![x] = v]
        BY <1>3 DEF App, Join, RemoveUser, Leave, Rename, SetAvatar, RemoveAvatar, React, Send, Edit,
           Retract, Write, WriteText
      <3> QED
        BY <3>1, <3>2
    <2>3. \A m, n \in Messages : Text(m) \in Subjects /\ (Text(m) = Text(n) => m = n)
      BY SubjectKinds DEF Text
    <2>4. CASE \E m \in Messages : x = Text(m)
      <3>1. PICK m \in Messages : x = Text(m)
        BY <2>4
      <3>2. \A n \in Messages \ {m} : chat'[Text(n)] = chat[Text(n)]
        BY <2>2, <2>3, <3>1
      <3>3. Feed!Happen(m)
        BY <1>1, <1>3, <2>1, <3>2, ChatForward, FeedHappens
      <3> QED
        BY <3>3 DEF Feed!Next
    <2>5. CASE ~\E m \in Messages : x = Text(m)
      BY <1>2, <2>1, <2>2, <2>3, <2>5
    <2> QED
      BY <2>4, <2>5
  <1>4. CASE HandleInRoom \/ CreateRoom
    <2>1. queue # <<>> /\ queue' = Tail(queue) /\ UNCHANGED chat
      BY <1>1, <1>4, RoomTakes
    <2>2. PICK R : /\ DOMAIN R = Subjects /\ \A m \in Messages : R[Text(m)] = room[Text(m)]
                   /\ room' = Applied(R, Head(queue))
      BY <1>1, <1>4, RoomTakes
    <2>3. \A m \in Messages : \/ room'[Text(m)] = room[Text(m)]
                              \/ Head(queue).subject = Text(m) /\ room'[Text(m)] = Head(queue).value
      BY <1>1, <2>1, <2>2, RoomOrNewer
    <2>4. 1 \in DOMAIN queue /\ Head(queue) = queue[1]
      BY <1>1, <2>1, QueueShorter
    <2>5. CASE \E m \in Messages : room'[Text(m)] # room[Text(m)]
      <3>1. PICK m \in Messages : room'[Text(m)] # room[Text(m)]
        BY <2>5
      <3>2. queue[1].subject = Text(m) /\ room'[Text(m)] = queue[1].value
        BY <2>3, <2>4, <3>1
      <3>3. \A n \in Messages \ {m} : room'[Text(n)] = room[Text(n)]
        <4>1. \A n \in Messages \ {m} : Text(n) # Text(m)
          BY DEF Text
        <4> QED
          BY <2>3, <2>4, <3>2, <4>1
      <3>4. queue[1].value # "none"
        BY <1>1, <2>4, <3>2, EventsTyped DEF MessagesInv
      <3>5. Version(room[Text(m)]) <= Version(queue[1].value) /\ Version(queue[1].value) <= Version(chat[Text(m)])
        BY <2>4, <3>2 DEF Ordered
      <3>6. Feed!Announce(m) \/ Feed!Update(m)
        BY <1>1, <2>1, <3>2, <3>3, <3>4, <3>5, FeedShows
      <3> QED
        BY <3>6 DEF Feed!Next
    <2>6. CASE ~\E m \in Messages : room'[Text(m)] # room[Text(m)]
      BY <1>2, <2>1, <2>6
    <2> QED
      BY <2>5, <2>6
  <1>5. CASE Read \/ DropEvent \/ Crash \/ UNCHANGED vars
    <2>1. UNCHANGED <<chat, room>>
      BY <1>5 DEF Read, DropEvent, Crash, vars, appVars
    <2> QED
      BY <1>2, <2>1
  <1> QED
    BY <1>3, <1>4, <1>5 DEF Next

-----------------------------------------------------------------------------
(* Theorems                                                                *)

\* The invariant: the newest change of a member or a detail is unread, last in
\* the queue, shown, or known to be lost (client.go:217-233, 463-578).
THEOREM PortalInvariant == Spec => []Inv
  <1>1. Inv /\ [Next]_vars => Inv'
    <2> SUFFICES ASSUME Inv, [Next]_vars PROVE Inv'
      OBVIOUS
    <2>1. CASE App
      BY <2>1, InvApp
    <2>2. CASE Read
      BY <2>2, InvRead
    <2>3. CASE HandleInRoom
      BY <2>3, InvHandle
    <2>4. CASE CreateRoom
      BY <2>4, InvCreate
    <2>5. CASE DropEvent
      BY <2>5, InvDrop
    <2>6. CASE Crash
      BY <2>6, InvCrash
    <2>7. CASE UNCHANGED vars
      <3>1. UNCHANGED <<topic, chat, changes, stamp, unread, queue, created, room, announced, missing, lost>>
        BY <2>7 DEF vars, appVars, history
      <3> QED
        BY <3>1 DEF Inv, Typed, TypeOK, UnreadCarry, QueueCarry, RoomCarry, Newest, IsUnread, IsLast, Shows, Pending
    <2> QED
      BY <2>1, <2>2, <2>3, <2>4, <2>5, <2>6, <2>7 DEF Next
  <1> QED
    BY InvInit, <1>1, PTL DEF Spec

\* The type invariant of the chat, its events and its room (client.go:329-578).
THEOREM PortalTypes == Spec => []TypeOK
  <1>1. Inv => TypeOK
    BY DEF Inv, Typed
  <1> QED
    BY PortalInvariant, <1>1, PTL

\* Once all is handled the members of the room are those of the chat, but for
\* known losses (client.go:148-182, 479-509, 528-531).
THEOREM MembersComeThrough == Spec => []MembersMirrored
  <1>1. Inv => MembersMirrored
    <2> SUFFICES ASSUME Inv, Settled, NEW u \in Users \ {Self}, Member(u) \notin lost
                 PROVE  room[Member(u)] = chat[Member(u)]
      BY DEF MembersMirrored
    <2>1. Member(u) \in Details /\ Member(u) # Name
      BY SubjectKinds
    <2>2. Member(u) \notin Pending /\ ~IsUnread(Member(u)) /\ created
      BY DEF Settled, Pending, IsUnread
    <2> QED
      BY <2>1, <2>2 DEF Inv, RoomCarry, Shows
  <1> QED
    BY PortalInvariant, <1>1, PTL

\* And so are its name and its avatar (client.go:511-578, messages.go:117-148).
THEOREM DetailsComeThrough == Spec => []DetailsMirrored
  <1>1. Inv => DetailsMirrored
    <2> SUFFICES ASSUME Inv, Settled PROVE DetailsMirrored
      BY DEF DetailsMirrored
    <2>1. Name \in Details /\ Avatar \in Details /\ Avatar # Name
      BY SubjectKinds
    <2>2. created /\ \A s : s \notin Pending /\ ~IsUnread(s)
      BY DEF Settled, Pending, IsUnread
    <2>3. (Name \notin lost => Shows(Name)) /\ (Avatar \notin lost => Shows(Avatar))
      BY <2>1, <2>2 DEF Inv, RoomCarry
    <2> QED
      BY <2>1, <2>3 DEF DetailsMirrored, Shows
  <1> QED
    BY PortalInvariant, <1>1, PTL

\* Of a message: its row is current, its announcement comes first, and its newest
\* change is unread, last in the queue, shown, or known to be lost
\* (client.go:361-416, 463-477).
THEOREM MessagesInvariant == Spec => []MessagesInv
  <1>1. MessagesInv /\ Inv /\ [Next]_vars => MessagesInv'
    <2> SUFFICES ASSUME MessagesInv, Inv, [Next]_vars PROVE MessagesInv'
      OBVIOUS
    <2>1. Typed
      BY DEF Inv
    <2>2. CASE App
      BY <2>2, MessagesApp
    <2>3. CASE Read
      BY <2>1, <2>3, MessagesRead
    <2>4. CASE HandleInRoom \/ CreateRoom
      BY <2>1, <2>4, MessagesHandled
    <2>5. CASE DropEvent
      BY <2>1, <2>5, MessagesDropped
    <2>6. CASE Crash
      BY <2>1, <2>6, MessagesCrash
    <2>7. CASE UNCHANGED vars
      <3>1. UNCHANGED <<chat, stamp, unread, queue, created, room, announced, missing, lost>>
        BY <2>7 DEF vars, appVars, history
      <3> QED
        BY <3>1 DEF MessagesInv, RowsCurrent, MessageRow, EventsTell, NotAhead, Unannounced, Announced,
           Coming, Current, HasNew, IsNewOf, IsLast, IsUnread, Pending, Right
    <2> QED
      BY <2>2, <2>3, <2>4, <2>5, <2>6, <2>7 DEF Next
  <1> QED
    BY PortalInvariant, MessagesInit, <1>1, PTL DEF Spec

\* So messages come through in their newest version, but for known losses.
THEOREM MessagesComeThrough == Spec => []MessagesMirrored
  <1>1. MessagesInv => MessagesMirrored
    <2> SUFFICES ASSUME MessagesInv, Settled, NEW m \in Messages \ missing, Text(m) \notin lost PROVE Right(m)
      BY DEF MessagesMirrored, Right
    <2>1. Text(m) \notin Pending /\ ~IsUnread(Text(m))
      BY DEF Settled, Pending, IsUnread
    <2> QED
      BY <2>1 DEF MessagesInv, Current
  <1> QED
    BY MessagesInvariant, <1>1, PTL

\* The newest reaction of a user comes behind the announcement of its message,
\* so it reaches a room that shows it (client.go:329-359).
THEOREM ReactionsInvariant == Spec => []ReactionsInv
  <1>1. ReactionsInv /\ MessagesInv /\ Inv /\ [Next]_vars => ReactionsInv'
    <2> SUFFICES ASSUME ReactionsInv, MessagesInv, Inv, [Next]_vars PROVE ReactionsInv'
      OBVIOUS
    <2>1. Typed
      BY DEF Inv
    <2>2. CASE App
      BY <2>2, ReactionsApp
    <2>3. CASE Read
      BY <2>1, <2>3, ReactionsRead
    <2>4. CASE HandleInRoom \/ CreateRoom
      BY <2>4, ReactionsHandled
    <2>5. CASE DropEvent
      BY <2>1, <2>5, ReactionsDropped
    <2>6. CASE Crash
      BY <2>1, <2>6, ReactionsCrash
    <2>7. CASE UNCHANGED vars
      <3>1. UNCHANGED <<chat, unread, queue, room, announced, missing, lost>>
        BY <2>7 DEF vars, appVars, history
      <3> QED
        BY <3>1 DEF ReactionsInv, Missed, Reacted, Behind, Unshown, ReactionCarry, HasNew, IsNewOf,
           IsLast, IsUnread, Pending
    <2> QED
      BY <2>2, <2>3, <2>4, <2>5, <2>6, <2>7 DEF Next
  <1> QED
    BY PortalInvariant, MessagesInvariant, ReactionsInit, <1>1, PTL DEF Spec

\* So the reactions of shown messages are those of the chat, but for known
\* losses (client.go:329-359).
THEOREM ReactionsComeThrough == Spec => []ReactionsMirrored
  <1>1. ReactionsInv => ReactionsMirrored
    <2> SUFFICES ASSUME ReactionsInv, Settled, NEW m \in Messages, NEW u \in Reacting,
                        room[Text(m)] \in Texts, Reaction(m, u) \notin lost
                 PROVE  room[Reaction(m, u)] = chat[Reaction(m, u)]
      BY DEF ReactionsMirrored
    <2>1. Reaction(m, u) \notin Pending /\ ~IsUnread(Reaction(m, u))
      BY DEF Settled, Pending, IsUnread
    <2>2. m \notin missing
      BY DEF ReactionsInv, Missed, Texts
    <2> QED
      BY <2>1, <2>2 DEF ReactionsInv, ReactionCarry
  <1> QED
    BY ReactionsInvariant, <1>1, PTL

\* The portal implements MessageFeed: no step of it shows a message twice, goes
\* back to an older version, or brings back what was taken back
\* (client.go:361-416, 463-477).
THEOREM RoomIsFeed == Spec => RoomFeeds
  <1>1. Init => Feed!Init
    <2> SUFFICES ASSUME Init, NEW m \in Messages PROVE chat[Text(m)] = "none" /\ room[Text(m)] = "none"
      BY VersionKinds DEF Feed!Init
    <2>1. MessagesInv
      BY MessagesInit
    <2>2. unread = {} /\ announced = {} /\ missing = {}
      BY DEF Init
    <2> QED
      BY <2>1, <2>2 DEF MessagesInv, Unannounced, IsUnread
  <1>2. Ordered /\ MessagesInv /\ Inv /\ [Next]_vars => Ordered'
    BY OrderedStep
  <1>3. Ordered /\ MessagesInv /\ Inv /\ Inv' /\ [Next]_vars => [Feed!Next]_(Feed!feedVars)
    BY PortalFeedStep DEF inChat, inRoom, inCount, Feed!feedVars
  <1> QED
    BY OrderedInit, PortalInvariant, MessagesInvariant, <1>1, <1>2, <1>3, PTL DEF Spec, RoomFeeds, Feed!Spec

\* With portal IDs as they are made (utilities.go:29, client.go:284-289), which
\* are no chat GUID, a chat without a room never gets one (client.go:148-182),
\* and every message of it that is read, or was to be read, is lost.
THEOREM PrefixedChatsAreLost ==
    ASSUME PrefixedIDs, Guid # <<"MessagesID", Login, Guid>>
    PROVE  Spec /\ ~created =>
             [](/\ ~created
                /\ unread = {} /\ queue = <<>> =>
                    \A m \in Messages : chat[Text(m)] = "none" \/ m \in missing)
  <1>1. ~ChatInfoFits
    BY DEF ChatInfoFits, ChatDetails, ChatFound, PortalID
  <1>2. ~created /\ [Next]_vars => ~created'
    <2>1. App => UNCHANGED created
      BY DEF App, Join, RemoveUser, Leave, Rename, SetAvatar, RemoveAvatar, React, Send, Edit, Retract,
         Write, WriteText, AppLeaves
    <2>2. ~CreateRoom
      BY <1>1 DEF CreateRoom
    <2> QED
      BY <2>1, <2>2 DEF Next, Read, HandleInRoom, DropEvent, Crash, vars
  <1>3. ASSUME ~created, MessagesInv, unread = {}, queue = <<>>, NEW m \in Messages
        PROVE  chat[Text(m)] = "none" \/ m \in missing
    <2>1. room[Text(m)] = "none"
      BY <1>3 DEF MessagesInv, NotAhead
    <2>2. ~HasNew(m) /\ ~IsUnread(Text(m))
      BY <1>3 DEF HasNew, IsUnread
    <2>3. m \in announced => m \in missing
      BY <1>3, <2>1, <2>2 DEF MessagesInv, Coming
    <2>4. m \in announced \/ m \in missing \/ chat[Text(m)] = "none"
      BY <1>3, <2>2 DEF MessagesInv, Unannounced
    <2> QED
      BY <2>3, <2>4
  <1>4. ~created /\ MessagesInv =>
            (unread = {} /\ queue = <<>> =>
                \A m \in Messages : chat[Text(m)] = "none" \/ m \in missing)
    BY <1>3
  <1> QED
    BY <1>2, <1>4, MessagesInvariant, PTL DEF Spec

=============================================================================
