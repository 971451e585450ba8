------------------------------- MODULE Portal -------------------------------
(***************************************************************************)
(* One chat and its room on Matrix.  What happens in the chat is a row of  *)
(* chat.db; the watcher reads the rows it has not read (messages.go,       *)
(* modelled in Watcher); HandleiMessage turns each into a remote event;    *)
(* the portal handles its events in order and, when an event asks for a    *)
(* room that is not there, has one made from GetChatInfo, which reads      *)
(* chat.db as it is by then.                                               *)
(*                                                                         *)
(* A chat is a value for each of its subjects: is a user a member, the     *)
(* name, the avatar, the text of a message, the reaction of a user to a    *)
(* message.  The room shows a value for the same subjects.                 *)
(***************************************************************************)
EXTENDS Integers, SequencesExt

CONSTANTS
    Users,       \* the handles of the chat
    Mail,        \* those that are no telephone number
    Self,        \* the user of the bridge
    Reacting,    \* those whose reactions are considered
    NoUser,      \* the user ID ""
    Messages,    \* messages of the chat
    Guid,        \* chat.guid
    Login,       \* UserLogin.ID
    Topics,      \* sets of kinds of subjects the app may change together
    MaxChanges,  \* bound on the rows the app writes
    MaxQueue,    \* bound on the events of the portal
    Contacts,    \* "others", "self" when the own card has a number, or "none"
    PrefixedIDs  \* are portals asked for by MakeMessagesPortalID?

ASSUME PortalAssumption ==
    /\ MaxChanges \in Nat /\ MaxQueue \in Nat /\ IsFiniteSet(Messages)
    /\ Mail \subseteq Users /\ Reacting \subseteq Users /\ Self \in Users \ Mail /\ NoUser \notin Users
    /\ Contacts \in {"others", "self", "none"} /\ PrefixedIDs \in BOOLEAN

VARIABLES
    topic,     \* which kinds of subjects change in this behaviour
    chat,      \* the chat as chat.db has it
    changes,   \* rows written
    stamp,     \* when each message changed last
    unread,    \* rows not read yet
    queue,     \* remote events of the portal
    created,   \* has the portal a room?
    room,      \* what the room shows
    announced, \* messages queued as new (history)
    missing,   \* messages that never came to the room, for a known reason
    lost       \* subjects whose newest change is known to be lost

appVars == <<topic, chat, changes, stamp>>
history == <<announced, missing, lost>>
vars == <<appVars, unread, queue, created, room, history>>

-----------------------------------------------------------------------------
(* Subjects and rows                                                       *)

Member(u) == <<"member", u>>
Name == <<"name", Guid>>
Avatar == <<"avatar", Guid>>
Text(m) == <<"message", m>>
Reaction(m, u) == <<"tapback", <<m, u>>>>

MemberSubjects == {Member(u) : u \in Users}
InfoSubjects == MemberSubjects \cup {Name, Avatar}
Subjects == InfoSubjects \cup {Text(m) : m \in Messages}
            \cup {Reaction(m, u) : m \in Messages, u \in Reacting}

Texts == {"sent", "edited", "reedited"}
Emoji == {"love", "like"}

\* "unnamed" is the empty display name.
Values(s) ==
    CASE s \in MemberSubjects -> {"in", "out"}
      [] s = Name             -> {"unnamed", "named", "chatID"}
      [] s = Avatar           -> {"never", "set", "removed"}
      [] s[1] = "message"     -> {"none", "gone"} \cup Texts
      [] s[1] = "tapback"     -> {"none"} \cup Emoji

\* A row: its item and action types, who sent it, whom or which message it is
\* about, and its value; nr tells the order in which rows were changed.
MessageRow(m) == [item |-> "message", action |-> 0, sender |-> Self, target |-> m,
                  value |-> chat[Text(m)], nr |-> stamp[m]]
Retracted(r) == r.item = "message" /\ r.value = "gone"

Blank == [s \in Subjects |-> IF s \in MemberSubjects THEN "out"
                             ELSE IF s = Name THEN "unnamed" ELSE IF s = Avatar THEN "never" ELSE "none"]

\* The room of an earlier run of the bridge shows the chat as it is.
Init ==
    /\ topic \in Topics
    /\ \E M \in SUBSET (Users \ {Self}) :
        chat = [s \in Subjects |-> IF s \in {Member(u) : u \in M \cup {Self}} THEN "in" ELSE Blank[s]]
    /\ changes = 0 /\ stamp = [m \in Messages |-> 0]
    /\ unread = {} /\ queue = <<>>
    /\ created \in BOOLEAN
    /\ room = IF created THEN chat ELSE Blank
    /\ announced = {} /\ missing = {} /\ lost = {}

-----------------------------------------------------------------------------
(* The Messages app (external)                                             *)

AppLeaves == UNCHANGED <<topic, queue, created, room, history>>

\* A change of the chat that is a row of its own.
Write(s, v, item, action, sender, target) ==
    /\ changes < MaxChanges /\ s[1] \in topic
    /\ chat' = [chat EXCEPT ![s] = v]
    /\ changes' = changes + 1
    /\ unread' = unread \cup {[item |-> item, action |-> action, sender |-> sender,
                               target |-> target, value |-> v, nr |-> changes + 1]}
    /\ UNCHANGED stamp /\ AppLeaves

Join(u) == chat[Member(u)] = "out" /\ Write(Member(u), "in", "member", 0, Self, u)
RemoveUser(u) == u # Self /\ chat[Member(u)] = "in" /\ Write(Member(u), "out", "member", 1, Self, u)
Leave(u) == chat[Member(u)] = "in" /\ Write(Member(u), "out", "avatar", 0, u, NoUser)
Rename == \E n \in {"unnamed", "named"} \ {chat[Name]} : Write(Name, n, "name", 0, Self, NoUser)
SetAvatar == chat[Avatar] # "set" /\ Write(Avatar, "set", "avatar", 1, Self, NoUser)
RemoveAvatar == chat[Avatar] = "set" /\ Write(Avatar, "removed", "avatar", 2, Self, NoUser)
React(m, u) ==
    /\ chat[Text(m)] \in Texts
    /\ \E v \in ({"none"} \cup Emoji) \ {chat[Reaction(m, u)]} :
        Write(Reaction(m, u), v, "tapback", 0, u, m)

\* A change of the row of a message: only its newest version can be read.
WriteText(m, v) ==
    /\ changes < MaxChanges /\ "message" \in topic
    /\ chat' = [chat EXCEPT ![Text(m)] = v]
    /\ changes' = changes + 1
    /\ stamp' = [stamp EXCEPT ![m] = changes + 1]
    /\ unread' = (unread \ {MessageRow(m)}) \cup {MessageRow(m)'}
    /\ AppLeaves

Send(m) == chat[Text(m)] = "none" /\ WriteText(m, "sent")
Edit(m) == \/ chat[Text(m)] = "sent" /\ WriteText(m, "edited")
           \/ chat[Text(m)] = "edited" /\ WriteText(m, "reedited")
Retract(m) == chat[Text(m)] \in Texts /\ WriteText(m, "gone")

-----------------------------------------------------------------------------
(* Rows become remote events                                               *)

Event(type, s, v) == [type |-> type, subject |-> s, value |-> v]

\* Mutant: a removal is one more reaction.
HandleTapback_KeepsRemoved(r) ==
    Event("reaction", Reaction(r.target, r.sender), IF r.value = "none" THEN "love" ELSE r.value)

\* All reactions of the sender: none, or the one.  The users are told apart as
\* senders of tapbacks are: by service and handle, or "" for the own ones.
HandleTapback(r) == Event("reaction", Reaction(r.target, r.sender), r.value)

\* Mutant: a retraction is not looked at.
HandleMessage_NoRetraction(r) ==
    IF r.item = "tapback" THEN HandleTapback(r)
    ELSE IF r.value \in {"edited", "reedited"} THEN Event("edit", Text(r.target), r.value)
    ELSE Event("message", Text(r.target), r.value)

\* Mutant: a message with a date_edited is taken for one with a date_retracted.
HandleMessage_EditsRetract(r) ==
    IF r.item = "tapback" THEN HandleTapback(r)
    ELSE IF r.value # "sent" THEN Event("remove", Text(r.target), r.value)
    ELSE Event("message", Text(r.target), r.value)

HandleMessage(r) ==
    IF r.item = "tapback" THEN HandleTapback(r)
    ELSE IF Retracted(r) THEN Event("remove", Text(r.target), r.value)
    ELSE IF r.value # "sent" THEN Event("edit", Text(r.target), r.value)
    ELSE Event("message", Text(r.target), r.value)

HandleMember(r) == Event("info", Member(r.target), IF r.action = 1 THEN "out" ELSE "in")

HandleName(r) == Event("info", Name, r.value)

\* parseMessages clears the handle of what the user of the bridge sent.
SenderLocalID(r) == IF r.sender = Self THEN NoUser ELSE r.sender

\* Mutant: the values of GroupActionType are one off.
HandleAvatarOrMemberLeave_Shifted(r) ==
    CASE r.action = 0 -> Event("info", Member(SenderLocalID(r)), "out")
      [] r.action = 1 -> Event("info", Avatar, "removed")
      [] r.action = 2 -> Event("info", Avatar, "set")

\* Mutant: the change of the name, copied for the avatar.
HandleAvatarOrMemberLeave_Name(r) ==
    CASE r.action = 0 -> Event("info", Member(SenderLocalID(r)), "out")
      [] r.action = 1 -> Event("info", Name, "set")
      [] r.action = 2 -> Event("info", Name, "removed")

HandleAvatarOrMemberLeave(r) ==
    CASE r.action = 0 -> Event("info", Member(SenderLocalID(r)), "out")
      [] r.action = 1 -> Event("info", Avatar, "set")
      [] r.action = 2 -> Event("info", Avatar, "removed")

HandleiMessage(r) ==
    CASE r.item \in {"message", "tapback"} -> HandleMessage(r)
      [] r.item = "member"                 -> HandleMember(r)
      [] r.item = "name"                   -> HandleName(r)
      [] r.item = "avatar"                 -> HandleAvatarOrMemberLeave(r)

\* A batch comes in any order but for retracted messages, which come last and
\* in their order (MessagesNewerThanQuery, and Key of Watcher).
InKeyOrder(o) == \A i, j \in DOMAIN o :
    i < j /\ Retracted(o[i]) => Retracted(o[j]) /\ o[i].nr <= o[j].nr

\* Messages read when they were already changed: their first event is no new
\* message.
ReadLate(o) == {o[i].target : i \in {k \in DOMAIN o : o[k].item = "message" /\ o[k].value # "sent"}}
               \ announced
ReadNew(o) == {o[i].target : i \in {k \in DOMAIN o : o[k].item = "message" /\ o[k].value = "sent"}}

SubjectOf(r) == HandleiMessage(r).subject

\* What the order of a batch loses: the newest change of a subject is not its
\* last, or a reaction comes before its message.
Disordered(o) ==
    {SubjectOf(o[i]) : i \in {k \in DOMAIN o : \E j \in DOMAIN o :
        \/ /\ SubjectOf(o[j]) = SubjectOf(o[k]) /\ j < k /\ o[j].nr > o[k].nr
        \/ /\ o[k].item = "tapback" /\ k < j
           /\ o[j].item = "message" /\ o[j].target = o[k].target}} \cap Subjects

\* A pass reads what is unread, and with it any message changed after it was
\* sent: such a row stays newer than the watermark.
Read ==
    /\ \E A \in SUBSET {m \in Messages : chat[Text(m)] \in {"edited", "reedited", "gone"}} :
        LET rows == unread \cup {MessageRow(m) : m \in A} IN
        /\ rows # {} /\ Len(queue) + Cardinality(rows) <= MaxQueue
        /\ \E o \in SetToSeqs(rows) :
            /\ InKeyOrder(o)
            /\ queue' = queue \o [i \in DOMAIN o |-> HandleiMessage(o[i])]
            /\ announced' = announced \cup ReadNew(o)
            /\ missing' = missing \cup ReadLate(o)
            /\ lost' = (lost \ {SubjectOf(r) : r \in rows}) \cup Disordered(o)
    /\ unread' = {}
    /\ UNCHANGED <<appVars, created, room>>

-----------------------------------------------------------------------------
(* The portal                                                              *)

CreatesPortal(e) == e.type \in {"message", "edit"}

\* MakeMessagesPortalID.
PortalID == IF PrefixedIDs THEN <<"MessagesID", Login, Guid>> ELSE Guid

\* ChatQuery and GroupMemberQuery select by chat.guid.
ChatFound(id) == id = Guid

\* GetChatDetails: the row of the chat, and no row of a group avatar, as its
\* columns are scanned into values that are no pointers.
ChatDetails(id) == ChatFound(id) /\ chat[Avatar] = "never"

\* getGroupMembers: all handles have to be telephone numbers.
GroupMembers(id) == ChatFound(id) => \A u \in Mail : chat[Member(u)] = "out"

\* GetContactsMap finds somebody, and none of them is the user of the bridge,
\* whose UserInfo is nil.
ContactsFit == Contacts = "others"

\* GetChatInfo: may fail, or panic, which the framework catches.
ChatInfoFits == ChatDetails(PortalID) /\ GroupMembers(PortalID) /\ ContactsFit

\* Mutant: the members are those of the first time.
GetChatInfo_NoMembers ==
    [s \in Subjects |-> IF s = Member(Self) THEN "in"
                        ELSE IF s = Name THEN IF chat[Name] = "unnamed" THEN "chatID" ELSE chat[Name]
                        ELSE Blank[s]]

GetChatInfo ==
    [s \in Subjects |-> IF s \in MemberSubjects
                        THEN IF s = Member(Self) THEN "in" ELSE chat[s]
                        ELSE IF s = Name THEN IF chat[Name] = "unnamed" THEN "chatID" ELSE chat[Name]
                        ELSE Blank[s]]

\* The portal applies an event to the room R.  What is about a message it does
\* not know is dropped, and so is a message it knows.
Applied(R, e) ==
    CASE e.type = "info"     -> IF e.subject \in Subjects THEN [R EXCEPT ![e.subject] = e.value] ELSE R
      [] e.type = "message"  -> IF R[e.subject] = "none" THEN [R EXCEPT ![e.subject] = e.value] ELSE R
      [] e.type = "edit"     -> IF R[e.subject] \in Texts THEN [R EXCEPT ![e.subject] = e.value] ELSE R
      [] e.type = "remove"   -> IF R[e.subject] \in Texts THEN [R EXCEPT ![e.subject] = "gone"] ELSE R
      [] e.type = "reaction" -> IF R[Text(e.subject[2][1])] \in Texts
                                THEN [R EXCEPT ![e.subject] = e.value] ELSE R

Pending == {queue[i].subject : i \in DOMAIN queue}

HandleInRoom ==
    /\ queue # <<>> /\ created
    /\ room' = Applied(room, Head(queue))
    /\ queue' = Tail(queue)
    /\ UNCHANGED <<appVars, unread, created, history>>

\* The room is made from the chat of now.  That makes good what was lost of its
\* members and details, unless older changes are still queued.
CreateRoom ==
    /\ queue # <<>> /\ ~created /\ CreatesPortal(Head(queue)) /\ ChatInfoFits
    /\ created' = TRUE
    /\ room' = Applied(GetChatInfo, Head(queue))
    /\ lost' = lost \ (InfoSubjects \ Pending)
    /\ queue' = Tail(queue)
    /\ UNCHANGED <<appVars, unread, announced, missing>>

\* Without a room the event is dropped.
DropEvent ==
    /\ queue # <<>> /\ ~created
    /\ CreatesPortal(Head(queue)) => ~ChatInfoFits
    /\ missing' = IF Head(queue).type = "message" THEN missing \cup {Head(queue).subject[2]} ELSE missing
    /\ queue' = Tail(queue)
    /\ UNCHANGED <<appVars, unread, created, room, announced, lost>>

\* The process dies and starts again.  The watermark starts at the newest time
\* of chat.db: rows not read and events not handled are gone.
Crash ==
    /\ unread # {} \/ queue # <<>>
    /\ LET gone == Pending \cup {SubjectOf(r) : r \in unread} IN
        /\ lost' = lost \cup (gone \cap Subjects)
        /\ missing' = missing \cup {m \in Messages : Text(m) \in gone /\ room[Text(m)] = "none"}
    /\ unread' = {} /\ queue' = <<>>
    /\ UNCHANGED <<appVars, created, room, announced>>

-----------------------------------------------------------------------------

App == \/ \E u \in Users : Join(u) \/ RemoveUser(u) \/ Leave(u)
       \/ Rename \/ SetAvatar \/ RemoveAvatar
       \/ \E m \in Messages : Send(m) \/ Edit(m) \/ Retract(m) \/ \E u \in Reacting : React(m, u)

Next == App \/ Read \/ HandleInRoom \/ CreateRoom \/ DropEvent \/ Crash

Spec == Init /\ [][Next]_vars

-----------------------------------------------------------------------------
(* Properties                                                              *)

\* The type invariant: the chat and the room have a value of the right kind for
\* every subject, whatever event was about it.
TypeOK ==
    /\ topic \in Topics /\ changes \in 0 .. MaxChanges
    /\ \A s \in Subjects : chat[s] \in Values(s) /\ room[s] \in Values(s)
    /\ stamp \in [Messages -> 0 .. MaxChanges]
    /\ \A r \in unread : r.nr \in 1 .. changes
    /\ Len(queue) <= MaxQueue
    /\ created \in BOOLEAN
    /\ announced \subseteq Messages /\ missing \subseteq Messages /\ lost \subseteq Subjects

\* All has been read and handled, and the chat has its room.
Settled == created /\ unread = {} /\ queue = <<>>

\* The members of the room are those of the chat, whether they came by the
\* events of the members or with the room, except for changes in one batch
\* that came in the wrong order or were lost in a crash (client.go:503-509,
\* 528-531, 148-182).  Not so for the user of the bridge, whose own leave goes
\* to nobody (messages.go:410).
MembersMirrored ==
    Settled => \A u \in Users \ {Self} : Member(u) \notin lost => room[Member(u)] = chat[Member(u)]

\* The name and the avatar of the room are those of the chat.  A chat without a
\* name is shown without one or by its ID (client.go:511-578, messages.go:117).
DetailsMirrored ==
    Settled =>
        /\ Name \notin lost => \/ room[Name] = chat[Name]
                               \/ chat[Name] = "unnamed" /\ room[Name] = "chatID"
        /\ Avatar \notin lost => (room[Avatar] = "set" <=> chat[Avatar] = "set")

\* Messages are shown in their newest version, and taken back with the original.
\* One is missing only when it was changed before it was read, when the chat
\* information failed, or when the process died (client.go:463-477).
MessagesMirrored ==
    Settled => \A m \in Messages \ missing :
        Text(m) \notin lost =>
            IF chat[Text(m)] \in Texts THEN room[Text(m)] = chat[Text(m)]
                                       ELSE room[Text(m)] \notin Texts

\* Reactions of shown messages are those of the chat, except for one that came
\* in the batch of its message and before it (client.go:329-359).
ReactionsMirrored ==
    Settled => \A m \in Messages, u \in Reacting :
        (room[Text(m)] \in Texts /\ Reaction(m, u) \notin lost)
            => room[Reaction(m, u)] = chat[Reaction(m, u)]

\* "chatID := networkid.PortalID(ID)" (test/main.go): when a room is to be made,
\* the chat is looked up by an ID it can be found with.
ChatInfoFound ==
    (queue # <<>> /\ ~created /\ CreatesPortal(Head(queue))) => ChatFound(PortalID)

\* The versions of a message, in the order it goes through them.
Version(v) == CASE v = "none" -> 0 [] v = "sent" -> 1 [] v = "edited" -> 2 [] v = "reedited" -> 3
                [] v = "gone" -> 4

Feed == INSTANCE MessageFeed WITH
    Rows <- Messages,
    stamp <- [m \in Messages |-> Version(chat[Text(m)])],
    shown <- [m \in Messages |-> Version(room[Text(m)])],
    newCount <- [m \in Messages |-> IF room[Text(m)] = "none" THEN 0 ELSE 1]

\* The room implements the feed of MessageFeed, end to end: a message appears
\* once, what is shown of it did happen, and no step goes back to an older
\* version, brings back what was taken back, or shows more than the chat has,
\* although rows are read again and the room is made late (client.go:361-416,
\* 463-477).
RoomFeeds == Feed!Spec

=============================================================================
