------------------------------ MODULE Watcher ------------------------------
(***************************************************************************)
(* The read side of the bridge: pkg/connector/client.go from the call of   *)
(* watchMessagesDBFile on, with the queries of pkg/macos/messages.go it    *)
(* runs.  The Messages app writes chat.db; every write raises a file       *)
(* system event; the watch loop starts one goroutine (a "pass") per event  *)
(* it does not drop; a pass reads what is newer than a watermark and hands *)
(* it over, one item at a time, to handleMessagesLoop, which queues it for *)
(* Matrix.                                                                 *)
(*                                                                         *)
(* A row of chat.db is abstracted to its times (0: not set), its is_sent   *)
(* flag and whether parseMessages can decode it.  A change of a row is     *)
(* named by its stamp, the newest of its date, date_edited, date_retracted.*)
(***************************************************************************)
EXTENDS Integers

CONSTANTS
    Rows,        \* messages the app may write
    Handlers,    \* goroutines the watch loop may have alive at once
    Nobody,      \* the value of an unlocked handleLock
    MaxTime,     \* bound on the clock of chat.db
    MaxEvents,   \* bound on pending file system events: more are coalesced
    History,     \* newest stamp of chat.db when the bridge first starts
    OwnInGroup,  \* rows sent by the user to a group (no receipt is reported)
    Moves        \* which environment moves and faults are considered

ASSUME WatcherAssumption ==
    /\ MaxTime \in Nat
    /\ MaxEvents \in Nat \ {0}
    /\ History \in 1 .. MaxTime
    /\ OwnInGroup \subseteq Rows
    /\ Nobody \notin Handlers

VARIABLES
    db,          \* chat.db: a record per row
    fsEvents,    \* events waiting in watcher.Events
    watch,       \* is watchMessagesDBFile in its loop?
    skipEvents,  \* the unsynchronised flag: "clearing" when false was stored
                 \* by a pass but the watch loop may still read true
    pc,          \* where each goroutine is
    lock,        \* who holds handleLock
    maxTs,       \* maxMessagesTimestamp, the watermark
    nonSent,     \* nonSentMessages
    minReceipt,  \* minReceiptTime
    batch,       \* newMessages of each goroutine, what is left of it
    rbatch,      \* latestReadReceipts of each goroutine, what is left of it
    loop,        \* is handleMessagesLoop in its loop?
    hand,        \* the item handleMessagesLoop has received, if any
    stopWatch,   \* tokens in MessagesDBWatcherStopChannel
    stopLoop,    \* tokens in HandleMessagesStopChannel
    disc,        \* how far Disconnect is
    startTs,     \* the watermark this process started with
    startRead,   \* the receipt time this process started with
    shown,       \* stamp of the newest change of a row queued for Matrix
    newCount,    \* how often a row was queued as a new message
    acked,       \* the read receipt queued for a row
    reportedUnsent, \* rows whose newest handed over version was not sent
    owed,        \* an event was dropped, or a read failed, since the last
                 \* complete read
    excused      \* rows each known loss applies to, by kind of loss

dbVars    == <<db, fsEvents>>
watchVars == <<watch, skipEvents, stopWatch>>
passVars  == <<pc, lock, maxTs, nonSent, minReceipt, batch, rbatch>>
loopVars  == <<loop, hand, stopLoop>>
outVars   == <<shown, newCount, acked>>
ghostVars == <<reportedUnsent, owed, excused>>
startVars == <<startTs, startRead>>
vars == <<dbVars, watchVars, passVars, loopVars, disc, startVars, outVars, ghostVars>>

-----------------------------------------------------------------------------
(* Data                                                                    *)

Times == 0 .. MaxTime
Flaws == {"none", "undecodable", "tapback"}
Row == [date : Times, edited : Times, retracted : Times, read : Times,
        sent : BOOLEAN, flaw : Flaws]
Snapshot == [row : Rows, date : Times, edited : Times, retracted : Times, sent : BOOLEAN]
Receipt == [row : Rows, at : Times]
Losses == {"late", "cut", "heldBack", "lateRead", "cutRead"}

\* A row the app has not written yet.
Absent == [date |-> 0, edited |-> 0, retracted |-> 0, read |-> 0,
           sent |-> FALSE, flaw |-> "none"]

Later(a, b) == IF a < b THEN b ELSE a
Stamp(m) == Later(m.date, Later(m.edited, m.retracted))

\* The version of row r that a query returns.
SnapshotOf(r) == [row |-> r, date |-> db[r].date, edited |-> db[r].edited,
                  retracted |-> db[r].retracted, sent |-> db[r].sent]

\* HandleMessage queues a snapshot as a new message, not as an edit or removal.
IsNew(s) == s.edited = 0 /\ s.retracted = 0

\* The sort key of MessagesNewerThanQuery: COALESCE only falls through on NULL,
\* and the columns of rows never retracted hold 0, so the key is date_retracted.
Key(m) == m.retracted

\* What GetMaxMessagesTime ranges over, and the same with the read times.
AllStamps == {History} \cup UNION {{db[r].date, db[r].edited, db[r].retracted} : r \in Rows}
AllTimes == AllStamps \cup {db[r].read : r \in Rows}
Newest(t, S) == t \in S /\ \A s \in S : s <= t

\* The app stamps a change with its clock, or with an older time when the
\* change comes from another device ("late").
Stamped(t) ==
    /\ t \in 1 .. MaxTime
    /\ \/ \E now \in AllTimes : Newest(now, AllTimes) /\ t = now + 1
       \/ "late" \in Moves

\* A time that no read so far can have moved the watermark past.
InOrder(t) == startTs < t /\ \A r \in Rows : db[r].date < t
InOrderRead(t) == startRead < t /\ \A r \in Rows : db[r].read < t

Init ==
    /\ db = [r \in Rows |-> Absent]
    /\ fsEvents = 0
    /\ watch = "running" /\ skipEvents = "clear" /\ stopWatch = 0
    /\ pc = [h \in Handlers |-> "idle"]
    /\ lock = Nobody
    /\ maxTs = History /\ nonSent = {} /\ minReceipt = History
    /\ batch = [h \in Handlers |-> {}]
    /\ rbatch = [h \in Handlers |-> {}]
    /\ loop = "running" /\ hand = {} /\ stopLoop = 0
    /\ disc = "no"
    /\ startTs = History /\ startRead = History
    /\ shown = [r \in Rows |-> 0]
    /\ newCount = [r \in Rows |-> 0]
    /\ acked = [r \in Rows |-> 0]
    /\ reportedUnsent = {} /\ owed = FALSE
    /\ excused = [l \in Losses |-> {}]

-----------------------------------------------------------------------------
(* The Messages app (external)                                             *)

Raised == IF fsEvents < MaxEvents THEN fsEvents + 1 ELSE fsEvents

AppLeaves == UNCHANGED <<watchVars, passVars, loopVars, disc, startVars, outVars,
                         reportedUnsent, owed>>

\* The app commits version m of row r; t is the time it put on the change.  A
\* change in order supersedes what earlier losses excused.
Commit(r, m, t) ==
    /\ db' = [db EXCEPT ![r] = m]
    /\ fsEvents' = Raised
    /\ excused' = IF InOrder(t)
                  THEN [excused EXCEPT !["late"] = @ \ {r}, !["cut"] = @ \ {r},
                                       !["heldBack"] = @ \ {r}]
                  ELSE [excused EXCEPT !["late"] = @ \cup {r}]
    /\ AppLeaves

Insert(r) ==
    /\ db[r].date = 0
    /\ \E t \in 1 .. MaxTime, sent \in BOOLEAN, flaw \in Flaws :
        /\ Stamped(t)
        /\ sent \/ "unsent" \in Moves
        /\ flaw = "none" \/ flaw \in Moves
        /\ Commit(r, [Absent EXCEPT !.date = t, !.sent = sent, !.flaw = flaw], t)

Edit(r) ==
    /\ "edit" \in Moves
    /\ db[r].date # 0 /\ db[r].retracted = 0
    /\ \E t \in 1 .. MaxTime, flaw \in {db[r].flaw, "undecodable"} :
        /\ Stamped(t) /\ db[r].edited < t
        /\ flaw = db[r].flaw \/ flaw \in Moves
        /\ Commit(r, [db[r] EXCEPT !.edited = t, !.flaw = flaw], t)

Retract(r) ==
    /\ "retract" \in Moves
    /\ db[r].date # 0 /\ db[r].retracted = 0
    /\ \E t \in 1 .. MaxTime :
        /\ Stamped(t)
        /\ Commit(r, [db[r] EXCEPT !.retracted = t], t)

\* The server confirms a message: is_sent is set, no time changes.
MarkSent(r) ==
    /\ db[r].date # 0 /\ ~db[r].sent
    /\ db' = [db EXCEPT ![r].sent = TRUE]
    /\ fsEvents' = Raised
    /\ UNCHANGED excused
    /\ AppLeaves

MarkRead(r) ==
    /\ "read" \in Moves
    /\ db[r].date # 0 /\ db[r].read = 0
    /\ \E t \in 1 .. MaxTime :
        /\ Stamped(t)
        /\ db' = [db EXCEPT ![r].read = t]
        /\ excused' = IF InOrderRead(t) THEN excused
                      ELSE [excused EXCEPT !["lateRead"] = @ \cup {r}]
    /\ fsEvents' = Raised
    /\ AppLeaves

\* Any other write to the watched directory.
Touch ==
    /\ "touch" \in Moves
    /\ fsEvents' = Raised
    /\ UNCHANGED <<db, excused>>
    /\ AppLeaves

-----------------------------------------------------------------------------
(* The watch loop                                                          *)

\* Mutant: the ok of the receive is not looked at.
SpawnPass_ClosedChannel(h) ==
    /\ watch = "running" /\ pc[h] = "idle"
    /\ skipEvents # "set"
    /\ fsEvents' = fsEvents - 1
    /\ skipEvents' = "set"
    /\ pc' = [pc EXCEPT ![h] = "lock"]
    /\ UNCHANGED <<db, watch, stopWatch, lock, maxTs, nonSent, minReceipt, batch, rbatch,
                   loopVars, disc, startVars, outVars, ghostVars>>

\* Mutant: one goroutine per event.
SpawnPass_NoFlag(h) ==
    /\ watch = "running" /\ fsEvents > 0 /\ pc[h] = "idle"
    /\ fsEvents' = fsEvents - 1
    /\ skipEvents' = "set"
    /\ pc' = [pc EXCEPT ![h] = "lock"]
    /\ UNCHANGED <<db, watch, stopWatch, lock, maxTs, nonSent, minReceipt, batch, rbatch,
                   loopVars, disc, startVars, outVars, ghostVars>>

SpawnPass(h) ==
    /\ watch = "running" /\ fsEvents > 0 /\ pc[h] = "idle"
    /\ skipEvents # "set"
    /\ fsEvents' = fsEvents - 1
    /\ skipEvents' = "set"
    /\ pc' = [pc EXCEPT ![h] = "lock"]
    /\ UNCHANGED <<db, watch, stopWatch, lock, maxTs, nonSent, minReceipt, batch, rbatch,
                   loopVars, disc, startVars, outVars, ghostVars>>

\* The event is consumed and forgotten.
SkipEvent ==
    /\ watch = "running" /\ fsEvents > 0
    /\ skipEvents # "clear"
    /\ fsEvents' = fsEvents - 1
    /\ owed' = TRUE
    /\ UNCHANGED <<db, watchVars, passVars, loopVars, disc, startVars, outVars,
                   reportedUnsent, excused>>

\* The store of false by a pass reaches the watch loop.
StoreVisible ==
    /\ skipEvents = "clearing"
    /\ skipEvents' = "clear"
    /\ UNCHANGED <<dbVars, watch, stopWatch, passVars, loopVars, disc, startVars,
                   outVars, ghostVars>>

StopWatching ==
    /\ watch = "running" /\ stopWatch > 0
    /\ watch' = "stopped"
    /\ stopWatch' = stopWatch - 1
    /\ UNCHANGED <<dbVars, skipEvents, passVars, loopVars, disc, startVars, outVars, ghostVars>>

\* An error of fsnotify ends the loop; nothing starts it again.
WatcherError ==
    /\ "watcherError" \in Moves /\ watch = "running"
    /\ watch' = "stopped"
    /\ UNCHANGED <<dbVars, skipEvents, stopWatch, passVars, loopVars, disc, startVars,
                   outVars, ghostVars>>

-----------------------------------------------------------------------------
(* One pass: the goroutine started for an event                            *)

Lock(h) ==
    /\ pc[h] = "lock" /\ lock = Nobody
    /\ lock' = h
    /\ pc' = [pc EXCEPT ![h] = "query"]
    /\ UNCHANGED <<dbVars, watchVars, maxTs, nonSent, minReceipt, batch, rbatch, loopVars,
                   disc, startVars, outVars, ghostVars>>

\* Mutant: the query looks at message.date only.
DueMessages_DateOnly == {r \in Rows : db[r].date > maxTs}

\* MessagesNewerThanQuery.
DueMessages == {r \in Rows : \/ db[r].date > maxTs
                             \/ db[r].edited > maxTs
                             \/ db[r].retracted > maxTs}

\* The rows a query yields when its iteration ends after P: all of them, or,
\* as res.Err() is not looked at, those before an error.
Yields(P, due) ==
    /\ P \subseteq due
    /\ P = due \/ "truncated" \in Moves

\* P is a prefix of the rows due, in the order of the query.
InKeyOrder(P, due) == \A r \in P, q \in due \ P : Key(db[r]) <= Key(db[q])
MayBeLast(r, P) == r \in P /\ \A q \in P : Key(db[q]) <= Key(db[r])

\* parseMessages returns a nil error for P: every row decodes, and the row it
\* ends with has no tapback whose parse error stays in err.
Parses(P) ==
    /\ \A r \in P : db[r].flaw # "undecodable"
    /\ P = {} \/ \E r \in P : MayBeLast(r, P) /\ db[r].flaw # "tapback"
MayNotParse(P) ==
    \/ \E r \in P : db[r].flaw = "undecodable"
    \/ \E r \in P : MayBeLast(r, P) /\ db[r].flaw = "tapback"

\* Mutant: a row that does not decode is left out of the batch.
MessagesRead_Skips(h) ==
    /\ pc[h] = "query"
    /\ batch' = [batch EXCEPT ![h] =
                    {SnapshotOf(r) : r \in {q \in DueMessages : db[q].flaw = "none"}}]
    /\ owed' = FALSE
    /\ excused' = [excused EXCEPT !["cut"] = @ \ DueMessages]
    /\ pc' = [pc EXCEPT ![h] = "messages"]
    /\ UNCHANGED <<dbVars, watchVars, lock, maxTs, nonSent, minReceipt, rbatch, loopVars,
                   disc, startVars, outVars, reportedUnsent>>

MessagesRead(h) ==
    /\ pc[h] = "query"
    /\ \E P \in SUBSET DueMessages :
        /\ Yields(P, DueMessages) /\ InKeyOrder(P, DueMessages) /\ Parses(P)
        /\ batch' = [batch EXCEPT ![h] = {SnapshotOf(r) : r \in P}]
        /\ owed' = (owed /\ P # DueMessages)
        /\ excused' = [excused EXCEPT !["cut"] = (@ \ P) \cup (DueMessages \ P)]
    /\ pc' = [pc EXCEPT ![h] = "messages"]
    /\ UNCHANGED <<dbVars, watchVars, lock, maxTs, nonSent, minReceipt, rbatch, loopVars,
                   disc, startVars, outVars, reportedUnsent>>

\* Mutant: after a failed read the goroutine returns.
MessagesUnread_Returns(h) ==
    /\ pc[h] = "query"
    /\ \/ "readError" \in Moves
       \/ \E P \in SUBSET DueMessages :
            Yields(P, DueMessages) /\ InKeyOrder(P, DueMessages) /\ MayNotParse(P)
    /\ owed' = TRUE
    /\ pc' = [pc EXCEPT ![h] = "unlock"]
    /\ UNCHANGED <<dbVars, watchVars, lock, maxTs, nonSent, minReceipt, batch, rbatch,
                   loopVars, disc, startVars, outVars, reportedUnsent, excused>>

\* A failed query, or one row that fails, leaves the whole batch unread.
MessagesUnread(h) ==
    /\ pc[h] = "query"
    /\ \/ "readError" \in Moves
       \/ \E P \in SUBSET DueMessages :
            Yields(P, DueMessages) /\ InKeyOrder(P, DueMessages) /\ MayNotParse(P)
    /\ owed' = TRUE
    /\ pc' = [pc EXCEPT ![h] = "messages"]
    /\ UNCHANGED <<dbVars, watchVars, lock, maxTs, nonSent, minReceipt, batch, rbatch,
                   loopVars, disc, startVars, outVars, reportedUnsent, excused>>

\* The next message of the batch, in the order of the query.
IsNext(m, B) == m \in B /\ \A o \in B : Key(m) <= Key(o)

\* Mutant: the watermark is the date of the last message handed over.
HandOver_AnyDate(h) ==
    /\ pc[h] = "messages"
    /\ loop = "running" /\ hand = {}
    /\ \E m \in batch[h] :
        /\ IsNext(m, batch[h])
        /\ m.sent => m.row \notin nonSent
        /\ maxTs' = m.date
        /\ nonSent' = IF m.sent THEN nonSent ELSE nonSent \cup {m.row}
        /\ reportedUnsent' = IF m.sent THEN reportedUnsent \ {m.row}
                                       ELSE reportedUnsent \cup {m.row}
        /\ batch' = [batch EXCEPT ![h] = @ \ {m}]
        /\ hand' = {m}
    /\ UNCHANGED <<dbVars, watchVars, pc, lock, minReceipt, rbatch, loop, stopLoop, disc,
                   startVars, outVars, owed, excused>>

\* Mutant: the send does not wait for handleMessagesLoop.
HandOver_NonBlocking(h) ==
    /\ pc[h] = "messages"
    /\ \E m \in batch[h] :
        /\ IsNext(m, batch[h])
        /\ m.sent => m.row \notin nonSent
        /\ maxTs' = Later(maxTs, m.date)
        /\ nonSent' = IF m.sent THEN nonSent ELSE nonSent \cup {m.row}
        /\ reportedUnsent' = IF m.sent THEN reportedUnsent \ {m.row}
                                       ELSE reportedUnsent \cup {m.row}
        /\ batch' = [batch EXCEPT ![h] = @ \ {m}]
        /\ hand' = IF loop = "running" /\ hand = {} THEN {m} ELSE hand
    /\ UNCHANGED <<dbVars, watchVars, pc, lock, minReceipt, rbatch, loop, stopLoop, disc,
                   startVars, outVars, owed, excused>>

\* A message is sent on the unbuffered MessagesChannel: the step needs
\* handleMessagesLoop at its select.
HandOver(h) ==
    /\ pc[h] = "messages"
    /\ loop = "running" /\ hand = {}
    /\ \E m \in batch[h] :
        /\ IsNext(m, batch[h])
        /\ m.sent => m.row \notin nonSent
        /\ maxTs' = Later(maxTs, m.date)
        /\ nonSent' = IF m.sent THEN nonSent ELSE nonSent \cup {m.row}
        /\ reportedUnsent' = IF m.sent THEN reportedUnsent \ {m.row}
                                       ELSE reportedUnsent \cup {m.row}
        /\ batch' = [batch EXCEPT ![h] = @ \ {m}]
        /\ hand' = {m}
    /\ UNCHANGED <<dbVars, watchVars, pc, lock, minReceipt, rbatch, loop, stopLoop, disc,
                   startVars, outVars, owed, excused>>

\* A message last seen unsent and now sent is taken to be its own confirmation.
\* That excuses the loss of one change, and only of one.
Swallow(h) ==
    /\ pc[h] = "messages"
    /\ \E m \in batch[h] :
        /\ IsNext(m, batch[h])
        /\ m.sent /\ m.row \in nonSent
        /\ maxTs' = Later(maxTs, m.date)
        /\ nonSent' = nonSent \ {m.row}
        /\ batch' = [batch EXCEPT ![h] = @ \ {m}]
        /\ excused' = IF m.row \in reportedUnsent
                      THEN [excused EXCEPT !["heldBack"] = @ \cup {m.row}] ELSE excused
        /\ reportedUnsent' = reportedUnsent \ {m.row}
    /\ UNCHANGED <<dbVars, watchVars, pc, lock, minReceipt, rbatch, loopVars, disc,
                   startVars, outVars, owed>>

\* NewRecieptsQuery has no ORDER BY: any row may come last, and the time of the
\* last one becomes the next minReceiptTime.
DueReceipts == {r \in Rows : db[r].date # 0 /\ db[r].read > minReceipt}

CursorAfter(P) == IF P = {} THEN {minReceipt} ELSE {db[r].read : r \in P}

ReceiptsRead(h) ==
    /\ pc[h] = "messages" /\ batch[h] = {}
    /\ \E P \in SUBSET DueReceipts :
        /\ Yields(P, DueReceipts)
        /\ minReceipt' \in CursorAfter(P)
        /\ rbatch' = [rbatch EXCEPT ![h] = {[row |-> r, at |-> db[r].read] : r \in P \ OwnInGroup}]
        /\ excused' = [excused EXCEPT !["cutRead"] = @ \cup (DueReceipts \ P)]
    /\ pc' = [pc EXCEPT ![h] = "receipts"]
    /\ UNCHANGED <<dbVars, watchVars, lock, maxTs, nonSent, batch, loopVars, disc,
                   startVars, outVars, reportedUnsent, owed>>

\* Mutant: after a failed query the receipts before now are taken as read.
ReceiptsUnread_Clock(h) ==
    /\ pc[h] = "messages" /\ batch[h] = {}
    /\ "readError" \in Moves
    /\ \E t \in AllTimes : Newest(t, AllTimes) /\ minReceipt' = t
    /\ pc' = [pc EXCEPT ![h] = "receipts"]
    /\ UNCHANGED <<dbVars, watchVars, lock, maxTs, nonSent, batch, rbatch, loopVars, disc,
                   startVars, outVars, ghostVars>>

\* A scan error after the rows of P: the receipts are dropped, and the caller
\* has already assigned the advanced time.
ReceiptsUnread(h) ==
    /\ pc[h] = "messages" /\ batch[h] = {}
    /\ \/ /\ "readError" \in Moves
          /\ UNCHANGED <<minReceipt, excused>>
       \/ /\ "scanError" \in Moves
          /\ \E P \in SUBSET DueReceipts :
                P # DueReceipts /\ minReceipt' \in CursorAfter(P)
          /\ excused' = [excused EXCEPT !["cutRead"] = @ \cup DueReceipts]
    /\ pc' = [pc EXCEPT ![h] = "receipts"]
    /\ UNCHANGED <<dbVars, watchVars, lock, maxTs, nonSent, batch, rbatch, loopVars, disc,
                   startVars, outVars, reportedUnsent, owed>>

HandOverReceipt(h) ==
    /\ pc[h] = "receipts"
    /\ loop = "running" /\ hand = {}
    /\ \E c \in rbatch[h] :
        /\ rbatch' = [rbatch EXCEPT ![h] = @ \ {c}]
        /\ hand' = {c}
    /\ UNCHANGED <<dbVars, watchVars, pc, lock, maxTs, nonSent, minReceipt, batch, loop,
                   stopLoop, disc, startVars, outVars, ghostVars>>

\* Mutant: skipEvents is never reset.
FinishPass_KeepsFlag(h) ==
    /\ pc[h] = "receipts" /\ rbatch[h] = {}
    /\ UNCHANGED skipEvents
    /\ pc' = [pc EXCEPT ![h] = "unlock"]
    /\ UNCHANGED <<dbVars, watch, stopWatch, lock, maxTs, nonSent, minReceipt, batch,
                   rbatch, loopVars, disc, startVars, outVars, ghostVars>>

\* skipEvents = false, while handleLock is still held.
FinishPass(h) ==
    /\ pc[h] = "receipts" /\ rbatch[h] = {}
    /\ skipEvents' = "clearing"
    /\ pc' = [pc EXCEPT ![h] = "unlock"]
    /\ UNCHANGED <<dbVars, watch, stopWatch, lock, maxTs, nonSent, minReceipt, batch,
                   rbatch, loopVars, disc, startVars, outVars, ghostVars>>

\* Mutant: the pass returns without unlocking.
Unlock_Forgotten(h) ==
    /\ pc[h] = "unlock"
    /\ UNCHANGED lock
    /\ pc' = [pc EXCEPT ![h] = "idle"]
    /\ UNCHANGED <<dbVars, watchVars, maxTs, nonSent, minReceipt, batch, rbatch, loopVars,
                   disc, startVars, outVars, ghostVars>>

Unlock(h) ==
    /\ pc[h] = "unlock"
    /\ lock' = Nobody
    /\ pc' = [pc EXCEPT ![h] = "idle"]
    /\ UNCHANGED <<dbVars, watchVars, maxTs, nonSent, minReceipt, batch, rbatch, loopVars,
                   disc, startVars, outVars, ghostVars>>

-----------------------------------------------------------------------------
(* handleMessagesLoop                                                      *)

HandleMessage ==
    /\ \E m \in hand \cap Snapshot :
        /\ shown' = [shown EXCEPT ![m.row] = Stamp(m)]
        /\ newCount' = IF IsNew(m) THEN [newCount EXCEPT ![m.row] = @ + 1] ELSE newCount
    /\ hand' = {}
    /\ UNCHANGED <<dbVars, watchVars, passVars, loop, stopLoop, disc, startVars, acked,
                   ghostVars>>

HandleReceipt ==
    /\ \E c \in hand \cap Receipt : acked' = [acked EXCEPT ![c.row] = c.at]
    /\ hand' = {}
    /\ UNCHANGED <<dbVars, watchVars, passVars, loop, stopLoop, disc, startVars, shown,
                   newCount, ghostVars>>

StopHandling ==
    /\ loop = "running" /\ hand = {} /\ stopLoop > 0
    /\ loop' = "stopped"
    /\ stopLoop' = stopLoop - 1
    /\ UNCHANGED <<dbVars, watchVars, passVars, hand, disc, startVars, outVars, ghostVars>>

-----------------------------------------------------------------------------
(* The bridge framework and the operating system                           *)

\* Disconnect: a send on each stop channel, both of capacity 1.
DisconnectWatcher ==
    /\ "disconnect" \in Moves /\ disc = "no" /\ stopWatch = 0
    /\ stopWatch' = 1 /\ disc' = "half"
    /\ UNCHANGED <<dbVars, watch, skipEvents, passVars, loopVars, startVars, outVars, ghostVars>>

DisconnectLoop ==
    /\ disc = "half" /\ stopLoop = 0
    /\ stopLoop' = 1 /\ disc' = "done"
    /\ UNCHANGED <<dbVars, watchVars, passVars, loop, hand, startVars, outVars, ghostVars>>

\* The process dies at any point and a new one connects: the watermark is read
\* from chat.db and the receipt time from the clock, nothing else survives but
\* what was queued for Matrix.
Restart ==
    /\ "restart" \in Moves
    /\ \E t \in AllStamps : Newest(t, AllStamps) /\ maxTs' = t /\ startTs' = t
    /\ \E t \in AllTimes : Newest(t, AllTimes) /\ minReceipt' = t /\ startRead' = t
    /\ fsEvents' = 0
    /\ watch' = "running" /\ skipEvents' = "clear" /\ stopWatch' = 0
    /\ pc' = [h \in Handlers |-> "idle"] /\ lock' = Nobody /\ nonSent' = {}
    /\ batch' = [h \in Handlers |-> {}] /\ rbatch' = [h \in Handlers |-> {}]
    /\ loop' = "running" /\ hand' = {} /\ stopLoop' = 0
    /\ disc' = "no"
    /\ reportedUnsent' = {} /\ owed' = FALSE
    /\ excused' = [l \in Losses |-> {}]
    /\ UNCHANGED <<db, outVars>>

-----------------------------------------------------------------------------

App == Touch \/ \E r \in Rows : Insert(r) \/ Edit(r) \/ Retract(r) \/ MarkSent(r) \/ MarkRead(r)

WatchLoop == SkipEvent \/ \E h \in Handlers : SpawnPass(h)

Pass(h) == \/ Lock(h)
           \/ MessagesRead(h) \/ MessagesUnread(h) \/ HandOver(h) \/ Swallow(h)
           \/ ReceiptsRead(h) \/ ReceiptsUnread(h) \/ HandOverReceipt(h)
           \/ FinishPass(h) \/ Unlock(h)

Next ==
    \/ App
    \/ WatchLoop \/ StoreVisible \/ StopWatching \/ WatcherError
    \/ \E h \in Handlers : Pass(h)
    \/ HandleMessage \/ HandleReceipt \/ StopHandling
    \/ DisconnectWatcher \/ DisconnectLoop \/ Restart

Spec == Init /\ [][Next]_vars

\* Every goroutine that can run does.  A select of two ready cases chooses at
\* random, so each case of the watch loop is taken in the end.  Nothing is
\* assumed of the app, of faults, or of Disconnect.
Fairness ==
    /\ WF_vars(WatchLoop) /\ WF_vars(StoreVisible) /\ WF_vars(StopWatching)
    /\ \A h \in Handlers : WF_vars(Pass(h))
    /\ WF_vars(HandleMessage \/ HandleReceipt) /\ WF_vars(StopHandling)

FairSpec == Spec /\ Fairness

-----------------------------------------------------------------------------
(* Properties                                                              *)

PCs == {"idle", "lock", "query", "messages", "receipts", "unlock"}

DbTypes ==
    /\ db \in [Rows -> Row]
    /\ fsEvents \in 0 .. MaxEvents
WatchTypes ==
    /\ watch \in {"running", "stopped"}
    /\ skipEvents \in {"clear", "set", "clearing"}
    /\ stopWatch \in {0, 1}
PassTypes ==
    /\ pc \in [Handlers -> PCs]
    /\ lock \in Handlers \cup {Nobody}
    /\ maxTs \in Times /\ minReceipt \in Times
    /\ nonSent \in SUBSET Rows
    /\ batch \in [Handlers -> SUBSET Snapshot]
    /\ rbatch \in [Handlers -> SUBSET Receipt]
LoopTypes ==
    /\ loop \in {"running", "stopped"}
    /\ hand \in SUBSET (Snapshot \cup Receipt)
    /\ stopLoop \in {0, 1}
    /\ disc \in {"no", "half", "done"}
OutTypes ==
    /\ startTs \in Times /\ startRead \in Times
    /\ shown \in [Rows -> Times]
    /\ newCount \in [Rows -> Nat]
    /\ acked \in [Rows -> Times]
GhostTypes ==
    /\ reportedUnsent \in SUBSET Rows
    /\ owed \in BOOLEAN
    /\ excused \in [Losses -> SUBSET Rows]

\* The type invariant: what every variable of the watch loop, of the passes
\* and of handleMessagesLoop ranges over.
TypeOK == DbTypes /\ WatchTypes /\ PassTypes /\ LoopTypes /\ OutTypes /\ GhostTypes

\* A loss this code is known to allow: a change stamped older than what was
\* already read, a row an unnoticed database error cut off a result, a change
\* taken for the confirmation of an unsent message.
Excused(r) == \E l \in {"late", "cut", "heldBack"} : r \in excused[l]

InHand == hand \cap Snapshot
InFlight(r) ==
    \/ \E m \in InHand : m.row = r /\ Stamp(m) = Stamp(db[r])
    \/ \E h \in Handlers : \E m \in batch[h] : m.row = r /\ Stamp(m) = Stamp(db[r])

\* The watermark never passes a change that was not reported: once
\* maxMessagesTimestamp has reached the stamp of a row changed since the start,
\* that change is queued for Matrix or on its way (client.go:220-233).
NothingSkipped ==
    \A r \in Rows :
        (startTs < Stamp(db[r]) /\ Stamp(db[r]) <= maxTs /\ ~Excused(r))
            => (shown[r] = Stamp(db[r]) \/ InFlight(r))

\* No message is announced as new twice, whatever order a batch comes in, and
\* across crashes and restarts.
NewOnce == \A r \in Rows : newCount[r] <= 1

\* Every goroutine waits for an event, and none is pending.
Quiescent ==
    /\ watch = "running" /\ fsEvents = 0 /\ \A h \in Handlers : pc[h] = "idle"
    /\ loop = "running" /\ hand = {}

\* When everything is at rest and no event was dropped since the last complete
\* read, every change since the start has been reported: the only way to be
\* left behind is an event lost to skipEvents, or a failed read (client.go:208).
CaughtUp ==
    (Quiescent /\ ~owed) =>
        \A r \in Rows : startTs < Stamp(db[r]) /\ ~Excused(r) => shown[r] = Stamp(db[r])

Working == {h \in Handlers : pc[h] \in {"lock", "query", "messages", "receipts"}}
Leaving == {h \in Handlers : pc[h] = "unlock"}

\* However fast events come and however slow Matrix is, skipEvents keeps at
\* most one goroutine at work, with at most one more about to unlock, even
\* though the flag is read and written without synchronisation.
PassesDoNotPileUp ==
    /\ \A g, h \in Working : g = h
    /\ \A g, h \in Leaving : g = h

\* The bridge never goes deaf: as long as skipEvents turns events away there is a
\* goroutine that has yet to clear it, and the lock is never left behind by a
\* goroutine that has returned, whichever reads fail (client.go:208-245).
NeverDeaf ==
    /\ skipEvents = "set" => Working # {}
    /\ lock # Nobody => pc[lock] \in PCs \ {"idle", "lock"}

ReceiptInFlight(r) ==
    \/ \E c \in hand \cap Receipt : c.row = r /\ c.at = db[r].read
    \/ \E h \in Handlers : \E c \in rbatch[h] : c.row = r /\ c.at = db[r].read

\* minReceiptTime never passes a read receipt that was not reported, other than
\* those cut off by an error, those of the user's own messages in groups, and
\* those dated before one already read (client.go:237, messages.go:222).
ReceiptsNotSkipped ==
    \A r \in Rows :
        /\ startRead < db[r].read /\ db[r].read <= minReceipt
        /\ r \notin OwnInGroup /\ r \notin excused["lateRead"] \cup excused["cutRead"]
        => acked[r] = db[r].read \/ ReceiptInFlight(r)

Feed == INSTANCE MessageFeed WITH stamp <- [r \in Rows |-> Stamp(db[r])]

\* The watcher implements the feed of MessageFeed: new messages are announced
\* first and once, and reports of a message never go back in time.
FeedSpec == Feed!Spec

\* Why these hold.  Serialized: skipEvents is set as long as a goroutine is at
\* work, and whoever is past Lock holds the lock, so one batch is read and handed
\* over at a time.
Serialized ==
    /\ \A g, h \in Working : g = h
    /\ \A h \in Working : skipEvents = "set"
    /\ \A h \in Handlers : pc[h] \in PCs \ {"idle", "lock"} => lock = h
    /\ \A h \in Handlers : pc[h] # "messages" => batch[h] = {}
    /\ \A h \in Handlers : pc[h] # "receipts" => rbatch[h] = {}

\* Versioned: a version under way is one the row had, no older than what was
\* reported, and a batch is no older than the item in hand.
IsVersion(m) ==
    /\ m.date = db[m.row].date /\ m.date # 0
    /\ shown[m.row] <= Stamp(m) /\ Stamp(m) <= Stamp(db[m.row])
Versioned ==
    /\ \A r \in Rows : shown[r] <= Stamp(db[r])
    /\ \A r \in Rows : db[r].date = 0 => db[r].edited = 0 /\ db[r].retracted = 0
    /\ \A x, y \in hand : x = y
    /\ \A x \in InHand : IsVersion(x)
    /\ \A h \in Handlers : \A m \in batch[h] :
        /\ IsVersion(m)
        /\ \A o \in batch[h] : o.row = m.row => o = m
        /\ \A x \in InHand : x.row = m.row => Stamp(x) <= Stamp(m)

\* Watermarked: only dates of rows raise the watermark.
Watermarked == maxTs <= startTs \/ \E r \in Rows : maxTs <= db[r].date

\* Announced: a row that is not news any more is behind the watermark.
Announced ==
    /\ \A r \in Rows : newCount[r] <= 1 /\ (newCount[r] = 1 => shown[r] # 0)
    /\ \A r \in Rows : shown[r] # 0 => db[r].date # 0 /\ db[r].date <= maxTs
    /\ \A x \in InHand : x.date <= maxTs /\ (IsNew(x) => shown[x.row] = 0)
    /\ \A h \in Handlers : \A m \in batch[h] :
        IsNew(m) => shown[m.row] = 0 /\ \A x \in InHand : x.row # m.row

\* Tracked: a change that is neither reported nor under way is ahead of the
\* watermark, and of all that is about to raise it.
Ahead(r) ==
    /\ maxTs < Stamp(db[r])
    /\ \A h \in Handlers : \A m \in batch[h] : m.date < Stamp(db[r])
Tracked ==
    /\ nonSent \subseteq reportedUnsent
    /\ \A r \in Rows :
        (startTs < Stamp(db[r]) /\ ~Excused(r))
            => (shown[r] = Stamp(db[r]) \/ InFlight(r) \/ Ahead(r))

\* The inductive invariant behind NothingSkipped, NewOnce, PassesDoNotPileUp
\* and FeedSpec.
Inductive == Serialized /\ Versioned /\ Watermarked /\ Announced /\ Tracked

\* A pass that started comes to its end, so that skipEvents is reset and later
\* events count, unless handleMessagesLoop is stopped under it: then it waits
\* on its channel for ever.
PassEnds == \A h \in Handlers : pc[h] # "idle" ~> (pc[h] = "idle" \/ loop = "stopped")

\* If file system events keep coming, a change of a row is reported in the end,
\* though any number of events is dropped while a pass is at work
\* (client.go:199-247), as long as neither loop is stopped.
EventuallyShown ==
    []<>(fsEvents > 0) =>
        \A r \in Rows, t \in 1 .. MaxTime :
            (Stamp(db[r]) = t /\ startTs < t /\ ~Excused(r))
                ~> (shown[r] >= t \/ Excused(r) \/ "stopped" \in {watch, loop})

=============================================================================
