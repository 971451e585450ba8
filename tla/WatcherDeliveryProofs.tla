----------------------- MODULE WatcherDeliveryProofs -----------------------
(***************************************************************************)
(* What reaches Matrix in the end: nothing is left behind when the watcher *)
(* is at rest and owes no event, and the receipt watermark passes no read  *)
(* receipt that was not reported.                                          *)
(***************************************************************************)
EXTENDS WatcherSafetyProofs

-----------------------------------------------------------------------------
(* CaughtUp                                                                *)

\* Something will look at chat.db: an event, or a goroutine before its query.
Pending == fsEvents > 0 \/ \E h \in Handlers : pc[h] \in {"lock", "query"}

\* Every change since the start was reported or is under way.
Delivered ==
    \A r \in Rows : startTs < Stamp(db[r]) /\ ~Excused(r)
                        => shown[r] = Stamp(db[r]) \/ InFlight(r)

\* A change not taken yet has somebody who will look for it, unless an event
\* was dropped or a read failed.
Fresh == owed \/ Pending \/ Delivered

\* Nothing is under way or changed at first.
LEMMA FreshInit == Init => Fresh
  BY WatcherAssumption DEF Init, Fresh, Delivered, Absent, Stamp, Later

\* Whatever leaves messages, reports and known losses alone keeps them delivered.
LEMMA DeliveredStutter ==
    ASSUME Delivered, UNCHANGED <<db, shown, InHand, batch, startTs>>,
           \A l \in {"late", "cut", "heldBack"} : excused'[l] = excused[l]
    PROVE  Delivered'
  <1>1. \A r \in Rows : Excused(r)' = Excused(r) /\ InFlight(r)' = InFlight(r)
    BY DEF Excused, InFlight
  <1> QED
    BY <1>1 DEF Delivered

\* A write of the app raises an event.
LEMMA FreshApp ==
    ASSUME TypeOK, App
    PROVE  Fresh'
  <1>1. fsEvents' = Raised
    BY DEF App, Touch, Insert, Edit, Retract, MarkSent, MarkRead, Commit
  <1>2. Raised > 0
    BY WatcherAssumption DEF Raised, TypeOK, DbTypes
  <1> QED
    BY <1>1, <1>2 DEF Fresh, Pending

\* The steps that neither take a message nor consume an event.
LEMMA FreshQuiet ==
    ASSUME TypeOK, Data, Fresh,
           \/ StoreVisible \/ StopWatching \/ WatcherError \/ StopHandling
           \/ DisconnectWatcher \/ DisconnectLoop \/ HandleReceipt
           \/ \E h \in Handlers : \/ ReceiptsRead(h) \/ ReceiptsUnread(h)
                                  \/ HandOverReceipt(h) \/ FinishPass(h) \/ Unlock(h)
    PROVE  Fresh'
  <1> USE DEF dbVars, watchVars, passVars, loopVars, outVars, ghostVars, startVars
  <1>1. pc \in [Handlers -> PCs] /\ excused \in [Losses -> SUBSET Rows]
        /\ rbatch \in [Handlers -> SUBSET Receipt]
    BY DEF TypeOK, PassTypes, GhostTypes
  <1>2. UNCHANGED <<owed, fsEvents, db, shown, batch, startTs>>
    BY DEF StoreVisible, StopWatching, WatcherError, StopHandling, DisconnectWatcher,
       DisconnectLoop, HandleReceipt, ReceiptsRead, ReceiptsUnread, HandOverReceipt,
       FinishPass, Unlock
  <1>3. ASSUME NEW g \in Handlers, pc[g] \in {"lock", "query"} PROVE pc'[g] = pc[g]
    BY <1>1, <1>3 DEF StoreVisible, StopWatching, WatcherError, StopHandling, DisconnectWatcher,
       DisconnectLoop, HandleReceipt, ReceiptsRead, ReceiptsUnread, HandOverReceipt,
       FinishPass, Unlock
  <1>4. Pending => Pending'
    BY <1>2, <1>3 DEF Pending
  <1>5. \A l \in {"late", "cut", "heldBack"} : excused'[l] = excused[l]
    <2>1. (\E S : excused' = [excused EXCEPT !["cutRead"] = S]) \/ excused' = excused
      BY DEF StoreVisible, StopWatching, WatcherError, StopHandling, DisconnectWatcher,
         DisconnectLoop, HandleReceipt, ReceiptsRead, ReceiptsUnread, HandOverReceipt,
         FinishPass, Unlock
    <2> QED
      BY <1>1, <2>1 DEF Losses
  <1>6. InHand' = InHand
    <2>1. CASE HandleReceipt
      BY <2>1, SnapshotsAreNotReceipts DEF HandleReceipt, InHand, Data, Versioned
    <2>2. ASSUME NEW h \in Handlers, HandOverReceipt(h) PROVE InHand' = InHand
      BY <1>1, <2>2, SnapshotsAreNotReceipts DEF HandOverReceipt, InHand
    <2> QED
      BY <2>1, <2>2 DEF StoreVisible, StopWatching, WatcherError, StopHandling, DisconnectWatcher,
         DisconnectLoop, ReceiptsRead, ReceiptsUnread, FinishPass, Unlock, InHand
  <1>7. Delivered => Delivered'
    BY <1>2, <1>5, <1>6, DeliveredStutter
  <1> QED
    BY <1>2, <1>4, <1>7 DEF Fresh

\* An event is taken by a new goroutine, which will look, or is dropped, which
\* is owed from then on; a goroutine that holds the lock will look too.
LEMMA FreshStart ==
    ASSUME TypeOK, \/ WatchLoop
                   \/ \E h \in Handlers : Lock(h) \/ MessagesUnread(h)
    PROVE  Fresh'
  <1>1. pc \in [Handlers -> PCs]
    BY DEF TypeOK, PassTypes
  <1>2. CASE SkipEvent
    BY <1>2 DEF SkipEvent, Fresh
  <1>3. ASSUME NEW h \in Handlers, SpawnPass(h) \/ Lock(h) PROVE Fresh'
    <2>1. pc'[h] \in {"lock", "query"}
      BY <1>1, <1>3 DEF SpawnPass, Lock
    <2> QED
      BY <2>1 DEF Fresh, Pending
  <1>4. ASSUME NEW h \in Handlers, MessagesUnread(h) PROVE Fresh'
    BY <1>4 DEF MessagesUnread, Fresh
  <1> QED
    BY <1>2, <1>3, <1>4 DEF WatchLoop

\* After a read every change is reported, under way or excused: the query finds
\* what Tracked leaves ahead of the watermark.
LEMMA FreshRead ==
    ASSUME TypeOK, Serialized, Data, NEW h \in Handlers, MessagesRead(h)
    PROVE  Fresh'
  <1> USE DEF dbVars, loopVars, outVars, startVars
  <1>1. PICK P \in SUBSET DueMessages :
           /\ batch' = [batch EXCEPT ![h] = {SnapshotOf(r) : r \in P}]
           /\ excused' = [excused EXCEPT !["cut"] = (@ \ P) \cup (DueMessages \ P)]
    BY DEF MessagesRead
  <1>2. UNCHANGED <<db, shown, maxTs, startTs>>
    BY DEF MessagesRead
  <1>3. batch'[h] = {SnapshotOf(r) : r \in P}
    BY <1>1 DEF TypeOK, PassTypes
  <1>4. Tracked'
    BY DataMessagesRead DEF Data
  <1>5. ASSUME NEW r \in Rows, startTs' < Stamp(db'[r]), ~Excused(r)', Ahead(r)'
        PROVE  InFlight(r)'
    <2>1. r \in DueMessages
      BY <1>2, <1>5, TimesAreNumbers DEF Ahead, DueMessages
    <2>2. r \in P
      BY <1>1, <1>5, <2>1 DEF Excused, TypeOK, GhostTypes, Losses
    <2>3. SnapshotOf(r) \in batch'[h] /\ SnapshotOf(r).row = r
          /\ Stamp(SnapshotOf(r)) = Stamp(db[r])
      BY <1>3, <2>2 DEF SnapshotOf, Stamp
    <2> QED
      BY <1>2, <2>3 DEF InFlight
  <1>6. Delivered'
    BY <1>4, <1>5 DEF Delivered, Tracked
  <1> QED
    BY <1>6 DEF Fresh

\* A message handed over stays under way; one taken for a confirmation is excused.
LEMMA FreshForward ==
    ASSUME TypeOK, Serialized, Data, Fresh, NEW h \in Handlers, HandOver(h) \/ Swallow(h)
    PROVE  Fresh'
  <1> USE DEF dbVars, loopVars, outVars, startVars
  <1>1. UNCHANGED <<db, shown, startTs, owed, fsEvents, pc>>
    BY DEF HandOver, Swallow
  <1>2. Pending => Pending'
    BY <1>1 DEF Pending
  <1>3. ASSUME HandOver(h), Delivered PROVE Delivered'
    <2>1. PICK m \in batch[h] :
             /\ maxTs' = Later(maxTs, m.date)
             /\ batch' = [batch EXCEPT ![h] = @ \ {m}]
             /\ hand = {} /\ hand' = {m}
      BY <1>3 DEF HandOver
    <2>2. UNCHANGED <<newCount, excused>>
      BY <1>3 DEF HandOver
    <2>3. \A r \in Rows : InFlight(r) => InFlight(r)'
      BY <1>1, <2>1, <2>2, DataTake
    <2> QED
      BY <1>1, <1>3, <2>2, <2>3 DEF Delivered, Excused
  <1>4. ASSUME Swallow(h), Delivered PROVE Delivered'
    <2>1. PICK m \in batch[h] :
             /\ maxTs' = Later(maxTs, m.date)
             /\ batch' = [batch EXCEPT ![h] = @ \ {m}]
             /\ m.row \in nonSent
             /\ excused' = IF m.row \in reportedUnsent
                           THEN [excused EXCEPT !["heldBack"] = @ \cup {m.row}] ELSE excused
      BY <1>4 DEF Swallow
    <2>2. UNCHANGED <<newCount, hand>>
      BY <1>4 DEF Swallow
    <2>3. \A r \in Rows : InFlight(r) => InFlight(r)' \/ m.row = r
      BY <1>1, <2>1, <2>2, DataTake
    <2>4. m.row \in reportedUnsent
      BY <2>1 DEF Data, Tracked
    <2>5. Excused(m.row)' /\ \A r \in Rows : Excused(r) => Excused(r)'
      BY <2>1, <2>4 DEF Excused, TypeOK, GhostTypes, Losses
    <2> QED
      BY <1>1, <1>4, <2>3, <2>5 DEF Delivered
  <1> QED
    BY <1>1, <1>2, <1>3, <1>4 DEF Fresh

\* The item in hand is the only one that can report its change.
LEMMA FreshHandle ==
    ASSUME TypeOK, Data, Fresh, HandleMessage
    PROVE  Fresh'
  <1> USE DEF dbVars, passVars, startVars, ghostVars
  <1>1. PICK m \in InHand : shown' = [shown EXCEPT ![m.row] = Stamp(m)]
    BY DEF HandleMessage, InHand
  <1>2. UNCHANGED <<db, batch, startTs, excused, owed, fsEvents, pc>>
    BY DEF HandleMessage
  <1>3. m.row \in Rows /\ IsVersion(m) /\ Stamp(m) \in Nat
    BY TimesAreNumbers DEF InHand, Data, Versioned
  <1>4. shown'[m.row] = Stamp(m) /\ \A r \in Rows \ {m.row} : shown'[r] = shown[r]
    BY <1>1, <1>3 DEF TypeOK, OutTypes
  <1>5. ASSUME NEW r \in Rows, shown[r] = Stamp(db[r]) PROVE shown'[r] = Stamp(db[r])
    BY <1>3, <1>4, <1>5, TimesAreNumbers DEF IsVersion
  <1>6. ASSUME NEW r \in Rows, InFlight(r) PROVE shown'[r] = Stamp(db[r]) \/ InFlight(r)'
    <2>1. CASE \E x \in InHand : x.row = r /\ Stamp(x) = Stamp(db[r])
      BY <1>1, <1>4, <2>1 DEF Data, Versioned, InHand
    <2>2. CASE \E h \in Handlers : \E x \in batch[h] : x.row = r /\ Stamp(x) = Stamp(db[r])
      BY <1>2, <2>2 DEF InFlight
    <2> QED
      BY <1>6, <2>1, <2>2 DEF InFlight
  <1>7. Delivered => Delivered'
    BY <1>2, <1>5, <1>6 DEF Delivered, Excused
  <1>8. Pending => Pending'
    BY <1>2 DEF Pending
  <1> QED
    BY <1>2, <1>7, <1>8 DEF Fresh

\* A new process starts at the newest stamp on record.
LEMMA FreshRestart ==
    ASSUME TypeOK, Restart
    PROVE  Fresh'
  <1>1. PICK t \in AllStamps : Newest(t, AllStamps) /\ startTs' = t
    BY DEF Restart
  <1>2. db' = db /\ t \in Nat
    BY <1>1, RecordedTimes, WatcherAssumption DEF Restart, Times
  <1>3. \A r \in Rows : ~(startTs' < Stamp(db'[r]))
    BY <1>1, <1>2, TimesAreNumbers DEF Newest, AllStamps
  <1> QED
    BY <1>3 DEF Fresh, Delivered

\* Every step keeps a change from being forgotten.
LEMMA FreshNext == TypeOK /\ Inductive /\ Fresh /\ [Next]_vars => Fresh'
  <1> SUFFICES ASSUME TypeOK, Inductive, Fresh, [Next]_vars PROVE Fresh'
    OBVIOUS
  <1>1. Serialized /\ Data
    BY DEF Inductive, Data
  <1>2. CASE UNCHANGED vars
    <2>1. UNCHANGED <<owed, Pending, Delivered>>
      BY <1>2 DEF vars, dbVars, watchVars, passVars, loopVars, outVars, ghostVars, startVars,
         Pending, Delivered, Excused, InFlight, InHand
    <2> QED
      BY <2>1 DEF Fresh
  <1>3. ASSUME NEW h \in Handlers, Pass(h) PROVE Fresh'
    BY <1>1, <1>3, FreshQuiet, FreshStart, FreshRead, FreshForward DEF Pass
  <1> QED
    BY <1>1, <1>2, <1>3, FreshApp, FreshQuiet, FreshStart, FreshHandle, FreshRestart DEF Next

\* At rest with nothing owed, every change since the start has been reported
\* (client.go:208), for any number of messages, events, passes and restarts.
THEOREM NothingLeftBehind == Spec => []CaughtUp
  <1>1. Spec => []Fresh
    BY FreshInit, FreshNext, TypeCorrect, InductiveHolds, PTL DEF Spec
  <1>2. TypeOK /\ Inductive /\ Fresh => CaughtUp
    <2> SUFFICES ASSUME TypeOK, Inductive, Fresh, Quiescent, ~owed,
                        NEW r \in Rows, startTs < Stamp(db[r]), ~Excused(r)
                 PROVE  shown[r] = Stamp(db[r])
      BY DEF CaughtUp
    <2>1. ~Pending
      BY DEF Quiescent, Pending
    <2>2. ~InFlight(r)
      BY DEF Quiescent, InFlight, InHand, Inductive, Serialized
    <2> QED
      BY <2>1, <2>2 DEF Fresh, Delivered
  <1> QED
    BY <1>1, <1>2, TypeCorrect, InductiveHolds, PTL

-----------------------------------------------------------------------------
(* ReceiptsNotSkipped                                                      *)

\* A row not written was not read.
ReadWritten == \A r \in Rows : db[r].date = 0 => db[r].read = 0

\* Only read times of rows raise minReceiptTime.
ReceiptMarked == minReceipt <= startRead \/ \E r \in Rows : minReceipt <= db[r].read

\* A receipt under way is the one its row has: a read time is set once.
Genuine(c) == c.row \in Rows /\ c.at = db[c.row].read /\ c.at # 0
HandGenuine == \A c \in hand \cap Receipt : Genuine(c)
BatchesGenuine == \A h \in Handlers : \A c \in rbatch[h] : Genuine(c)

\* A receipt that may not be missing is reported, under way, or ahead of
\* minReceiptTime.
Expected(r) ==
    /\ startRead < db[r].read
    /\ r \notin OwnInGroup /\ r \notin excused["lateRead"] \cup excused["cutRead"]
Accounted(r) == acked[r] = db[r].read \/ ReceiptInFlight(r) \/ minReceipt < db[r].read
Acknowledged == \A r \in Rows : Expected(r) => Accounted(r)

Receipted == ReadWritten /\ ReceiptMarked /\ HandGenuine /\ BatchesGenuine /\ Acknowledged

\* The times of receipts, for arithmetic.
LEMMA ReadTimesAreNumbers ==
    ASSUME TypeOK
    PROVE  /\ \A r \in Rows : db[r].read \in Nat /\ db[r].date \in Nat
           /\ minReceipt \in Nat /\ startRead \in Nat
  <1>1. Times \subseteq Nat
    BY WatcherAssumption DEF Times
  <1>2. \A r \in Rows : db[r].read \in Times /\ db[r].date \in Times
    BY DEF TypeOK, DbTypes, Row
  <1> QED
    BY <1>1, <1>2 DEF TypeOK, PassTypes, OutTypes

\* No receipt is expected at first.
LEMMA ReceiptedInit == Init => Receipted
  <1> SUFFICES ASSUME Init PROVE Receipted
    OBVIOUS
  <1>1. \A r \in Rows : db[r].date = 0 /\ db[r].read = 0
    BY DEF Init, Absent
  <1>2. History \in Nat /\ minReceipt = History /\ startRead = History
    BY WatcherAssumption DEF Init
  <1>3. hand = {} /\ \A h \in Handlers : rbatch[h] = {}
    BY DEF Init
  <1> QED
    BY <1>1, <1>2, <1>3 DEF Receipted, ReadWritten, ReceiptMarked, HandGenuine, BatchesGenuine,
       Acknowledged, Expected

\* A step that sets no read time and moves no receipt.
LEMMA ReceiptedStutter ==
    ASSUME Receipted,
           UNCHANGED <<minReceipt, startRead, rbatch, acked, hand \cap Receipt>>,
           \A r \in Rows : db'[r].read = db[r].read /\ (db'[r].date = 0 => db[r].date = 0),
           \A l \in {"lateRead", "cutRead"} : excused'[l] = excused[l]
    PROVE  Receipted'
  <1>1. ReadWritten' /\ ReceiptMarked'
    BY DEF Receipted, ReadWritten, ReceiptMarked
  <1>2. \A c : Genuine(c) => Genuine(c)'
    BY DEF Genuine
  <1>3. HandGenuine' /\ BatchesGenuine'
    BY <1>2 DEF Receipted, HandGenuine, BatchesGenuine
  <1>4. \A r \in Rows : (Expected(r)' => Expected(r)) /\ (Accounted(r) => Accounted(r)')
    BY DEF Expected, Accounted, ReceiptInFlight
  <1>5. Acknowledged'
    BY <1>4 DEF Receipted, Acknowledged
  <1> QED
    BY <1>1, <1>3, <1>5 DEF Receipted

\* The writes of the app other than MarkRead set no read time.
LEMMA ReceiptedWrite ==
    ASSUME TypeOK, Receipted,
           Touch \/ \E r \in Rows : Insert(r) \/ Edit(r) \/ Retract(r) \/ MarkSent(r)
    PROVE  Receipted'
  <1>1. db \in [Rows -> Row] /\ excused \in [Losses -> SUBSET Rows]
    BY DEF TypeOK, DbTypes, GhostTypes
  <1>2. AppLeaves
    BY DEF Touch, Insert, Edit, Retract, MarkSent, Commit
  <1>3. \A l \in {"lateRead", "cutRead"} : excused'[l] = excused[l]
    BY <1>1 DEF Touch, Insert, Edit, Retract, MarkSent, Commit, Losses
  <1>4. ASSUME NEW r \in Rows, NEW m, db' = [db EXCEPT ![r] = m], m.read = db[r].read,
               m.date = 0 => db[r].date = 0
        PROVE  \A q \in Rows : db'[q].read = db[q].read /\ (db'[q].date = 0 => db[q].date = 0)
    BY <1>1, <1>4
  <1>5. ASSUME NEW r \in Rows, Insert(r)
        PROVE  \A q \in Rows : db'[q].read = db[q].read /\ (db'[q].date = 0 => db[q].date = 0)
    <2>1. PICK t \in 1 .. MaxTime, sent \in BOOLEAN, flaw \in Flaws :
             Commit(r, [Absent EXCEPT !.date = t, !.sent = sent, !.flaw = flaw], t)
      BY <1>5 DEF Insert
    <2>2. db[r].date = 0 /\ db[r].read = 0
      BY <1>5 DEF Insert, Receipted, ReadWritten
    <2> DEFINE m == [Absent EXCEPT !.date = t, !.sent = sent, !.flaw = flaw]
    <2>3. m.read = 0
      BY DEF Absent
    <2>4. db' = [db EXCEPT ![r] = m]
      BY <2>1 DEF Commit
    <2> HIDE DEF m
    <2> QED
      BY <1>4, <2>2, <2>3, <2>4
  <1>6. ASSUME NEW r \in Rows, Edit(r) \/ Retract(r) \/ MarkSent(r)
        PROVE  \A q \in Rows : db'[q].read = db[q].read /\ (db'[q].date = 0 => db[q].date = 0)
    <2>1. db[r] \in Row
      BY <1>1
    <2>2. \/ \E t, flaw : db' = [db EXCEPT ![r] = [db[r] EXCEPT !.edited = t, !.flaw = flaw]]
          \/ \E t : db' = [db EXCEPT ![r] = [db[r] EXCEPT !.retracted = t]]
          \/ db' = [db EXCEPT ![r] = [db[r] EXCEPT !.sent = TRUE]]
      BY <1>1, <1>6 DEF Edit, Retract, MarkSent, Commit
    <2>3. PICK m : db' = [db EXCEPT ![r] = m] /\ m.read = db[r].read /\ m.date = db[r].date
      BY <2>1, <2>2 DEF Row
    <2> QED
      BY <1>4, <2>3
  <1>7. \A q \in Rows : db'[q].read = db[q].read /\ (db'[q].date = 0 => db[q].date = 0)
    BY <1>5, <1>6 DEF Touch
  <1> QED
    BY <1>2, <1>3, <1>7, ReceiptedStutter DEF AppLeaves, passVars, loopVars, startVars, outVars

\* A message read in order is ahead of minReceiptTime, one out of order excused.
LEMMA ReceiptedRead ==
    ASSUME TypeOK, Receipted, NEW r \in Rows, MarkRead(r)
    PROVE  Receipted'
  <1>1. db \in [Rows -> Row] /\ excused \in [Losses -> SUBSET Rows]
    BY DEF TypeOK, DbTypes, GhostTypes
  <1>2. PICK t \in 1 .. MaxTime :
           /\ db' = [db EXCEPT ![r].read = t]
           /\ excused' = IF InOrderRead(t) THEN excused
                         ELSE [excused EXCEPT !["lateRead"] = @ \cup {r}]
    BY DEF MarkRead
  <1>3. t \in Nat /\ t # 0
    BY WatcherAssumption
  <1>4. db[r].read = 0 /\ db[r].date # 0
    BY DEF MarkRead
  <1>5. UNCHANGED <<minReceipt, startRead, rbatch, acked, hand>>
    BY DEF MarkRead, AppLeaves, passVars, loopVars, startVars, outVars
  <1>6. db'[r].read = t /\ (\A q \in Rows \ {r} : db'[q].read = db[q].read)
        /\ \A q \in Rows : db'[q].date = db[q].date
    BY <1>1, <1>2 DEF Row
  <1>7. ReadWritten'
    BY <1>4, <1>6 DEF Receipted, ReadWritten
  <1>8. ReceiptMarked'
    <2>1. \A q \in Rows : db[q].read <= db'[q].read /\ db'[q].read \in Nat
      BY <1>3, <1>4, <1>6, ReadTimesAreNumbers
    <2> QED
      BY <1>5, <2>1, ReadTimesAreNumbers DEF Receipted, ReceiptMarked
  <1>9. \A c : Genuine(c) => Genuine(c)' /\ c.row # r
    BY <1>4, <1>6 DEF Genuine
  <1>10. HandGenuine' /\ BatchesGenuine'
    BY <1>5, <1>9 DEF Receipted, HandGenuine, BatchesGenuine
  <1>11. ASSUME NEW q \in Rows \ {r}, Expected(q)' PROVE Accounted(q)'
    <2>1. Expected(q)
      BY <1>1, <1>2, <1>5, <1>6, <1>11 DEF Expected, Losses
    <2> QED
      BY <1>5, <1>6, <2>1 DEF Receipted, Acknowledged, Accounted, ReceiptInFlight
  <1>12. ASSUME Expected(r)' PROVE Accounted(r)'
    <2>1. InOrderRead(t)
      BY <1>1, <1>2, <1>12 DEF Expected, Losses
    <2>2. minReceipt < t
      BY <1>3, <2>1, ReadTimesAreNumbers DEF InOrderRead, Receipted, ReceiptMarked
    <2> QED
      BY <1>5, <1>6, <2>2 DEF Accounted
  <1> QED
    BY <1>7, <1>8, <1>10, <1>11, <1>12 DEF Receipted, Acknowledged

\* A read of the receipts puts under way what it takes, and what it does not
\* take is excused, whichever of the rows came last and set minReceiptTime.
LEMMA ReceiptedRows ==
    ASSUME TypeOK, Serialized, Receipted, NEW h \in Handlers, ReceiptsRead(h)
    PROVE  Receipted'
  <1> USE DEF dbVars, loopVars, outVars, startVars
  <1>1. PICK P \in SUBSET DueReceipts :
           /\ minReceipt' \in CursorAfter(P)
           /\ rbatch' = [rbatch EXCEPT ![h] =
                            {[row |-> r, at |-> db[r].read] : r \in P \ OwnInGroup}]
           /\ excused' = [excused EXCEPT !["cutRead"] = @ \cup (DueReceipts \ P)]
    BY DEF ReceiptsRead
  <1>2. UNCHANGED <<db, hand, acked, startRead>> /\ rbatch[h] = {}
    BY DEF ReceiptsRead, Serialized
  <1>3. excused'["lateRead"] = excused["lateRead"]
        /\ excused'["cutRead"] = excused["cutRead"] \cup (DueReceipts \ P)
    BY <1>1 DEF TypeOK, GhostTypes, Losses
  <1>4. rbatch'[h] = {[row |-> r, at |-> db[r].read] : r \in P \ OwnInGroup}
        /\ \A g \in Handlers \ {h} : rbatch'[g] = rbatch[g]
    BY <1>1 DEF TypeOK, PassTypes
  <1>5. P \subseteq Rows /\ \A r \in P : db[r].read # 0
    BY ReadTimesAreNumbers DEF DueReceipts
  <1>6. ReadWritten' /\ HandGenuine'
    BY <1>2 DEF Receipted, ReadWritten, HandGenuine, Genuine
  <1>7. minReceipt' = minReceipt \/ \E r \in P : minReceipt' = db[r].read
    BY <1>1 DEF CursorAfter
  <1>8. ReceiptMarked'
    BY <1>2, <1>5, <1>7, ReadTimesAreNumbers DEF Receipted, ReceiptMarked
  <1>9. BatchesGenuine'
    BY <1>2, <1>4, <1>5 DEF Receipted, BatchesGenuine, Genuine
  <1>10. ASSUME NEW r \in Rows, Expected(r)' PROVE Accounted(r)'
    <2>1. Expected(r)
      BY <1>2, <1>3, <1>10 DEF Expected
    <2>2. CASE acked[r] = db[r].read
      BY <1>2, <2>2 DEF Accounted
    <2>3. CASE ReceiptInFlight(r)
      BY <1>2, <1>4, <2>3 DEF Accounted, ReceiptInFlight
    <2>4. CASE minReceipt < db[r].read
      <3>1. r \in DueReceipts
        BY <2>4, ReadTimesAreNumbers DEF DueReceipts, Receipted, ReadWritten
      <3>2. r \in P \ OwnInGroup
        BY <1>3, <1>10, <3>1 DEF Expected
      <3>3. [row |-> r, at |-> db[r].read] \in rbatch'[h]
        BY <1>4, <3>2
      <3> QED
        BY <1>2, <3>3 DEF Accounted, ReceiptInFlight
    <2> QED
      BY <2>1, <2>2, <2>3, <2>4 DEF Receipted, Acknowledged, Accounted
  <1> QED
    BY <1>6, <1>8, <1>9, <1>10 DEF Receipted, Acknowledged

\* A failed read of the receipts leaves minReceiptTime, or excuses all it passes.
LEMMA ReceiptedFail ==
    ASSUME TypeOK, Receipted, NEW h \in Handlers, ReceiptsUnread(h)
    PROVE  Receipted'
  <1> USE DEF dbVars, loopVars, outVars, startVars
  <1>1. UNCHANGED <<db, hand, acked, startRead, rbatch>>
    BY DEF ReceiptsUnread
  <1>2. CASE UNCHANGED <<minReceipt, excused>>
    BY <1>1, <1>2, ReceiptedStutter
  <1>3. CASE /\ \E P \in SUBSET DueReceipts : minReceipt' \in CursorAfter(P)
             /\ excused' = [excused EXCEPT !["cutRead"] = @ \cup DueReceipts]
    <2>1. PICK P \in SUBSET DueReceipts : minReceipt' \in CursorAfter(P)
      BY <1>3
    <2>2. excused'["lateRead"] = excused["lateRead"]
          /\ excused'["cutRead"] = excused["cutRead"] \cup DueReceipts
      BY <1>3 DEF TypeOK, GhostTypes, Losses
    <2>3. ReadWritten' /\ HandGenuine' /\ BatchesGenuine'
      BY <1>1 DEF Receipted, ReadWritten, HandGenuine, BatchesGenuine, Genuine
    <2>4. minReceipt' = minReceipt \/ \E r \in P : minReceipt' = db[r].read
      BY <2>1 DEF CursorAfter
    <2>5. ReceiptMarked'
      BY <1>1, <2>4, ReadTimesAreNumbers DEF DueReceipts, Receipted, ReceiptMarked
    <2>6. ASSUME NEW r \in Rows, Expected(r)' PROVE Accounted(r)'
      <3>1. Expected(r) /\ r \notin DueReceipts
        BY <1>1, <2>2, <2>6 DEF Expected
      <3>2. ~(minReceipt < db[r].read)
        BY <3>1, ReadTimesAreNumbers DEF DueReceipts, Receipted, ReadWritten
      <3> QED
        BY <1>1, <3>1, <3>2 DEF Receipted, Acknowledged, Accounted, ReceiptInFlight
    <2> QED
      BY <2>3, <2>5, <2>6 DEF Receipted, Acknowledged
  <1> QED
    BY <1>2, <1>3 DEF ReceiptsUnread

\* A receipt handed over stays under way.
LEMMA ReceiptedForward ==
    ASSUME TypeOK, Receipted, NEW h \in Handlers, HandOverReceipt(h)
    PROVE  Receipted'
  <1> USE DEF dbVars, loopVars, outVars, startVars, ghostVars
  <1>1. PICK c \in rbatch[h] : rbatch' = [rbatch EXCEPT ![h] = @ \ {c}]
                               /\ hand = {} /\ hand' = {c}
    BY DEF HandOverReceipt
  <1>2. UNCHANGED <<db, acked, startRead, minReceipt, excused>>
    BY DEF HandOverReceipt
  <1>3. c \in Receipt /\ hand' \cap Receipt = {c} /\ hand \cap Receipt = {}
    BY <1>1 DEF TypeOK, PassTypes
  <1>4. \A g \in Handlers : rbatch'[g] \subseteq rbatch[g]
                            /\ \A d \in rbatch[g] : d = c \/ d \in rbatch'[g]
    BY <1>1 DEF TypeOK, PassTypes
  <1>5. ReadWritten' /\ ReceiptMarked'
    BY <1>2 DEF Receipted, ReadWritten, ReceiptMarked
  <1>6. \A d : Genuine(d) => Genuine(d)'
    BY <1>2 DEF Genuine
  <1>7. HandGenuine' /\ BatchesGenuine'
    BY <1>1, <1>3, <1>4, <1>6 DEF Receipted, HandGenuine, BatchesGenuine
  <1>8. ASSUME NEW r \in Rows, Accounted(r) PROVE Accounted(r)'
    BY <1>2, <1>3, <1>4, <1>8 DEF Accounted, ReceiptInFlight
  <1>9. \A r \in Rows : Expected(r)' = Expected(r)
    BY <1>2 DEF Expected
  <1> QED
    BY <1>5, <1>7, <1>8, <1>9 DEF Receipted, Acknowledged

\* The receipt in hand is reported as its row has it.
LEMMA ReceiptedHandle ==
    ASSUME TypeOK, Data, Receipted, HandleReceipt
    PROVE  Receipted'
  <1> USE DEF dbVars, passVars, startVars, ghostVars
  <1>1. PICK c \in hand \cap Receipt : acked' = [acked EXCEPT ![c.row] = c.at]
    BY DEF HandleReceipt
  <1>2. UNCHANGED <<db, rbatch, startRead, minReceipt, excused>> /\ hand' = {}
        /\ \A d \in hand : d = c
    BY <1>1 DEF HandleReceipt, Data, Versioned
  <1>3. Genuine(c)
    BY <1>1 DEF Receipted, HandGenuine
  <1>4. acked'[c.row] = db[c.row].read /\ \A r \in Rows \ {c.row} : acked'[r] = acked[r]
    BY <1>1, <1>3 DEF Genuine, TypeOK, OutTypes
  <1>5. ReadWritten' /\ ReceiptMarked' /\ HandGenuine' /\ BatchesGenuine'
    BY <1>2 DEF Receipted, ReadWritten, ReceiptMarked, HandGenuine, BatchesGenuine, Genuine
  <1>6. ASSUME NEW r \in Rows, Accounted(r) PROVE Accounted(r)'
    <2>1. CASE r = c.row
      BY <1>2, <1>4, <2>1 DEF Accounted
    <2>2. CASE r # c.row
      BY <1>1, <1>2, <1>4, <1>6, <2>2 DEF Accounted, ReceiptInFlight
    <2> QED
      BY <2>1, <2>2
  <1>7. \A r \in Rows : Expected(r)' = Expected(r)
    BY <1>2 DEF Expected
  <1> QED
    BY <1>5, <1>6, <1>7 DEF Receipted, Acknowledged

\* A new process expects no receipt as old as what is on record.
LEMMA ReceiptedRestart ==
    ASSUME TypeOK, Receipted, Restart
    PROVE  Receipted'
  <1>1. PICK t \in AllTimes : Newest(t, AllTimes) /\ minReceipt' = t /\ startRead' = t
    BY DEF Restart
  <1>2. db' = db /\ hand' = {} /\ \A h \in Handlers : rbatch'[h] = {}
    BY DEF Restart
  <1>3. t \in Nat /\ \A r \in Rows : db[r].read <= t
    BY <1>1, RecordedTimes, WatcherAssumption DEF Newest, AllTimes, Times
  <1>4. \A r \in Rows : ~Expected(r)'
    BY <1>1, <1>2, <1>3, ReadTimesAreNumbers DEF Expected
  <1> QED
    BY <1>1, <1>2, <1>3, <1>4
    DEF Receipted, ReadWritten, ReceiptMarked, HandGenuine, BatchesGenuine, Acknowledged

\* The steps that neither read nor move a receipt.
LEMMA ReceiptedQuiet ==
    ASSUME TypeOK, Data, Receipted,
           \/ WatchLoop \/ StoreVisible \/ StopWatching \/ WatcherError \/ StopHandling
           \/ DisconnectWatcher \/ DisconnectLoop \/ HandleMessage
           \/ \E h \in Handlers : \/ Lock(h) \/ MessagesRead(h) \/ MessagesUnread(h)
                                  \/ HandOver(h) \/ Swallow(h) \/ FinishPass(h) \/ Unlock(h)
    PROVE  Receipted'
  <1> USE DEF dbVars, watchVars, passVars, loopVars, outVars, ghostVars, startVars
  <1>1. excused \in [Losses -> SUBSET Rows]
    BY DEF TypeOK, GhostTypes
  <1>2. UNCHANGED <<db, minReceipt, startRead, rbatch, acked>>
    BY DEF WatchLoop, SpawnPass, SkipEvent, StoreVisible, StopWatching, WatcherError,
       StopHandling, DisconnectWatcher, DisconnectLoop, HandleMessage, Lock, MessagesRead,
       MessagesUnread, HandOver, Swallow, FinishPass, Unlock
  <1>3. \A l \in {"lateRead", "cutRead"} : excused'[l] = excused[l]
    <2>1. \/ excused' = excused
          \/ \E S : excused' = [excused EXCEPT !["cut"] = S]
          \/ \E S : excused' = [excused EXCEPT !["heldBack"] = S]
      BY DEF WatchLoop, SpawnPass, SkipEvent, StoreVisible, StopWatching, WatcherError,
         StopHandling, DisconnectWatcher, DisconnectLoop, HandleMessage, Lock, MessagesRead,
         MessagesUnread, HandOver, Swallow, FinishPass, Unlock
    <2> QED
      BY <1>1, <2>1 DEF Losses
  <1>4. hand' \cap Receipt = hand \cap Receipt
    <2>1. CASE HandleMessage
      BY <2>1, SnapshotsAreNotReceipts DEF HandleMessage, Data, Versioned
    <2>2. ASSUME NEW h \in Handlers, HandOver(h) PROVE hand' \cap Receipt = hand \cap Receipt
      BY <2>2, SnapshotsAreNotReceipts DEF HandOver, TypeOK, PassTypes
    <2> QED
      BY <2>1, <2>2 DEF WatchLoop, SpawnPass, SkipEvent, StoreVisible, StopWatching,
         WatcherError, StopHandling, DisconnectWatcher, DisconnectLoop, Lock, MessagesRead,
         MessagesUnread, Swallow, FinishPass, Unlock
  <1> QED
    BY <1>2, <1>3, <1>4, ReceiptedStutter

\* Every step keeps every expected receipt accounted for.
LEMMA ReceiptedNext == TypeOK /\ Inductive /\ Receipted /\ [Next]_vars => Receipted'
  <1> SUFFICES ASSUME TypeOK, Inductive, Receipted, [Next]_vars PROVE Receipted'
    OBVIOUS
  <1>1. Serialized /\ Data
    BY DEF Inductive, Data
  <1>2. CASE UNCHANGED vars
    BY <1>2, ReceiptedStutter DEF vars, dbVars, passVars, loopVars, outVars, ghostVars, startVars
  <1>3. CASE App
    BY <1>3, ReceiptedWrite, ReceiptedRead DEF App
  <1>4. ASSUME NEW h \in Handlers, Pass(h) PROVE Receipted'
    BY <1>1, <1>4, ReceiptedQuiet, ReceiptedRows, ReceiptedFail, ReceiptedForward DEF Pass
  <1> QED
    BY <1>1, <1>2, <1>3, <1>4, ReceiptedQuiet, ReceiptedHandle, ReceiptedRestart DEF Next

\* minReceiptTime passes no expected read receipt that was not reported
\* (client.go:237, messages.go:222), whatever order the receipts are found in.
THEOREM NoReceiptSkipped == Spec => []ReceiptsNotSkipped
  <1>1. Spec => []Receipted
    BY ReceiptedInit, ReceiptedNext, TypeCorrect, InductiveHolds, PTL DEF Spec
  <1>2. TypeOK /\ Receipted => ReceiptsNotSkipped
    BY ReadTimesAreNumbers DEF Receipted, Acknowledged, Expected, Accounted, ReceiptsNotSkipped
  <1> QED
    BY <1>1, <1>2, TypeCorrect, PTL

=============================================================================
