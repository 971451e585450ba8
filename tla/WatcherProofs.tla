---------------------------- MODULE WatcherProofs ----------------------------
(***************************************************************************)
(* Theorems about Watcher, for any number of rows, goroutines and moments. *)
(***************************************************************************)
EXTENDS Watcher, TLAPS

-----------------------------------------------------------------------------
(* Stamps                                                                  *)

\* Stamp picks one of the three times of a row or of a snapshot.
LEMMA StampIsATime ==
    ASSUME NEW m, m.date \in Times, m.edited \in Times, m.retracted \in Times
    PROVE  /\ Stamp(m) \in Times
           /\ Stamp(m) \in {m.date, m.edited, m.retracted}
           /\ m.date <= Stamp(m) /\ m.edited <= Stamp(m) /\ m.retracted <= Stamp(m)
  BY WatcherAssumption DEF Stamp, Later, Times

\* All times on record are times.
LEMMA RecordedTimes ==
    ASSUME TypeOK
    PROVE  AllStamps \subseteq Times /\ AllTimes \subseteq Times
  <1>1. History \in Times
    BY WatcherAssumption DEF Times
  <1>2. \A r \in Rows : {db[r].date, db[r].edited, db[r].retracted, db[r].read} \subseteq Times
    BY DEF TypeOK, DbTypes, Row
  <1> QED
    BY <1>1, <1>2 DEF AllStamps, AllTimes

-----------------------------------------------------------------------------
(* Types                                                                   *)

\* Every variable starts in its type.
LEMMA TypeInit == Init => TypeOK
  <1> SUFFICES ASSUME Init PROVE TypeOK
    OBVIOUS
  <1>1. History \in Times /\ 0 \in Times /\ MaxEvents \in Nat
    BY WatcherAssumption DEF Times
  <1>2. Absent \in Row
    BY <1>1 DEF Absent, Row, Flaws
  <1>3. DbTypes
    BY <1>1, <1>2 DEF Init, DbTypes
  <1>4. WatchTypes
    BY DEF Init, WatchTypes
  <1>5. PassTypes
    BY <1>1 DEF Init, PassTypes, PCs
  <1>6. LoopTypes
    BY DEF Init, LoopTypes
  <1>7. OutTypes
    BY <1>1 DEF Init, OutTypes
  <1>8. GhostTypes
    BY DEF Init, GhostTypes
  <1> QED
    BY <1>3, <1>4, <1>5, <1>6, <1>7, <1>8 DEF TypeOK

\* What the app does keeps the types: it only writes rows.
LEMMA TypeApp == TypeOK /\ App => TypeOK'
  <1> SUFFICES ASSUME TypeOK, App PROVE TypeOK'
    OBVIOUS
  <1>1. fsEvents \in 0 .. MaxEvents /\ MaxEvents \in Nat
    BY WatcherAssumption DEF TypeOK, DbTypes
  <1>2. Raised \in 0 .. MaxEvents
    BY <1>1 DEF Raised
  <1>3. 1 .. MaxTime \subseteq Times /\ 0 \in Times
    BY WatcherAssumption DEF Times
  <1>4. Absent \in Row
    BY <1>3 DEF Absent, Row, Flaws
  <1>5. ASSUME AppLeaves
        PROVE  (WatchTypes /\ PassTypes /\ LoopTypes /\ OutTypes)'
               /\ UNCHANGED <<reportedUnsent, owed>>
    <2>1. WatchTypes'
      BY <1>5 DEF AppLeaves, TypeOK, WatchTypes, watchVars
    <2>2. PassTypes'
      BY <1>5 DEF AppLeaves, TypeOK, PassTypes, passVars
    <2>3. LoopTypes'
      BY <1>5 DEF AppLeaves, TypeOK, LoopTypes, loopVars
    <2>4. OutTypes'
      BY <1>5 DEF AppLeaves, TypeOK, OutTypes, outVars, startVars
    <2> QED
      BY <1>5, <2>1, <2>2, <2>3, <2>4 DEF AppLeaves
  <1>6. ASSUME NEW r \in Rows, NEW m \in Row, NEW t, Commit(r, m, t) PROVE TypeOK'
    <2>1. DbTypes'
      BY <1>2, <1>6 DEF Commit, TypeOK, DbTypes
    <2>2. GhostTypes'
      BY <1>5, <1>6 DEF Commit, TypeOK, GhostTypes
    <2> QED
      BY <1>5, <1>6, <2>1, <2>2 DEF Commit, TypeOK
  <1>7. ASSUME NEW r \in Rows PROVE db[r] \in Row
    BY DEF TypeOK, DbTypes
  <1>8. CASE Touch
    BY <1>2, <1>5, <1>8 DEF Touch, TypeOK, DbTypes, GhostTypes
  <1>9. ASSUME NEW r \in Rows, Insert(r) PROVE TypeOK'
    <2>1. PICK t \in 1 .. MaxTime, sent \in BOOLEAN, flaw \in Flaws :
             Commit(r, [Absent EXCEPT !.date = t, !.sent = sent, !.flaw = flaw], t)
      BY <1>9 DEF Insert
    <2>2. [Absent EXCEPT !.date = t, !.sent = sent, !.flaw = flaw] \in Row
      BY <1>3, <1>4 DEF Row
    <2> QED
      BY <1>6, <2>1, <2>2
  <1>10. ASSUME NEW r \in Rows, Edit(r) PROVE TypeOK'
    <2>1. PICK t \in 1 .. MaxTime, flaw \in {db[r].flaw, "undecodable"} :
             Commit(r, [db[r] EXCEPT !.edited = t, !.flaw = flaw], t)
      BY <1>10 DEF Edit
    <2>2. [db[r] EXCEPT !.edited = t, !.flaw = flaw] \in Row
      BY <1>3, <1>7 DEF Row, Flaws
    <2> QED
      BY <1>6, <2>1, <2>2
  <1>11. ASSUME NEW r \in Rows, Retract(r) PROVE TypeOK'
    <2>1. PICK t \in 1 .. MaxTime : Commit(r, [db[r] EXCEPT !.retracted = t], t)
      BY <1>11 DEF Retract
    <2>2. [db[r] EXCEPT !.retracted = t] \in Row
      BY <1>3, <1>7 DEF Row
    <2> QED
      BY <1>6, <2>1, <2>2
  <1>12. ASSUME NEW r \in Rows, MarkSent(r) PROVE TypeOK'
    <2>1. [db[r] EXCEPT !.sent = TRUE] \in Row
      BY <1>7 DEF Row
    <2>2. DbTypes'
      BY <1>2, <1>12, <2>1 DEF MarkSent, TypeOK, DbTypes
    <2> QED
      BY <1>5, <1>12, <2>2 DEF MarkSent, TypeOK, GhostTypes
  <1>13. ASSUME NEW r \in Rows, MarkRead(r) PROVE TypeOK'
    <2>1. PICK t \in 1 .. MaxTime :
             /\ db' = [db EXCEPT ![r].read = t]
             /\ excused' = IF InOrderRead(t) THEN excused
                           ELSE [excused EXCEPT !["lateRead"] = @ \cup {r}]
      BY <1>13 DEF MarkRead
    <2>2. [db[r] EXCEPT !.read = t] \in Row
      BY <1>3, <1>7 DEF Row
    <2>3. DbTypes'
      BY <1>2, <1>13, <2>1, <2>2 DEF MarkRead, TypeOK, DbTypes
    <2>4. GhostTypes'
      BY <1>5, <1>13, <2>1 DEF MarkRead, TypeOK, GhostTypes
    <2> QED
      BY <1>5, <1>13, <2>3, <2>4 DEF MarkRead, TypeOK
  <1> QED
    BY <1>8, <1>9, <1>10, <1>11, <1>12, <1>13 DEF App

\* The loops and the framework keep the types.
LEMMA TypeLoops ==
    ASSUME TypeOK,
           WatchLoop \/ StoreVisible \/ StopWatching \/ WatcherError
           \/ HandleMessage \/ HandleReceipt \/ StopHandling
           \/ DisconnectWatcher \/ DisconnectLoop
    PROVE  TypeOK'
  <1> USE DEF dbVars, watchVars, passVars, loopVars, outVars, ghostVars, startVars
  <1>1. fsEvents \in 0 .. MaxEvents /\ MaxEvents \in Nat
    BY WatcherAssumption DEF TypeOK, DbTypes
  <1>2. CASE SkipEvent
    <2>1. DbTypes'
      BY <1>1, <1>2 DEF SkipEvent, TypeOK, DbTypes
    <2> QED
      BY <1>2, <2>1 DEF SkipEvent, TypeOK, WatchTypes, PassTypes, LoopTypes, OutTypes, GhostTypes
  <1>3. ASSUME NEW h \in Handlers, SpawnPass(h) PROVE TypeOK'
    <2>1. DbTypes'
      BY <1>1, <1>3 DEF SpawnPass, TypeOK, DbTypes
    <2>2. PassTypes'
      BY <1>3 DEF SpawnPass, TypeOK, PassTypes, PCs
    <2> QED
      BY <1>3, <2>1, <2>2 DEF SpawnPass, TypeOK, WatchTypes, LoopTypes, OutTypes, GhostTypes
  <1>4. CASE StoreVisible
    BY <1>4 DEF StoreVisible, TypeOK, DbTypes, WatchTypes, PassTypes, LoopTypes, OutTypes, GhostTypes
  <1>5. CASE StopWatching
    BY <1>5 DEF StopWatching, TypeOK, DbTypes, WatchTypes, PassTypes, LoopTypes, OutTypes, GhostTypes
  <1>6. CASE WatcherError
    BY <1>6 DEF WatcherError, TypeOK, DbTypes, WatchTypes, PassTypes, LoopTypes, OutTypes, GhostTypes
  <1>7. CASE HandleMessage
    <2>1. PICK m \in hand \cap Snapshot :
             /\ shown' = [shown EXCEPT ![m.row] = Stamp(m)]
             /\ newCount' = IF IsNew(m) THEN [newCount EXCEPT ![m.row] = @ + 1] ELSE newCount
      BY <1>7 DEF HandleMessage
    <2>2. m.row \in Rows /\ {m.date, m.edited, m.retracted} \subseteq Times
      BY DEF Snapshot
    <2>3. Stamp(m) \in Times
      BY <2>2, StampIsATime
    <2>4. OutTypes'
      <3>1. shown \in [Rows -> Times] /\ newCount \in [Rows -> Nat]
        BY DEF TypeOK, OutTypes
      <3>2. shown' \in [Rows -> Times]
        BY <2>1, <2>2, <2>3, <3>1
      <3>3. newCount' \in [Rows -> Nat]
        BY <2>1, <2>2, <3>1
      <3> QED
        BY <1>7, <3>2, <3>3 DEF HandleMessage, TypeOK, OutTypes
    <2> QED
      BY <1>7, <2>4 DEF HandleMessage, TypeOK, DbTypes, WatchTypes, PassTypes, LoopTypes, GhostTypes
  <1>8. CASE HandleReceipt
    <2>1. OutTypes'
      BY <1>8 DEF HandleReceipt, TypeOK, OutTypes, Receipt
    <2> QED
      BY <1>8, <2>1 DEF HandleReceipt, TypeOK, DbTypes, WatchTypes, PassTypes, LoopTypes, GhostTypes
  <1>9. CASE StopHandling
    BY <1>9 DEF StopHandling, TypeOK, DbTypes, WatchTypes, PassTypes, LoopTypes, OutTypes, GhostTypes
  <1>10. CASE DisconnectWatcher
    BY <1>10 DEF DisconnectWatcher, TypeOK, DbTypes, WatchTypes, PassTypes, LoopTypes, OutTypes, GhostTypes
  <1>11. CASE DisconnectLoop
    BY <1>11 DEF DisconnectLoop, TypeOK, DbTypes, WatchTypes, PassTypes, LoopTypes, OutTypes, GhostTypes
  <1> QED
    BY <1>2, <1>3, <1>4, <1>5, <1>6, <1>7, <1>8, <1>9, <1>10, <1>11 DEF WatchLoop

\* A new process starts in the types.
LEMMA TypeRestart == TypeOK /\ Restart => TypeOK'
  <1> SUFFICES ASSUME TypeOK, Restart PROVE TypeOK'
    OBVIOUS
  <1>1. maxTs' \in Times /\ startTs' \in Times /\ minReceipt' \in Times /\ startRead' \in Times
    BY RecordedTimes DEF Restart, Newest
  <1>2. DbTypes'
    BY WatcherAssumption DEF Restart, TypeOK, DbTypes
  <1>3. WatchTypes'
    BY DEF Restart, WatchTypes
  <1>4. PassTypes'
    BY <1>1 DEF Restart, PassTypes, PCs
  <1>5. LoopTypes'
    BY DEF Restart, LoopTypes
  <1>6. OutTypes'
    BY <1>1 DEF Restart, TypeOK, OutTypes, outVars
  <1>7. GhostTypes'
    BY DEF Restart, GhostTypes
  <1> QED
    BY <1>2, <1>3, <1>4, <1>5, <1>6, <1>7 DEF TypeOK

\* The steps of a pass keep the types.
LEMMA TypePass ==
    ASSUME TypeOK, NEW h \in Handlers, Pass(h)
    PROVE  TypeOK'
  <1> USE DEF dbVars, watchVars, passVars, loopVars, outVars, ghostVars, startVars
  <1>1. ASSUME NEW r \in Rows PROVE db[r] \in Row /\ SnapshotOf(r) \in Snapshot
    BY DEF TypeOK, DbTypes, Row, SnapshotOf, Snapshot
  <1>2. CASE Lock(h)
    <2>1. PassTypes'
      BY <1>2 DEF Lock, TypeOK, PassTypes, PCs
    <2> QED
      BY <1>2, <2>1 DEF Lock, TypeOK, DbTypes, WatchTypes, LoopTypes, OutTypes, GhostTypes
  <1>3. CASE MessagesRead(h)
    <2>1. PICK P \in SUBSET DueMessages :
             /\ batch' = [batch EXCEPT ![h] = {SnapshotOf(r) : r \in P}]
             /\ owed' = (owed /\ P # DueMessages)
             /\ excused' = [excused EXCEPT !["cut"] = (@ \ P) \cup (DueMessages \ P)]
      BY <1>3 DEF MessagesRead
    <2>2. {SnapshotOf(r) : r \in P} \subseteq Snapshot
      BY <1>1 DEF DueMessages
    <2>3. PassTypes'
      BY <1>3, <2>1, <2>2 DEF MessagesRead, TypeOK, PassTypes, PCs
    <2>4. excused' \in [Losses -> SUBSET Rows]
      BY <2>1 DEF TypeOK, GhostTypes, DueMessages
    <2>5. owed' \in BOOLEAN
      BY <2>1 DEF TypeOK, GhostTypes
    <2>6. GhostTypes'
      BY <1>3, <2>4, <2>5 DEF MessagesRead, TypeOK, GhostTypes
    <2> QED
      BY <1>3, <2>3, <2>6 DEF MessagesRead, TypeOK, DbTypes, WatchTypes, LoopTypes, OutTypes
  <1>4. CASE MessagesUnread(h)
    <2>1. PassTypes'
      BY <1>4 DEF MessagesUnread, TypeOK, PassTypes, PCs
    <2> QED
      BY <1>4, <2>1 DEF MessagesUnread, TypeOK, DbTypes, WatchTypes, LoopTypes, OutTypes, GhostTypes
  <1>5. ASSUME NEW m \in batch[h]
        PROVE  m \in Snapshot /\ m.row \in Rows /\ Later(maxTs, m.date) \in Times
    BY DEF TypeOK, PassTypes, Snapshot, Later
  <1>6. CASE HandOver(h)
    <2>1. PassTypes'
      BY <1>5, <1>6 DEF HandOver, TypeOK, PassTypes
    <2>2. LoopTypes'
      BY <1>5, <1>6 DEF HandOver, TypeOK, LoopTypes
    <2>3. GhostTypes'
      BY <1>5, <1>6 DEF HandOver, TypeOK, GhostTypes
    <2> QED
      BY <1>6, <2>1, <2>2, <2>3 DEF HandOver, TypeOK, DbTypes, WatchTypes, OutTypes
  <1>7. CASE Swallow(h)
    <2>1. PassTypes'
      BY <1>5, <1>7 DEF Swallow, TypeOK, PassTypes
    <2>2. PICK m \in batch[h] :
             /\ excused' = IF m.row \in reportedUnsent
                           THEN [excused EXCEPT !["heldBack"] = @ \cup {m.row}] ELSE excused
             /\ reportedUnsent' = reportedUnsent \ {m.row}
      BY <1>7 DEF Swallow
    <2>3. excused' \in [Losses -> SUBSET Rows]
      BY <1>5, <2>2 DEF TypeOK, GhostTypes
    <2>4. GhostTypes'
      BY <1>7, <2>2, <2>3 DEF Swallow, TypeOK, GhostTypes
    <2> QED
      BY <1>7, <2>1, <2>4 DEF Swallow, TypeOK, DbTypes, WatchTypes, LoopTypes, OutTypes
  <1>8. ASSUME NEW P \in SUBSET DueReceipts
        PROVE  /\ CursorAfter(P) \subseteq Times
               /\ {[row |-> r, at |-> db[r].read] : r \in P \ OwnInGroup} \subseteq Receipt
    <2>1. minReceipt \in Times
      BY DEF TypeOK, PassTypes
    <2>2. \A r \in P : r \in Rows /\ db[r].read \in Times
      BY <1>1 DEF DueReceipts, Row
    <2>3. CursorAfter(P) \subseteq Times
      BY <2>1, <2>2 DEF CursorAfter
    <2>4. \A r \in P : [row |-> r, at |-> db[r].read] \in Receipt
      BY <2>2 DEF Receipt
    <2> QED
      BY <2>3, <2>4
  <1>9. CASE ReceiptsRead(h)
    <2>1. PassTypes'
      BY <1>8, <1>9 DEF ReceiptsRead, TypeOK, PassTypes, PCs
    <2>2. GhostTypes'
      BY <1>9 DEF ReceiptsRead, TypeOK, GhostTypes, DueReceipts
    <2> QED
      BY <1>9, <2>1, <2>2 DEF ReceiptsRead, TypeOK, DbTypes, WatchTypes, LoopTypes, OutTypes
  <1>10. CASE ReceiptsUnread(h)
    <2>1. minReceipt' \in Times
      BY <1>8, <1>10 DEF ReceiptsUnread, TypeOK, PassTypes
    <2>2. PassTypes'
      BY <1>10, <2>1 DEF ReceiptsUnread, TypeOK, PassTypes, PCs
    <2>3. GhostTypes'
      BY <1>10 DEF ReceiptsUnread, TypeOK, GhostTypes, DueReceipts
    <2> QED
      BY <1>10, <2>2, <2>3 DEF ReceiptsUnread, TypeOK, DbTypes, WatchTypes, LoopTypes, OutTypes
  <1>11. CASE HandOverReceipt(h)
    <2>1. PassTypes'
      BY <1>11 DEF HandOverReceipt, TypeOK, PassTypes
    <2>2. LoopTypes'
      BY <1>11 DEF HandOverReceipt, TypeOK, LoopTypes, PassTypes
    <2> QED
      BY <1>11, <2>1, <2>2 DEF HandOverReceipt, TypeOK, DbTypes, WatchTypes, OutTypes, GhostTypes
  <1>12. CASE FinishPass(h)
    <2>1. PassTypes'
      BY <1>12 DEF FinishPass, TypeOK, PassTypes, PCs
    <2> QED
      BY <1>12, <2>1 DEF FinishPass, TypeOK, DbTypes, WatchTypes, LoopTypes, OutTypes, GhostTypes
  <1>13. CASE Unlock(h)
    <2>1. PassTypes'
      BY <1>13 DEF Unlock, TypeOK, PassTypes, PCs
    <2> QED
      BY <1>13, <2>1 DEF Unlock, TypeOK, DbTypes, WatchTypes, LoopTypes, OutTypes, GhostTypes
  <1> QED
    BY <1>2, <1>3, <1>4, <1>6, <1>7, <1>9, <1>10, <1>11, <1>12, <1>13 DEF Pass

\* Every reachable state is well typed: the state of watchMessagesDBFile, of
\* its goroutines and of handleMessagesLoop (client.go:193-282) stays in range.
THEOREM TypeCorrect == Spec => []TypeOK
  <1>1. TypeOK /\ [Next]_vars => TypeOK'
    <2>1. ASSUME TypeOK, Next PROVE TypeOK'
      BY <2>1, TypeApp, TypeLoops, TypeRestart, TypePass DEF Next
    <2>2. ASSUME TypeOK, UNCHANGED vars PROVE TypeOK'
      BY <2>2 DEF vars, dbVars, watchVars, passVars, loopVars, outVars, ghostVars, startVars,
                  TypeOK, DbTypes, WatchTypes, PassTypes, LoopTypes, OutTypes, GhostTypes
    <2> QED
      BY <2>1, <2>2
  <1> QED
    BY TypeInit, <1>1, PTL DEF Spec
=============================================================================
