------------------------ MODULE WatcherSafetyProofs ------------------------
(***************************************************************************)
(* The inductive invariant of Watcher, and what follows from it: no change *)
(* is skipped, no message is announced twice, passes do not pile up.       *)
(***************************************************************************)
EXTENDS WatcherProofs

-----------------------------------------------------------------------------
(* The inductive invariant holds at first                                  *)

\* The initial state satisfies every part of the inductive invariant.
LEMMA InductiveInit == Init => Inductive
  <1> SUFFICES ASSUME Init PROVE Inductive
    OBVIOUS
  <1>1. Serialized
    BY DEF Init, Serialized, Working, PCs
  <1>2. \A r \in Rows : db[r].date = 0 /\ Stamp(db[r]) = 0 /\ db[r].edited = 0 /\ db[r].retracted = 0
    BY DEF Init, Absent, Stamp, Later
  <1>3. hand = {} /\ InHand = {} /\ \A h \in Handlers : batch[h] = {}
    BY DEF Init, InHand
  <1>4. \A r \in Rows : shown[r] = 0 /\ newCount[r] = 0
    BY DEF Init
  <1>5. maxTs = History /\ startTs = History /\ History \in Nat
    BY WatcherAssumption DEF Init
  <1>6. Versioned
    BY <1>2, <1>3, <1>4 DEF Versioned
  <1>7. Watermarked
    BY <1>5 DEF Watermarked
  <1>8. Announced
    BY <1>3, <1>4 DEF Announced
  <1>9. Tracked
    BY <1>2, <1>5 DEF Tracked, Init
  <1> QED
    BY <1>1, <1>6, <1>7, <1>8, <1>9 DEF Inductive

-----------------------------------------------------------------------------
(* Passes are serialized                                                   *)

\* Whatever leaves the goroutines and the flag alone leaves them serialized.
LEMMA SerializedStutter ==
    ASSUME Serialized, UNCHANGED <<pc, lock, skipEvents, batch, rbatch>>
    PROVE  Serialized'
  BY DEF Serialized, Working

\* A new pass starts only when none is at work.
LEMMA SerializedWatch ==
    ASSUME TypeOK, Serialized, WatchLoop \/ StoreVisible
    PROVE  Serialized'
  <1>1. CASE SkipEvent
    BY <1>1, SerializedStutter DEF SkipEvent, watchVars, passVars
  <1>2. ASSUME NEW h \in Handlers, SpawnPass(h) PROVE Serialized'
    <2>1. Working = {}
      BY <1>2 DEF SpawnPass, Serialized
    <2>2. pc' = [pc EXCEPT ![h] = "lock"] /\ pc \in [Handlers -> PCs]
      BY <1>2 DEF SpawnPass, TypeOK, PassTypes
    <2>3. Working' = {h}
      BY <2>1, <2>2 DEF Working
    <2>4. \A g \in Handlers : pc'[g] # "lock" => pc'[g] = pc[g]
      BY <2>2
    <2>5. \A g \in Handlers : pc'[g] \in PCs \ {"idle", "lock"} => lock' = g
      BY <1>2, <2>4 DEF SpawnPass, Serialized
    <2>6. \A g \in Handlers : (pc'[g] # "messages" => batch'[g] = {})
                              /\ (pc'[g] # "receipts" => rbatch'[g] = {})
      BY <1>2, <2>2 DEF SpawnPass, Serialized
    <2> QED
      BY <1>2, <2>3, <2>5, <2>6 DEF SpawnPass, Serialized
  <1>3. CASE StoreVisible
    <2>1. Working = {}
      BY <1>3 DEF StoreVisible, Serialized
    <2> QED
      BY <1>3, <2>1 DEF StoreVisible, Serialized, Working, passVars
  <1> QED
    BY <1>1, <1>2, <1>3 DEF WatchLoop

\* Every step of a pass is taken by the one that holds the lock, and the last
\* of them takes it out of the pass at work.
LEMMA SerializedPass ==
    ASSUME TypeOK, Serialized, NEW h \in Handlers, Pass(h)
    PROVE  Serialized'
  <1> USE DEF watchVars, passVars
  <1>1. pc \in [Handlers -> PCs] /\ batch \in [Handlers -> SUBSET Snapshot]
        /\ rbatch \in [Handlers -> SUBSET Receipt] /\ Nobody \notin Handlers
    BY WatcherAssumption DEF TypeOK, PassTypes
  \* A step from one working state of h to another, h holding the lock.
  <1>2. ASSUME pc[h] \in {"lock", "query", "messages", "receipts"},
               pc'[h] \in {"query", "messages", "receipts"},
               \A g \in Handlers \ {h} :
                   pc'[g] = pc[g] /\ batch'[g] = batch[g] /\ rbatch'[g] = rbatch[g],
               lock' = h, skipEvents' = skipEvents,
               \A g \in Handlers \ {h} : lock # g,
               pc'[h] # "messages" => batch'[h] = {},
               pc'[h] # "receipts" => rbatch'[h] = {}
        PROVE  Serialized'
    <2>1. h \in Working
      BY <1>2 DEF Working
    <2>2. Working' = Working
      BY <1>2 DEF Working
    <2>3. \A g \in Handlers \ {h} : pc'[g] \notin PCs \ {"idle", "lock"}
      BY <1>2 DEF Serialized
    <2> QED
      BY <1>2, <2>1, <2>2, <2>3 DEF Serialized
  <1>3. CASE Lock(h)
    <2>1. batch[h] = {} /\ rbatch[h] = {}
      BY <1>3 DEF Lock, Serialized
    <2> QED
      BY <1>1, <1>2, <1>3, <2>1 DEF Lock
  <1>4. pc[h] \in {"query", "messages", "receipts"} => lock = h
    BY DEF Serialized, PCs
  <1>5. CASE MessagesRead(h)
    <2>1. rbatch[h] = {} /\ lock = h
      BY <1>4, <1>5 DEF MessagesRead, Serialized
    <2> QED
      BY <1>1, <1>2, <1>5, <2>1 DEF MessagesRead
  <1>6. CASE MessagesUnread(h)
    <2>1. rbatch[h] = {} /\ lock = h
      BY <1>4, <1>6 DEF MessagesUnread, Serialized
    <2> QED
      BY <1>1, <1>2, <1>6, <2>1 DEF MessagesUnread
  <1>7. CASE HandOver(h)
    <2>1. rbatch[h] = {} /\ lock = h
      BY <1>4, <1>7 DEF HandOver, Serialized
    <2> QED
      BY <1>1, <1>2, <1>7, <2>1 DEF HandOver
  <1>8. CASE Swallow(h)
    <2>1. rbatch[h] = {} /\ lock = h
      BY <1>4, <1>8 DEF Swallow, Serialized
    <2> QED
      BY <1>1, <1>2, <1>8, <2>1 DEF Swallow
  <1>9. CASE ReceiptsRead(h)
    <2>1. lock = h
      BY <1>4, <1>9 DEF ReceiptsRead
    <2> QED
      BY <1>1, <1>2, <1>9, <2>1 DEF ReceiptsRead
  <1>10. CASE ReceiptsUnread(h)
    <2>1. lock = h
      BY <1>4, <1>10 DEF ReceiptsUnread
    <2> QED
      BY <1>1, <1>2, <1>10, <2>1 DEF ReceiptsUnread
  <1>11. CASE HandOverReceipt(h)
    <2>1. batch[h] = {} /\ lock = h
      BY <1>4, <1>11 DEF HandOverReceipt, Serialized
    <2> QED
      BY <1>1, <1>2, <1>11, <2>1 DEF HandOverReceipt
  <1>12. CASE FinishPass(h)
    <2>1. h \in Working /\ batch[h] = {}
      BY <1>12 DEF FinishPass, Working, Serialized
    <2>2. Working' = Working \ {h}
      BY <1>1, <1>12 DEF FinishPass, Working
    <2>3. Working' = {}
      BY <2>1, <2>2 DEF Serialized
    <2>4. \A g \in Handlers : pc'[g] \in PCs \ {"idle", "lock"} => lock' = g
      BY <1>1, <1>12 DEF FinishPass, Serialized, PCs
    <2>5. \A g \in Handlers : batch'[g] = {} \/ pc'[g] = "messages"
      BY <1>1, <1>12, <2>1 DEF FinishPass, Serialized
    <2>6. \A g \in Handlers : rbatch'[g] = {} \/ pc'[g] = "receipts"
      BY <1>1, <1>12 DEF FinishPass, Serialized
    <2> QED
      BY <2>3, <2>4, <2>5, <2>6 DEF Serialized
  <1>13. CASE Unlock(h)
    <2>1. lock = h
      BY <1>13 DEF Unlock, Serialized, PCs
    <2>2. Working' = Working
      BY <1>1, <1>13 DEF Unlock, Working
    <2>3. \A g \in Handlers : pc'[g] \notin PCs \ {"idle", "lock"}
      BY <1>1, <1>13, <2>1 DEF Unlock, Serialized
    <2> QED
      BY <1>1, <1>13, <2>2, <2>3 DEF Unlock, Serialized
  <1> QED
    BY <1>3, <1>5, <1>6, <1>7, <1>8, <1>9, <1>10, <1>11, <1>12, <1>13 DEF Pass

\* Every step keeps the passes serialized.
LEMMA SerializedNext == TypeOK /\ Serialized /\ Next => Serialized'
  <1> SUFFICES ASSUME TypeOK, Serialized, Next PROVE Serialized'
    OBVIOUS
  <1> USE DEF watchVars, passVars
  <1>1. CASE App
    <2>1. AppLeaves
      BY <1>1 DEF App, Touch, Insert, Edit, Retract, MarkSent, MarkRead, Commit
    <2> QED
      BY <2>1, SerializedStutter DEF AppLeaves
  <1>2. CASE StopWatching
    BY <1>2, SerializedStutter DEF StopWatching
  <1>3. CASE WatcherError
    BY <1>3, SerializedStutter DEF WatcherError
  <1>4. CASE HandleMessage
    BY <1>4, SerializedStutter DEF HandleMessage
  <1>5. CASE HandleReceipt
    BY <1>5, SerializedStutter DEF HandleReceipt
  <1>6. CASE StopHandling
    BY <1>6, SerializedStutter DEF StopHandling
  <1>7. CASE DisconnectWatcher
    BY <1>7, SerializedStutter DEF DisconnectWatcher
  <1>8. CASE DisconnectLoop
    BY <1>8, SerializedStutter DEF DisconnectLoop
  <1>9. CASE Restart
    BY <1>9 DEF Restart, Serialized, Working
  <1> QED
    BY <1>1, <1>2, <1>3, <1>4, <1>5, <1>6, <1>7, <1>8, <1>9, SerializedWatch, SerializedPass
    DEF Next

-----------------------------------------------------------------------------
(* Versions, the watermark and what is under way                           *)

Data == Versioned /\ Watermarked /\ Announced /\ Tracked

\* Snapshots and receipts are different things.
LEMMA SnapshotsAreNotReceipts == Snapshot \cap Receipt = {}
  <1>1. ASSUME NEW x \in Snapshot, x \in Receipt PROVE FALSE
    <2>1. DOMAIN x = {"row", "date", "edited", "retracted", "sent"}
      BY DEF Snapshot
    <2>2. DOMAIN x = {"row", "at"}
      BY <1>1 DEF Receipt
    <2> QED
      BY <2>1, <2>2
  <1> QED
    BY <1>1

\* The times of rows and snapshots, for arithmetic.
LEMMA TimesAreNumbers ==
    ASSUME TypeOK
    PROVE  /\ \A r \in Rows : /\ db[r].date \in Nat /\ db[r].edited \in Nat
                              /\ db[r].retracted \in Nat /\ Stamp(db[r]) \in Nat
                              /\ db[r].date <= Stamp(db[r]) /\ db[r].edited <= Stamp(db[r])
                              /\ db[r].retracted <= Stamp(db[r])
                              /\ Stamp(db[r]) \in {db[r].date, db[r].edited, db[r].retracted}
                              /\ shown[r] \in Nat /\ newCount[r] \in Nat
           /\ \A m \in Snapshot : m.row \in Rows /\ m.date \in Nat /\ Stamp(m) \in Nat
                               /\ m.date <= Stamp(m)
           /\ \A h \in Handlers : batch[h] \in SUBSET Snapshot
           /\ maxTs \in Nat /\ startTs \in Nat
  <1>1. Times \subseteq Nat
    BY WatcherAssumption DEF Times
  <1>2. ASSUME NEW r \in Rows
        PROVE  {db[r].date, db[r].edited, db[r].retracted, shown[r]} \subseteq Times
               /\ newCount[r] \in Nat
    BY DEF TypeOK, DbTypes, OutTypes, Row
  <1>3. ASSUME NEW m \in Snapshot
        PROVE  m.row \in Rows /\ {m.date, m.edited, m.retracted} \subseteq Times
    BY DEF Snapshot
  <1>4. maxTs \in Times /\ startTs \in Times /\ \A h \in Handlers : batch[h] \in SUBSET Snapshot
    BY DEF TypeOK, PassTypes, OutTypes
  <1>5. ASSUME NEW r \in Rows
        PROVE  /\ Stamp(db[r]) \in Nat
               /\ db[r].date <= Stamp(db[r]) /\ db[r].edited <= Stamp(db[r])
               /\ db[r].retracted <= Stamp(db[r])
               /\ Stamp(db[r]) \in {db[r].date, db[r].edited, db[r].retracted}
    BY <1>1, <1>2, StampIsATime
  <1>6. ASSUME NEW m \in Snapshot PROVE Stamp(m) \in Nat /\ m.date <= Stamp(m)
    BY <1>1, <1>3, StampIsATime
  <1> QED
    BY <1>1, <1>2, <1>3, <1>4, <1>5, <1>6

\* A step that changes no time of a message, and neither reads nor moves one.
LEMMA DataStutter ==
    ASSUME TypeOK, Data,
           UNCHANGED <<shown, newCount, InHand, batch, maxTs, startTs, nonSent, reportedUnsent>>,
           \A r \in Rows : /\ db'[r].date = db[r].date /\ db'[r].edited = db[r].edited
                           /\ db'[r].retracted = db[r].retracted,
           hand' = hand \/ \A x, y \in hand' : x = y,
           \A l \in {"late", "cut", "heldBack"} : excused'[l] = excused[l]
    PROVE  Data'
  <1>1. \A r \in Rows : Stamp(db[r])' = Stamp(db[r])
    BY DEF Stamp
  <1>2. \A x \in InHand : x.row \in Rows
    BY TimesAreNumbers DEF InHand
  <1>3. \A h \in Handlers : \A m \in batch[h] : m.row \in Rows
    BY TimesAreNumbers
  <1>4. ASSUME NEW m, m.row \in Rows PROVE IsVersion(m)' = IsVersion(m)
    BY <1>1, <1>4 DEF IsVersion
  <1>5. Versioned'
    BY <1>1, <1>2, <1>3, <1>4 DEF Data, Versioned
  <1>6. Watermarked'
    BY DEF Data, Watermarked
  <1>7. Announced'
    BY DEF Data, Announced
  <1>8. \A r \in Rows : Excused(r)' = Excused(r)
    BY DEF Excused
  <1>9. \A r \in Rows : InFlight(r)' = InFlight(r) /\ Ahead(r)' = Ahead(r)
    BY <1>1 DEF InFlight, Ahead
  <1>10. Tracked'
    BY <1>1, <1>8, <1>9 DEF Data, Tracked
  <1> QED
    BY <1>5, <1>6, <1>7, <1>10 DEF Data

\* The steps DataStutter covers.
LEMMA DataQuiet ==
    ASSUME TypeOK, Serialized, Data,
           \/ WatchLoop \/ StoreVisible \/ StopWatching \/ WatcherError
           \/ StopHandling \/ DisconnectWatcher \/ DisconnectLoop \/ HandleReceipt
           \/ Touch \/ \E r \in Rows : MarkRead(r) \/ MarkSent(r)
           \/ \E h \in Handlers : \/ Lock(h) \/ MessagesUnread(h)
                                  \/ ReceiptsRead(h) \/ ReceiptsUnread(h) \/ HandOverReceipt(h)
                                  \/ FinishPass(h) \/ Unlock(h)
    PROVE  Data'
  <1> USE DEF dbVars, watchVars, passVars, loopVars, outVars, ghostVars, startVars
  <1>1. excused \in [Losses -> SUBSET Rows] /\ hand \subseteq Snapshot \cup Receipt
        /\ rbatch \in [Handlers -> SUBSET Receipt]
    BY DEF TypeOK, GhostTypes, LoopTypes, PassTypes
  <1>2. \A x, y \in hand : x = y
    BY DEF Data, Versioned
  <1>3. CASE WatchLoop
    BY <1>3, DataStutter DEF WatchLoop, SpawnPass, SkipEvent, InHand
  <1>4. CASE StoreVisible \/ StopWatching \/ WatcherError \/ StopHandling
             \/ DisconnectWatcher \/ DisconnectLoop
    BY <1>4, DataStutter DEF StoreVisible, StopWatching, WatcherError, StopHandling,
       DisconnectWatcher, DisconnectLoop, InHand
  <1>5. CASE HandleReceipt
    <2>1. InHand = {} /\ InHand' = {}
      BY <1>2, <1>5, SnapshotsAreNotReceipts DEF HandleReceipt, InHand
    <2> QED
      BY <1>5, <2>1, DataStutter DEF HandleReceipt
  <1>6. CASE Touch
    BY <1>6, DataStutter DEF Touch, AppLeaves, InHand
  <1>7. ASSUME NEW h \in Handlers, Lock(h) \/ MessagesUnread(h) \/ FinishPass(h) \/ Unlock(h)
        PROVE  Data'
    BY <1>7, DataStutter DEF Lock, MessagesUnread, FinishPass, Unlock, InHand
  <1>8. ASSUME NEW h \in Handlers, ReceiptsRead(h) PROVE Data'
    <2>1. \A l \in {"late", "cut", "heldBack"} : excused'[l] = excused[l]
      BY <1>1, <1>8 DEF ReceiptsRead, Losses
    <2> QED
      BY <1>8, <2>1, DataStutter DEF ReceiptsRead, InHand
  <1>9. ASSUME NEW h \in Handlers, ReceiptsUnread(h) PROVE Data'
    <2>1. excused' = excused
          \/ excused' = [excused EXCEPT !["cutRead"] = @ \cup DueReceipts]
      BY <1>9 DEF ReceiptsUnread
    <2>2. \A l \in {"late", "cut", "heldBack"} : excused'[l] = excused[l]
      BY <1>1, <2>1 DEF Losses
    <2> QED
      BY <1>9, <2>2, DataStutter DEF ReceiptsUnread, InHand
  <1>10. ASSUME NEW h \in Handlers, HandOverReceipt(h) PROVE Data'
    <2>1. InHand = {} /\ InHand' = {} /\ \A x, y \in hand' : x = y
      BY <1>1, <1>10, SnapshotsAreNotReceipts DEF HandOverReceipt, InHand
    <2> QED
      BY <1>10, <2>1, DataStutter DEF HandOverReceipt
  <1>11. ASSUME NEW r \in Rows, MarkRead(r) \/ MarkSent(r) PROVE Data'
    <2>1. db \in [Rows -> Row]
      BY DEF TypeOK, DbTypes
    <2>2. (\E t : db' = [db EXCEPT ![r].read = t]) \/ db' = [db EXCEPT ![r].sent = TRUE]
      BY <1>11 DEF MarkRead, MarkSent
    <2>3. \A q \in Rows : db[q] \in Row
      BY <2>1
    <2>4. \A q \in Rows : /\ db'[q].date = db[q].date /\ db'[q].edited = db[q].edited
                          /\ db'[q].retracted = db[q].retracted
      BY <2>1, <2>2, <2>3 DEF Row
    <2>5. AppLeaves
      BY <1>11 DEF MarkRead, MarkSent
    <2>6. \A l \in {"late", "cut", "heldBack"} : excused'[l] = excused[l]
      BY <1>1, <1>11 DEF MarkRead, MarkSent, Losses
    <2> QED
      BY <2>4, <2>5, <2>6, DataStutter DEF AppLeaves, InHand, passVars, loopVars, outVars, startVars
  <1> QED
    BY <1>3, <1>4, <1>5, <1>6, <1>7, <1>8, <1>9, <1>10, <1>11

\* A change the app commits in order is ahead of the watermark; one out of order
\* is excused.  No version of the row under way becomes wrong by it.
LEMMA DataCommit ==
    ASSUME TypeOK, Data, NEW r \in Rows, NEW m \in Row, NEW t \in 1 .. MaxTime,
           Commit(r, m, t),
           Stamp(db[r]) <= Stamp(m), t <= Stamp(m), m.date # 0,
           db[r].date # 0 => m.date = db[r].date
    PROVE  Data'
  <1>1. db \in [Rows -> Row] /\ excused \in [Losses -> SUBSET Rows]
    BY DEF TypeOK, DbTypes, GhostTypes
  <1>2. db' = [db EXCEPT ![r] = m] /\ AppLeaves
    BY DEF Commit
  <1>3. db'[r] = m /\ \A q \in Rows \ {r} : db'[q] = db[q]
    BY <1>1, <1>2
  <1>4. UNCHANGED <<hand, batch, shown, newCount, maxTs, startTs, nonSent, reportedUnsent>>
    BY <1>2 DEF AppLeaves, passVars, loopVars, outVars, startVars
  <1>5. InHand' = InHand /\ (\A x \in InHand : x \in Snapshot)
        /\ (\A h \in Handlers : \A x \in batch[h] : x \in Snapshot)
    BY <1>4, TimesAreNumbers DEF InHand
  <1>6. Stamp(m) \in Nat /\ m.date \in Nat /\ t \in Nat
    <2>1. {m.date, m.edited, m.retracted} \subseteq Times /\ Times \subseteq Nat
      BY WatcherAssumption DEF Row, Times
    <2>2. Stamp(m) \in Times
      BY <2>1, StampIsATime
    <2>3. t \in Nat
      BY WatcherAssumption
    <2> QED
      BY <2>1, <2>2, <2>3
  <1>7. \A q \in Rows : db[q].date # 0 => db'[q].date = db[q].date
    BY <1>3
  <1>8. \A q \in Rows : Stamp(db[q]) <= Stamp(db'[q]) /\ Stamp(db'[q]) \in Nat
    BY <1>3, <1>6, TimesAreNumbers
  <1>9. ASSUME NEW x \in Snapshot, IsVersion(x) PROVE IsVersion(x)'
    <2>1. x.row \in Rows /\ Stamp(x) \in Nat
      BY TimesAreNumbers
    <2> QED
      BY <1>4, <1>7, <1>8, <1>9, <2>1, TimesAreNumbers DEF IsVersion
  <1>10. Versioned'
    <2>1. \A q \in Rows : shown'[q] <= Stamp(db'[q])
      BY <1>4, <1>8, TimesAreNumbers DEF Data, Versioned
    <2>2. \A q \in Rows : db'[q].date = 0 => db'[q].edited = 0 /\ db'[q].retracted = 0
      BY <1>3 DEF Data, Versioned
    <2> QED
      BY <1>4, <1>5, <1>9, <2>1, <2>2 DEF Data, Versioned
  <1>11. Watermarked'
    <2>1. \A q \in Rows : db[q].date <= db'[q].date /\ db'[q].date \in Nat
      BY <1>3, <1>6, TimesAreNumbers
    <2> QED
      BY <1>4, <2>1, TimesAreNumbers DEF Data, Watermarked
  <1>12. Announced'
    BY <1>4, <1>5, <1>7 DEF Data, Announced
  <1>13. ASSUME NEW q \in Rows \ {r}
         PROVE  Excused(q)' = Excused(q) /\ InFlight(q)' = InFlight(q) /\ Ahead(q)' = Ahead(q)
    <2>1. \A l \in {"late", "cut", "heldBack"} : q \in excused'[l] <=> q \in excused[l]
      BY <1>1 DEF Commit, Losses
    <2> QED
      BY <1>3, <1>4, <1>5, <2>1 DEF Excused, InFlight, Ahead
  <1>14. CASE InOrder(t)
    <2>1. maxTs < t
      BY <1>6, <1>14, TimesAreNumbers DEF Data, Watermarked, InOrder
    <2>2. ASSUME NEW h \in Handlers, NEW x \in batch[h] PROVE x.date < t
      <3>1. x.row \in Rows /\ x.date = db[x.row].date
        BY TimesAreNumbers DEF Data, Versioned, IsVersion
      <3> QED
        BY <1>14, <3>1 DEF InOrder
    <2>3. Ahead(r)'
      BY <1>3, <1>4, <1>5, <1>6, <2>1, <2>2, TimesAreNumbers DEF Ahead
    <2> QED
      BY <1>3, <1>4, <1>10, <1>11, <1>12, <1>13, <2>3 DEF Data, Tracked
  <1>15. CASE ~InOrder(t)
    <2>1. Excused(r)'
      BY <1>1, <1>15 DEF Commit, Excused, Losses
    <2> QED
      BY <1>3, <1>4, <1>10, <1>11, <1>12, <1>13, <2>1 DEF Data, Tracked
  <1> QED
    BY <1>14, <1>15

\* What Commit(r, m, t) is called with: the row is written, keeps its date, and
\* its newest change is not taken back.
Succeeds(r, m, t) ==
    /\ Stamp(db[r]) <= Stamp(m) /\ t <= Stamp(m) /\ m.date # 0
    /\ db[r].date # 0 => m.date = db[r].date

\* Every write of the app that changes a time is such a commit.
LEMMA AppCommits ==
    ASSUME TypeOK, Data, NEW r \in Rows, Insert(r) \/ Edit(r) \/ Retract(r)
    PROVE  \E m \in Row, t \in 1 .. MaxTime : Commit(r, m, t) /\ Succeeds(r, m, t)
  <1>1. db[r] \in Row /\ 1 .. MaxTime \subseteq Times /\ Times \subseteq Nat /\ 0 \in Times
    BY WatcherAssumption DEF TypeOK, DbTypes, Times
  <1>2. Absent \in Row
    BY <1>1 DEF Absent, Row, Flaws
  <1>3. CASE Insert(r)
    <2>1. PICK t \in 1 .. MaxTime, sent \in BOOLEAN, flaw \in Flaws :
             Commit(r, [Absent EXCEPT !.date = t, !.sent = sent, !.flaw = flaw], t)
      BY <1>3 DEF Insert
    <2> DEFINE m == [Absent EXCEPT !.date = t, !.sent = sent, !.flaw = flaw]
    <2>2. m \in Row /\ m.date = t
      BY <1>1, <1>2 DEF Absent, Row
    <2>3. t \in Nat /\ t # 0 /\ Stamp(m) \in Nat /\ t <= Stamp(m)
      <3>1. t \in Nat /\ t # 0
        BY WatcherAssumption
      <3>2. {m.date, m.edited, m.retracted} \subseteq Times
        BY <2>2 DEF Row
      <3>3. Stamp(m) \in Times /\ m.date <= Stamp(m)
        BY <3>2, StampIsATime
      <3> QED
        BY <1>1, <2>2, <3>1, <3>3
    <2>4. db[r].date = 0 /\ db[r].edited = 0 /\ db[r].retracted = 0
      BY <1>3 DEF Insert, Data, Versioned
    <2>5. Stamp(db[r]) = 0
      BY <2>4 DEF Stamp, Later
    <2>6. Stamp(db[r]) <= Stamp(m)
      BY <2>3, <2>5
    <2> HIDE DEF m
    <2> QED
      BY <2>1, <2>2, <2>3, <2>4, <2>6 DEF m, Succeeds
  <1>4. CASE Edit(r)
    <2>1. PICK t \in 1 .. MaxTime, flaw \in {db[r].flaw, "undecodable"} :
             db[r].edited < t /\ Commit(r, [db[r] EXCEPT !.edited = t, !.flaw = flaw], t)
      BY <1>4 DEF Edit
    <2> DEFINE m == [db[r] EXCEPT !.edited = t, !.flaw = flaw]
    <2>2. m \in Row /\ m.date = db[r].date /\ m.edited = t /\ m.retracted = db[r].retracted
      BY <1>1 DEF Row, Flaws
    <2>3. t <= Stamp(m) /\ Stamp(db[r]) <= Stamp(m)
      BY <1>1, <2>1, <2>2 DEF Row, Stamp, Later
    <2>4. db[r].date # 0
      BY <1>4 DEF Edit
    <2> HIDE DEF m
    <2> QED
      BY <2>1, <2>2, <2>3, <2>4 DEF m, Succeeds
  <1>5. CASE Retract(r)
    <2>1. PICK t \in 1 .. MaxTime : Commit(r, [db[r] EXCEPT !.retracted = t], t)
      BY <1>5 DEF Retract
    <2> DEFINE m == [db[r] EXCEPT !.retracted = t]
    <2>2. m \in Row /\ m.date = db[r].date /\ m.edited = db[r].edited /\ m.retracted = t
      BY <1>1 DEF Row
    <2>3. db[r].date # 0 /\ db[r].retracted = 0
      BY <1>5 DEF Retract
    <2>4. t <= Stamp(m) /\ Stamp(db[r]) <= Stamp(m)
      BY <1>1, <2>2, <2>3 DEF Row, Stamp, Later
    <2> HIDE DEF m
    <2> QED
      BY <2>1, <2>2, <2>3, <2>4 DEF m, Succeeds
  <1> QED
    BY <1>3, <1>4, <1>5

\* So the app keeps versions, watermark and tracking intact.
LEMMA DataApp ==
    ASSUME TypeOK, Data, NEW r \in Rows, Insert(r) \/ Edit(r) \/ Retract(r)
    PROVE  Data'
  BY AppCommits, DataCommit DEF Succeeds

\* What a query returns is put under way as it is; what it does not return is
\* either cut off, or was behind the watermark and so reported or under way.
LEMMA DataMessagesRead ==
    ASSUME TypeOK, Serialized, Data, NEW h \in Handlers, MessagesRead(h)
    PROVE  Data'
  <1> USE DEF dbVars, loopVars, outVars, startVars
  <1>1. PICK P \in SUBSET DueMessages :
           /\ batch' = [batch EXCEPT ![h] = {SnapshotOf(r) : r \in P}]
           /\ excused' = [excused EXCEPT !["cut"] = (@ \ P) \cup (DueMessages \ P)]
    BY DEF MessagesRead
  <1>2. UNCHANGED <<db, hand, shown, newCount, maxTs, startTs, nonSent, reportedUnsent>>
    BY DEF MessagesRead
  <1>3. InHand' = InHand
    BY <1>2 DEF InHand
  <1>4. \A g \in Handlers : batch[g] = {}
    <2>1. h \in Working /\ pc[h] = "query"
      BY DEF MessagesRead, Working
    <2>2. \A g \in Handlers : pc[g] = "messages" => g \in Working
      BY DEF Working
    <2> QED
      BY <2>1, <2>2 DEF Serialized
  <1>5. batch'[h] = {SnapshotOf(r) : r \in P} /\ \A g \in Handlers \ {h} : batch'[g] = {}
    BY <1>1, <1>4 DEF TypeOK, PassTypes
  <1>6. \A r \in Rows : /\ SnapshotOf(r).row = r
                        /\ SnapshotOf(r).date = db[r].date
                        /\ SnapshotOf(r).edited = db[r].edited
                        /\ SnapshotOf(r).retracted = db[r].retracted
                        /\ Stamp(SnapshotOf(r)) = Stamp(db[r])
    BY DEF SnapshotOf, Stamp
  <1>7. P \subseteq Rows /\ \A r \in P : maxTs < Stamp(db[r]) /\ db[r].date # 0
    BY TimesAreNumbers DEF DueMessages, Data, Versioned
  <1>8. ASSUME NEW g \in Handlers, NEW m \in batch'[g]
        PROVE  \E r \in P : m = SnapshotOf(r) /\ g = h
    BY <1>5
  <1>9. Versioned'
    <2>1. ASSUME NEW g \in Handlers, NEW m \in batch'[g]
          PROVE  /\ IsVersion(m)'
                 /\ \A o \in batch'[g] : o.row = m.row => o = m
                 /\ \A x \in InHand' : x.row = m.row => Stamp(x)' <= Stamp(m)'
      <3>1. PICK r \in P : m = SnapshotOf(r)
        BY <1>8
      <3>2. IsVersion(m)'
        BY <1>2, <1>6, <1>7, <3>1, TimesAreNumbers DEF IsVersion, Data, Versioned
      <3>3. \A o \in batch'[g] : o.row = m.row => o = m
        BY <1>6, <1>7, <1>8, <3>1
      <3>4. \A x \in InHand : x.row = m.row => Stamp(x) <= Stamp(m)
        BY <1>6, <1>7, <3>1 DEF Data, Versioned, IsVersion
      <3> QED
        BY <1>3, <3>2, <3>3, <3>4
    <2>2. \A x \in InHand : IsVersion(x)' = IsVersion(x)
      BY <1>2 DEF IsVersion
    <2> QED
      BY <1>2, <1>3, <2>1, <2>2 DEF Data, Versioned
  <1>10. Watermarked'
    BY <1>2 DEF Data, Watermarked
  <1>11. Announced'
    <2>1. ASSUME NEW g \in Handlers, NEW m \in batch'[g], IsNew(m)
          PROVE  shown[m.row] = 0 /\ \A x \in InHand : x.row # m.row
      <3>1. PICK r \in P : m = SnapshotOf(r)
        BY <1>8
      <3>2. maxTs < db[r].date
        BY <1>6, <1>7, <2>1, <3>1, TimesAreNumbers DEF IsNew
      <3>3. shown[r] = 0
        BY <1>7, <3>2, TimesAreNumbers DEF Data, Announced
      <3>4. \A x \in InHand : x.row # r
        BY <1>7, <3>2, TimesAreNumbers DEF Data, Announced, Versioned, IsVersion
      <3> QED
        BY <1>6, <1>7, <3>1, <3>3, <3>4
    <2> QED
      BY <1>2, <1>3, <2>1 DEF Data, Announced
  <1>12. Tracked'
    <2>1. ASSUME NEW r \in Rows, startTs < Stamp(db[r]), ~Excused(r)'
          PROVE  shown[r] = Stamp(db[r]) \/ InFlight(r)'
      <3>1. CASE r \in P
        <4>1. SnapshotOf(r) \in batch'[h]
          BY <1>5, <3>1
        <4> QED
          BY <1>2, <1>6, <4>1 DEF InFlight
      <3>2. CASE r \notin P
        <4>1. r \notin excused'["cut"]
          BY <2>1 DEF Excused
        <4>2. r \notin DueMessages /\ ~Excused(r)
          BY <1>1, <2>1, <3>2, <4>1 DEF TypeOK, GhostTypes, Losses, Excused
        <4>3. Stamp(db[r]) <= maxTs
          BY <4>2, TimesAreNumbers DEF DueMessages
        <4>4. ~Ahead(r)
          BY <4>3, TimesAreNumbers DEF Ahead
        <4>5. shown[r] = Stamp(db[r]) \/ InFlight(r)
          BY <2>1, <4>2, <4>4 DEF Data, Tracked
        <4>6. InFlight(r) => InFlight(r)'
          BY <1>2, <1>3, <1>4 DEF InFlight
        <4> QED
          BY <4>5, <4>6
      <3> QED
        BY <3>1, <3>2
    <2> QED
      BY <1>2, <2>1 DEF Data, Tracked
  <1> QED
    BY <1>9, <1>10, <1>11, <1>12 DEF Data

\* A message handed over or swallowed raises the watermark to its date, which
\* what is ahead of the batch stays ahead of.
LEMMA DataTake ==
    ASSUME TypeOK, Serialized, Data, NEW h \in Handlers, NEW m \in batch[h],
           maxTs' = Later(maxTs, m.date),
           batch' = [batch EXCEPT ![h] = @ \ {m}],
           hand' = hand \/ (hand = {} /\ hand' = {m}),
           UNCHANGED <<db, shown, newCount, startTs>>
    PROVE  /\ Versioned' /\ Watermarked' /\ Announced'
           /\ \A r \in Rows : Ahead(r) => Ahead(r)'
           /\ \A r \in Rows : InFlight(r) =>
                 InFlight(r)' \/ (hand' = hand /\ m.row = r /\ Stamp(m) = Stamp(db[r]))
  <1>1. m \in Snapshot /\ m.row \in Rows /\ IsVersion(m) /\ db[m.row].date = m.date
    BY TimesAreNumbers DEF Data, Versioned, IsVersion
  <1>2. \A g \in Handlers : batch'[g] \subseteq batch[g] /\ \A x \in batch[g] : x # m => x \in batch'[g]
    BY DEF TypeOK, PassTypes
  <1>3. m \notin batch'[h]
    BY DEF TypeOK, PassTypes
  <1>4. InHand' = InHand \/ (InHand = {} /\ InHand' = {m} /\ hand' = {m})
    BY <1>1 DEF InHand
  <1>5. maxTs' \in Nat /\ maxTs <= maxTs' /\ m.date <= maxTs' /\ maxTs' \in {maxTs, m.date}
    BY <1>1, TimesAreNumbers DEF Later
  <1>6. ASSUME NEW x PROVE IsVersion(x)' = IsVersion(x)
    BY DEF IsVersion
  <1>7. \A x, y \in hand' : x = y
    BY DEF Data, Versioned
  <1>8. ASSUME NEW g \in Handlers, NEW x \in batch'[g]
        PROVE  /\ IsVersion(x)
               /\ \A o \in batch'[g] : o.row = x.row => o = x
               /\ \A y \in InHand' : y.row = x.row => Stamp(y) <= Stamp(x)
    <2>1. x \in batch[g] /\ IsVersion(x) /\ \A o \in batch'[g] : o.row = x.row => o = x
      BY <1>2 DEF Data, Versioned
    <2>2. CASE InHand' = InHand
      BY <2>1, <2>2 DEF Data, Versioned
    <2>3. CASE InHand' = {m} /\ x.row = m.row
      <3>1. g = h
        BY <2>1 DEF Serialized, Working
      <3>2. x = m
        BY <2>1, <2>3, <3>1 DEF Data, Versioned
      <3> QED
        BY <1>3, <3>1, <3>2
    <2>4. CASE InHand' = {m} /\ x.row # m.row
      BY <2>1, <2>4
    <2> QED
      BY <1>4, <2>1, <2>2, <2>3, <2>4
  <1>9. Versioned'
    <2>1. \A x \in InHand' : IsVersion(x)'
      BY <1>1, <1>4, <1>6 DEF Data, Versioned
    <2>2. \A r \in Rows : /\ shown'[r] <= Stamp(db[r])'
                          /\ (db[r].date = 0 => db[r].edited = 0 /\ db[r].retracted = 0)'
      BY DEF Data, Versioned
    <2>3. ASSUME NEW g \in Handlers, NEW x \in batch'[g]
          PROVE  /\ IsVersion(x)'
                 /\ \A o \in batch'[g] : o.row = x.row => o = x
                 /\ \A y \in InHand' : y.row = x.row => Stamp(y) <= Stamp(x)
      BY <1>6, <1>8
    <2> QED
      BY <1>7, <2>1, <2>2, <2>3 DEF Versioned
  <1>10. Watermarked'
    BY <1>1, <1>5 DEF Data, Watermarked
  <1>11. \A x \in InHand : x.date \in Nat
    BY TimesAreNumbers DEF InHand
  <1>12. Announced'
    <2>1. \A r \in Rows : shown'[r] # 0 => db'[r].date # 0 /\ db'[r].date <= maxTs'
      BY <1>5, TimesAreNumbers DEF Data, Announced
    <2>2. \A x \in InHand' : x.date <= maxTs' /\ (IsNew(x) => shown'[x.row] = 0)
      BY <1>4, <1>5, <1>11, TimesAreNumbers DEF Data, Announced
    <2>3. ASSUME NEW g \in Handlers, NEW x \in batch'[g], IsNew(x)
          PROVE  shown'[x.row] = 0 /\ \A y \in InHand' : y.row # x.row
      <3>1. x \in batch[g] /\ shown[x.row] = 0 /\ \A y \in InHand : y.row # x.row
        BY <1>2, <2>3 DEF Data, Announced
      <3>2. CASE InHand' = InHand
        BY <3>1, <3>2
      <3>3. CASE InHand' = {m} /\ x.row = m.row
        <4>1. g = h
          BY <3>1 DEF Serialized, Working
        <4>2. x = m
          BY <3>1, <3>3, <4>1 DEF Data, Versioned
        <4> QED
          BY <1>3, <2>3, <4>1, <4>2
      <3> QED
        BY <1>4, <3>1, <3>2, <3>3
    <2> QED
      BY <2>1, <2>2, <2>3 DEF Data, Announced
  <1>13. ASSUME NEW r \in Rows, Ahead(r) PROVE Ahead(r)'
    BY <1>2, <1>5, <1>13, TimesAreNumbers DEF Ahead
  <1>14. ASSUME NEW r \in Rows, InFlight(r)
         PROVE  InFlight(r)' \/ (hand' = hand /\ m.row = r /\ Stamp(m) = Stamp(db[r]))
    <2>1. CASE \E x \in InHand : x.row = r /\ Stamp(x) = Stamp(db[r])
      BY <1>4, <2>1 DEF InFlight
    <2>2. ASSUME NEW g \in Handlers, NEW x \in batch[g], x.row = r, Stamp(x) = Stamp(db[r])
          PROVE  InFlight(r)' \/ (hand' = hand /\ m.row = r /\ Stamp(m) = Stamp(db[r]))
      <3>1. CASE x # m
        BY <1>2, <2>2, <3>1 DEF InFlight
      <3>2. CASE x = m /\ InHand' = {m}
        BY <2>2, <3>2 DEF InFlight
      <3>3. CASE x = m /\ hand' = hand
        BY <2>2, <3>3
      <3> QED
        BY <1>1, <3>1, <3>2, <3>3 DEF InHand
    <2> QED
      BY <1>14, <2>1, <2>2 DEF InFlight
  <1> QED
    BY <1>9, <1>10, <1>12, <1>13, <1>14

\* Handing over a message, or taking it for a confirmation.
LEMMA DataForward ==
    ASSUME TypeOK, Serialized, Data, NEW h \in Handlers, HandOver(h) \/ Swallow(h)
    PROVE  Data'
  <1> USE DEF dbVars, loopVars, outVars, startVars
  <1>1. CASE HandOver(h)
    <2>1. PICK m \in batch[h] :
             /\ maxTs' = Later(maxTs, m.date)
             /\ batch' = [batch EXCEPT ![h] = @ \ {m}]
             /\ hand = {} /\ hand' = {m}
             /\ nonSent' = IF m.sent THEN nonSent ELSE nonSent \cup {m.row}
             /\ reportedUnsent' = IF m.sent THEN reportedUnsent \ {m.row}
                                            ELSE reportedUnsent \cup {m.row}
             /\ m.sent => m.row \notin nonSent
      BY <1>1 DEF HandOver
    <2>2. UNCHANGED <<db, shown, newCount, startTs, excused>>
      BY <1>1 DEF HandOver
    <2>3. /\ Versioned' /\ Watermarked' /\ Announced'
          /\ \A r \in Rows : Ahead(r) => Ahead(r)'
          /\ \A r \in Rows : InFlight(r) => InFlight(r)'
      BY <2>1, <2>2, DataTake
    <2>4. nonSent' \subseteq reportedUnsent'
      BY <2>1 DEF Data, Tracked
    <2>5. Tracked'
      BY <2>2, <2>3, <2>4 DEF Data, Tracked, Excused
    <2> QED
      BY <2>3, <2>5 DEF Data
  <1>2. CASE Swallow(h)
    <2>1. PICK m \in batch[h] :
             /\ maxTs' = Later(maxTs, m.date)
             /\ batch' = [batch EXCEPT ![h] = @ \ {m}]
             /\ m.row \in nonSent
             /\ nonSent' = nonSent \ {m.row}
             /\ reportedUnsent' = reportedUnsent \ {m.row}
             /\ excused' = IF m.row \in reportedUnsent
                           THEN [excused EXCEPT !["heldBack"] = @ \cup {m.row}] ELSE excused
      BY <1>2 DEF Swallow
    <2>2. UNCHANGED <<db, shown, newCount, startTs, hand>>
      BY <1>2 DEF Swallow
    <2>3. /\ Versioned' /\ Watermarked' /\ Announced'
          /\ \A r \in Rows : Ahead(r) => Ahead(r)'
          /\ \A r \in Rows : InFlight(r) => InFlight(r)' \/ m.row = r
      BY <2>1, <2>2, DataTake
    <2>4. nonSent' \subseteq reportedUnsent' /\ m.row \in reportedUnsent
      BY <2>1 DEF Data, Tracked
    <2>5. \A r \in Rows : Excused(r) => Excused(r)'
      BY <2>1 DEF Excused, TypeOK, GhostTypes, Losses
    <2>6. Excused(m.row)'
      BY <2>1, <2>4 DEF Excused, TypeOK, GhostTypes, Losses
    <2>7. Tracked'
      BY <2>2, <2>3, <2>4, <2>5, <2>6 DEF Data, Tracked
    <2> QED
      BY <2>3, <2>7 DEF Data
  <1> QED
    BY <1>1, <1>2

\* The item in hand is reported: it is no older than what was reported before,
\* and new only if nothing was.
LEMMA DataHandleMessage ==
    ASSUME TypeOK, Data, HandleMessage
    PROVE  Data'
  <1> USE DEF dbVars, passVars, startVars, ghostVars
  <1>1. PICK m \in InHand :
           /\ shown' = [shown EXCEPT ![m.row] = Stamp(m)]
           /\ newCount' = IF IsNew(m) THEN [newCount EXCEPT ![m.row] = @ + 1] ELSE newCount
    BY DEF HandleMessage, InHand
  <1>2. UNCHANGED <<db, batch, maxTs, startTs, nonSent, reportedUnsent, excused>>
        /\ hand' = {} /\ InHand' = {}
    BY DEF HandleMessage, InHand
  <1>3. m \in Snapshot /\ m.row \in Rows /\ IsVersion(m) /\ m.date <= maxTs
        /\ m.date = db[m.row].date /\ m.date # 0
        /\ (IsNew(m) => shown[m.row] = 0) /\ Stamp(m) \in Nat /\ Stamp(m) # 0
    BY TimesAreNumbers DEF InHand, Data, Versioned, Announced, IsVersion
  <1>4. shown \in [Rows -> Times] /\ newCount \in [Rows -> Nat]
    BY DEF TypeOK, OutTypes
  <1>5. shown'[m.row] = Stamp(m) /\ \A r \in Rows \ {m.row} : shown'[r] = shown[r]
    BY <1>1, <1>3, <1>4
  <1>6. (\A r \in Rows \ {m.row} : newCount'[r] = newCount[r])
        /\ newCount'[m.row] = IF IsNew(m) THEN newCount[m.row] + 1 ELSE newCount[m.row]
    BY <1>1, <1>3, <1>4
  <1>7. \A h \in Handlers : \A x \in batch[h] :
           /\ x \in Snapshot /\ x.row \in Rows /\ IsVersion(x)
           /\ x.row = m.row => Stamp(m) <= Stamp(x)
    BY TimesAreNumbers DEF Data, Versioned
  <1>8. Versioned'
    <2>1. \A r \in Rows : shown'[r] <= Stamp(db[r])
      BY <1>3, <1>5 DEF Data, Versioned, IsVersion
    <2>2. ASSUME NEW h \in Handlers, NEW x \in batch[h] PROVE IsVersion(x)'
      <3>1. shown'[x.row] <= Stamp(x)
        BY <1>5, <1>7 DEF IsVersion
      <3>2. IsVersion(x)
        BY <1>7
      <3> QED
        BY <1>2, <3>1, <3>2 DEF IsVersion
    <2> QED
      BY <1>2, <2>1, <2>2 DEF Data, Versioned
  <1>9. Watermarked'
    BY <1>2 DEF Data, Watermarked
  <1>10. Announced'
    <2>1. \A r \in Rows : newCount'[r] <= 1 /\ (newCount'[r] = 1 => shown'[r] # 0)
      <3>1. ASSUME NEW r \in Rows \ {m.row}
            PROVE  newCount'[r] <= 1 /\ (newCount'[r] = 1 => shown'[r] # 0)
        BY <1>5, <1>6 DEF Data, Announced
      <3>2. IsNew(m) => newCount[m.row] = 0
        BY <1>3, <1>4 DEF Data, Announced
      <3>3. newCount'[m.row] <= 1
        BY <1>3, <1>6, <3>2 DEF Data, Announced
      <3> QED
        BY <1>3, <1>5, <3>1, <3>3
    <2>2. \A r \in Rows : shown'[r] # 0 => db[r].date # 0 /\ db[r].date <= maxTs
      BY <1>3, <1>5 DEF Data, Announced
    <2>3. ASSUME NEW h \in Handlers, NEW x \in batch[h], IsNew(x) PROVE shown'[x.row] = 0
      <3>1. shown[x.row] = 0 /\ x.row # m.row
        BY <1>1, <2>3 DEF Data, Announced
      <3> QED
        BY <1>5, <1>7, <3>1
    <2> QED
      BY <1>2, <2>1, <2>2, <2>3 DEF Announced
  <1>11. Tracked'
    <2>1. ASSUME NEW r \in Rows, shown[r] = Stamp(db[r]) PROVE shown'[r] = Stamp(db[r])
      BY <1>3, <1>5, <2>1, TimesAreNumbers DEF IsVersion
    <2>2. ASSUME NEW r \in Rows, InFlight(r) PROVE shown'[r] = Stamp(db[r]) \/ InFlight(r)'
      <3>1. CASE \E x \in InHand : x.row = r /\ Stamp(x) = Stamp(db[r])
        BY <1>5, <3>1 DEF Data, Versioned, InHand
      <3>2. CASE \E h \in Handlers : \E x \in batch[h] : x.row = r /\ Stamp(x) = Stamp(db[r])
        BY <1>2, <3>2 DEF InFlight
      <3> QED
        BY <2>2, <3>1, <3>2 DEF InFlight
    <2>3. \A r \in Rows : Ahead(r)' = Ahead(r) /\ Excused(r)' = Excused(r)
      BY <1>2 DEF Ahead, Excused
    <2> QED
      BY <1>2, <2>1, <2>2, <2>3 DEF Data, Tracked
  <1> QED
    BY <1>8, <1>9, <1>10, <1>11 DEF Data

\* A new process starts at a watermark no row is ahead of.
LEMMA DataRestart ==
    ASSUME TypeOK, Data, Restart
    PROVE  Data'
  <1>1. PICK t \in AllStamps : Newest(t, AllStamps) /\ maxTs' = t /\ startTs' = t
    BY DEF Restart
  <1>2. UNCHANGED <<db, shown, newCount>> /\ hand' = {} /\ InHand' = {}
        /\ (\A h \in Handlers : batch'[h] = {}) /\ nonSent' = {} /\ reportedUnsent' = {}
    BY DEF Restart, outVars, InHand
  <1>3. \A r \in Rows : Stamp(db[r]) <= t /\ db[r].date <= t
    BY <1>1, TimesAreNumbers DEF Newest, AllStamps
  <1>4. t \in Nat
    BY <1>1, RecordedTimes, WatcherAssumption DEF Times
  <1>5. Versioned'
    BY <1>2 DEF Data, Versioned
  <1>6. Watermarked'
    BY <1>1, <1>4 DEF Watermarked
  <1>7. Announced'
    BY <1>1, <1>2, <1>3 DEF Data, Announced
  <1>8. Tracked'
    BY <1>1, <1>2, <1>3, <1>4, TimesAreNumbers DEF Tracked
  <1> QED
    BY <1>5, <1>6, <1>7, <1>8 DEF Data

-----------------------------------------------------------------------------
(* The theorems                                                            *)

\* Every step of the system keeps the inductive invariant.
LEMMA InductiveNext == TypeOK /\ Inductive /\ [Next]_vars => Inductive'
  <1> SUFFICES ASSUME TypeOK, Inductive, [Next]_vars PROVE Inductive'
    OBVIOUS
  <1>1. Serialized /\ Data
    BY DEF Inductive, Data
  <1>2. ASSUME Next PROVE Serialized' /\ Data'
    <2>1. Serialized'
      BY <1>1, <1>2, SerializedNext
    <2>2. Data'
      <3>1. CASE App
        BY <1>1, <3>1, DataQuiet, DataApp DEF App
      <3>2. ASSUME NEW h \in Handlers, Pass(h) PROVE Data'
        BY <1>1, <3>2, DataQuiet, DataMessagesRead, DataForward DEF Pass
      <3>3. CASE HandleMessage
        BY <1>1, <3>3, DataHandleMessage
      <3>4. CASE Restart
        BY <1>1, <3>4, DataRestart
      <3> QED
        BY <1>1, <1>2, <3>1, <3>2, <3>3, <3>4, DataQuiet DEF Next
    <2> QED
      BY <2>1, <2>2
  <1>3. ASSUME UNCHANGED vars PROVE Serialized' /\ Data'
    BY <1>1, <1>3, SerializedStutter, DataStutter
    DEF vars, dbVars, watchVars, passVars, loopVars, outVars, ghostVars, startVars, InHand
  <1> QED
    BY <1>2, <1>3 DEF Inductive, Data

\* The inductive invariant holds in every reachable state: passes one at a time,
\* no version out of order, the watermark behind every change not yet taken.
THEOREM InductiveHolds == Spec => []Inductive
  BY InductiveInit, InductiveNext, TypeCorrect, PTL DEF Spec

\* The watermark never passes a change that was not reported (client.go:220-233),
\* for any number of messages, events, passes and restarts.
THEOREM NothingIsSkipped == Spec => []NothingSkipped
  <1>1. TypeOK /\ Inductive => NothingSkipped
    BY TimesAreNumbers DEF Inductive, Tracked, Ahead, NothingSkipped
  <1> QED
    BY <1>1, InductiveHolds, TypeCorrect, PTL

\* No message is announced as new twice.
THEOREM AnnouncedOnce == Spec => []NewOnce
  <1>1. Inductive => NewOnce
    BY DEF Inductive, Announced, NewOnce
  <1> QED
    BY <1>1, InductiveHolds, PTL

\* skipEvents alone keeps the goroutines of the watch loop to one at work and
\* one about to leave (client.go:208-245).
THEOREM FewPasses == Spec => []PassesDoNotPileUp
  <1>1. Inductive => PassesDoNotPileUp
    BY DEF Inductive, Serialized, PassesDoNotPileUp, Leaving, PCs
  <1> QED
    BY <1>1, InductiveHolds, PTL

-----------------------------------------------------------------------------
(* The flag and the lock                                                   *)

\* What leaves the flag, the lock and the goroutines alone keeps NeverDeaf.
LEMMA NeverDeafStutter ==
    ASSUME NeverDeaf, UNCHANGED <<pc, lock, skipEvents>>
    PROVE  NeverDeaf'
  BY DEF NeverDeaf, Working

\* A pass clears the flag before it leaves and gives the lock back as it goes.
LEMMA NeverDeafPass ==
    ASSUME TypeOK, NeverDeaf, NEW h \in Handlers, Pass(h)
    PROVE  NeverDeaf'
  <1> USE DEF watchVars, passVars
  <1>1. pc \in [Handlers -> PCs] /\ Nobody \notin Handlers
    BY WatcherAssumption DEF TypeOK, PassTypes
  <1>2. \A g \in Handlers \ {h} : pc'[g] = pc[g]
    BY <1>1 DEF Pass, Lock, MessagesRead, MessagesUnread, HandOver, Swallow, ReceiptsRead, ReceiptsUnread,
       HandOverReceipt, FinishPass, Unlock
  <1>3. lock' = lock \/ lock' = h \/ lock' = Nobody
    BY DEF Pass, Lock, MessagesRead, MessagesUnread, HandOver, Swallow, ReceiptsRead, ReceiptsUnread,
       HandOverReceipt, FinishPass, Unlock
  <1>4. lock \in Handlers \cup {Nobody}
    BY DEF TypeOK, PassTypes
  \* h goes on, and stays at work.
  <1>5. ASSUME pc'[h] \in {"query", "messages", "receipts"}, skipEvents' = skipEvents
        PROVE  NeverDeaf'
    <2>1. h \in Working'
      BY <1>5 DEF Working
    <2>2. lock' # Nobody => pc'[lock'] \in PCs \ {"idle", "lock"}
      BY <1>2, <1>3, <1>4, <1>5 DEF NeverDeaf, PCs
    <2> QED
      BY <2>1, <2>2 DEF NeverDeaf
  <1>6. CASE Lock(h)
    BY <1>1, <1>5, <1>6 DEF Lock
  <1>7. CASE MessagesRead(h)
    BY <1>1, <1>5, <1>7 DEF MessagesRead
  <1>8. CASE MessagesUnread(h)
    BY <1>1, <1>5, <1>8 DEF MessagesUnread
  <1>9. CASE HandOver(h)
    BY <1>1, <1>5, <1>9 DEF HandOver
  <1>10. CASE Swallow(h)
    BY <1>1, <1>5, <1>10 DEF Swallow
  <1>11. CASE ReceiptsRead(h)
    BY <1>1, <1>5, <1>11 DEF ReceiptsRead
  <1>12. CASE ReceiptsUnread(h)
    BY <1>1, <1>5, <1>12 DEF ReceiptsUnread
  <1>13. CASE HandOverReceipt(h)
    BY <1>1, <1>5, <1>13 DEF HandOverReceipt
  <1>14. CASE FinishPass(h)
    <2>1. skipEvents' = "clearing" /\ lock' = lock /\ pc'[h] = "unlock"
      BY <1>1, <1>14 DEF FinishPass
    <2> QED
      BY <1>2, <1>4, <2>1 DEF NeverDeaf, PCs
  <1>15. CASE Unlock(h)
    <2>1. skipEvents' = skipEvents /\ lock' = Nobody /\ pc[h] = "unlock" /\ pc'[h] = "idle"
      BY <1>1, <1>15 DEF Unlock
    <2>2. Working \subseteq Working'
      BY <1>2, <2>1 DEF Working
    <2> QED
      BY <2>1, <2>2 DEF NeverDeaf
  <1> QED
    BY <1>6, <1>7, <1>8, <1>9, <1>10, <1>11, <1>12, <1>13, <1>14, <1>15 DEF Pass

\* Every step keeps NeverDeaf: the watch loop sets the flag for a goroutine only.
LEMMA NeverDeafNext == TypeOK /\ NeverDeaf /\ [Next]_vars => NeverDeaf'
  <1> SUFFICES ASSUME TypeOK, NeverDeaf, [Next]_vars PROVE NeverDeaf'
    OBVIOUS
  <1> USE DEF watchVars, passVars
  <1>1. CASE App
    <2>1. AppLeaves
      BY <1>1 DEF App, Touch, Insert, Edit, Retract, MarkSent, MarkRead, Commit
    <2> QED
      BY <2>1, NeverDeafStutter DEF AppLeaves
  <1>2. CASE SkipEvent \/ StopWatching \/ WatcherError
    BY <1>2, NeverDeafStutter DEF SkipEvent, StopWatching, WatcherError
  <1>3. ASSUME NEW h \in Handlers, SpawnPass(h) PROVE NeverDeaf'
    <2>1. pc \in [Handlers -> PCs] /\ lock \in Handlers \cup {Nobody}
      BY DEF TypeOK, PassTypes
    <2>2. /\ pc[h] = "idle" /\ pc'[h] = "lock" /\ lock' = lock
          /\ \A g \in Handlers \ {h} : pc'[g] = pc[g]
      BY <1>3, <2>1 DEF SpawnPass
    <2>3. h \in Working'
      BY <2>2 DEF Working
    <2>4. lock # Nobody => lock # h
      BY <2>2 DEF NeverDeaf
    <2> QED
      BY <2>1, <2>2, <2>3, <2>4 DEF NeverDeaf
  <1>4. CASE StoreVisible
    BY <1>4 DEF StoreVisible, NeverDeaf, Working
  <1>5. ASSUME NEW h \in Handlers, Pass(h) PROVE NeverDeaf'
    BY <1>5, NeverDeafPass
  <1>6. CASE HandleMessage \/ HandleReceipt \/ StopHandling
    BY <1>6, NeverDeafStutter DEF HandleMessage, HandleReceipt, StopHandling
  <1>7. CASE DisconnectWatcher \/ DisconnectLoop
    BY <1>7, NeverDeafStutter DEF DisconnectWatcher, DisconnectLoop
  <1>8. CASE Restart
    BY <1>8 DEF Restart, NeverDeaf
  <1>9. CASE UNCHANGED vars
    BY <1>9, NeverDeafStutter DEF vars
  <1> QED
    BY <1>1, <1>2, <1>3, <1>4, <1>5, <1>6, <1>7, <1>8, <1>9 DEF Next, WatchLoop

\* As long as events are turned away there is a goroutine that will clear the
\* flag, and no goroutine that has returned holds the lock (client.go:208-245).
THEOREM NobodyIsDeaf == Spec => []NeverDeaf
  <1>1. Init => NeverDeaf
    BY DEF Init, NeverDeaf
  <1> QED
    BY <1>1, NeverDeafNext, TypeCorrect, PTL DEF Spec

-----------------------------------------------------------------------------
(* Refinement                                                              *)

stampOf == [r \in Rows |-> Stamp(db[r])]

\* A step that neither commits nor reports is invisible in the feed.
LEMMA FeedStutter ==
    ASSUME \A r \in Rows : Stamp(db[r])' = Stamp(db[r]), UNCHANGED <<shown, newCount>>
    PROVE  UNCHANGED <<stampOf, shown, newCount>>
  BY DEF stampOf

\* Every step of the watcher is a step of the feed, or invisible in it: a commit
\* is Happen; handleMessagesLoop announces or updates.
LEMMA FeedStep ==
    ASSUME TypeOK, Inductive, [Next]_vars
    PROVE  [Feed!Next]_<<stampOf, shown, newCount>>
  <1> USE DEF dbVars, watchVars, passVars, loopVars, outVars, ghostVars, startVars
  <1>1. Data /\ db \in [Rows -> Row] /\ shown \in [Rows -> Times] /\ newCount \in [Rows -> Nat]
    BY DEF Inductive, Data, TypeOK, DbTypes, OutTypes
  <1>2. ASSUME db' = db, UNCHANGED <<shown, newCount>>
        PROVE  UNCHANGED <<stampOf, shown, newCount>>
    BY <1>2, FeedStutter
  <1>3. ASSUME NEW r \in Rows, Insert(r) \/ Edit(r) \/ Retract(r) PROVE Feed!Happen(r)
    <2>1. PICK m \in Row, t \in 1 .. MaxTime : Commit(r, m, t) /\ Succeeds(r, m, t)
      BY <1>1, <1>3, AppCommits
    <2>2. db' = [db EXCEPT ![r] = m] /\ UNCHANGED <<shown, newCount>>
      BY <2>1 DEF Commit, AppLeaves
    <2>3. \A q \in Rows : db'[q] = IF q = r THEN m ELSE db[q]
      BY <1>1, <2>2
    <2>4. stampOf' = [q \in Rows |-> IF q = r THEN Stamp(m) ELSE Stamp(db[q])]
      BY <2>3 DEF stampOf
    <2>5. stampOf'[r] = Stamp(m) /\ stampOf[r] = Stamp(db[r])
          /\ stampOf' = [stampOf EXCEPT ![r] = stampOf'[r]]
      BY <2>4 DEF stampOf
    <2>6. Stamp(m) \in Nat
      <3>1. {m.date, m.edited, m.retracted} \subseteq Times /\ Times \subseteq Nat
        BY WatcherAssumption DEF Row, Times
      <3> QED
        BY <3>1, StampIsATime
    <2> QED
      BY <2>1, <2>2, <2>5, <2>6 DEF Feed!Happen, Succeeds, stampOf
  <1>4. ASSUME NEW r \in Rows, MarkSent(r) \/ MarkRead(r)
        PROVE  UNCHANGED <<stampOf, shown, newCount>>
    <2>1. (\E t : db' = [db EXCEPT ![r].read = t]) \/ db' = [db EXCEPT ![r].sent = TRUE]
      BY <1>4 DEF MarkRead, MarkSent
    <2>2. \A q \in Rows : db[q] \in Row
      BY <1>1
    <2>3. \A q \in Rows : /\ db'[q].date = db[q].date /\ db'[q].edited = db[q].edited
                          /\ db'[q].retracted = db[q].retracted
      BY <1>1, <2>1, <2>2 DEF Row
    <2>4. \A q \in Rows : Stamp(db[q])' = Stamp(db[q])
      BY <2>3 DEF Stamp
    <2>5. UNCHANGED <<shown, newCount>>
      BY <1>4 DEF MarkRead, MarkSent, AppLeaves
    <2> QED
      BY <2>4, <2>5, FeedStutter
  <1>5. CASE HandleMessage
    <2>1. PICK m \in InHand :
             /\ shown' = [shown EXCEPT ![m.row] = Stamp(m)]
             /\ newCount' = IF IsNew(m) THEN [newCount EXCEPT ![m.row] = @ + 1] ELSE newCount
      BY <1>5 DEF HandleMessage, InHand
    <2>2. m.row \in Rows /\ IsVersion(m) /\ (IsNew(m) => shown[m.row] = 0)
          /\ Stamp(m) \in Nat /\ m.date \in Nat /\ m.date <= Stamp(m)
      BY <1>1, TimesAreNumbers DEF InHand, Data, Versioned, Announced
    <2>3. Stamp(m) \in 1 .. stampOf[m.row] /\ shown[m.row] <= Stamp(m)
      BY <2>2, TimesAreNumbers DEF IsVersion, stampOf
    <2>4. stampOf' = stampOf
      BY <1>5 DEF HandleMessage, stampOf
    <2>5. CASE IsNew(m)
      <3>1. Feed!Announce(m.row)
        BY <2>1, <2>2, <2>3, <2>4, <2>5 DEF Feed!Announce, stampOf
      <3> QED
        BY <2>2, <3>1 DEF Feed!Next
    <2>6. CASE ~IsNew(m)
      <3>1. Feed!Update(m.row)
        BY <2>1, <2>2, <2>3, <2>4, <2>6 DEF Feed!Update, stampOf
      <3> QED
        BY <2>2, <3>1 DEF Feed!Next
    <2> QED
      BY <2>5, <2>6
  <1>6. ASSUME NEW h \in Handlers, Pass(h) PROVE UNCHANGED <<db, shown, newCount>>
    BY <1>6 DEF Pass, Lock, MessagesRead, MessagesUnread, HandOver, Swallow, ReceiptsRead,
       ReceiptsUnread, HandOverReceipt, FinishPass, Unlock
  <1>7. CASE WatchLoop \/ StoreVisible \/ StopWatching \/ WatcherError \/ StopHandling
             \/ DisconnectWatcher \/ DisconnectLoop \/ HandleReceipt \/ Touch \/ Restart
             \/ UNCHANGED vars
    <2>1. UNCHANGED <<db, shown, newCount>>
      BY <1>7 DEF WatchLoop, SpawnPass, SkipEvent, StoreVisible, StopWatching, WatcherError,
         StopHandling, DisconnectWatcher, DisconnectLoop, HandleReceipt, Touch, AppLeaves,
         Restart, vars
    <2> QED
      BY <1>2, <2>1
  <1> QED
    BY <1>2, <1>3, <1>4, <1>5, <1>6, <1>7 DEF Next, App, Feed!Next

\* The watcher implements MessageFeed: whatever the passes do, what reaches
\* Matrix is announced first and once, happened, and never goes back.
THEOREM ImplementsFeed == Spec => FeedSpec
  <1>1. Init => Feed!Init
    BY DEF Init, Feed!Init, Absent, Stamp, Later
  <1>2. TypeOK /\ Inductive /\ [Next]_vars => [Feed!Next]_(Feed!feedVars)
    BY FeedStep DEF stampOf, Feed!feedVars
  <1> QED
    BY <1>1, <1>2, TypeCorrect, InductiveHolds, PTL DEF Spec, FeedSpec, Feed!Spec
=============================================================================
