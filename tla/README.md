# A verification project for matrix-macOS-Messages-bridge

The bridge reads the Messages app's `chat.db`, watches it for changes and queues
what it finds for Matrix through mautrix `bridgev2`. This directory holds a TLA+
model of it, TLC runs over small instances, and theorems TLAPS proves for every
value of the constants. Line numbers refer to `src/pkg/connector/client.go`
unless another file is named.

## 1. Inventory

| Component | State it keeps | Operations | Correct when |
|---|---|---|---|
| Watcher and passes (193-282) | `skipEvents`, `handleLock`, `maxMessagesTimestamp`, `nonSentMessages`, `minReceiptTime`, four channels | a select loop, one goroutine ("pass") per event, `handleMessagesLoop` | nothing behind the watermark is unreported; nothing is announced twice; passes do not pile up; they end |
| Reading (`messages.go`, `queries.go`) | prepared statements | newest time, rows newer than a time, receipts since a time, decoding of rows | a failure loses nothing silently and the cursor fits what was returned |
| Life cycle (35-132) | the clients, the channel fields, the fsnotify watcher | `Connect`, `Disconnect` | every failure is reported; Disconnect returns; loops stop |
| Remote events (284-611) | none; the portal of the framework keeps a queue and a room | dispatch by item type, tapback, removal, edit, message, receipt | once all is handled, the room shows the chat |
| Message conversion (418-461, `message.go`) | none | parts of a message, pairing of the parts of an edit | part indices agree between text, attachments, edits and retractions |
| Attributed text (`messagecomponent.go`, `archivable.go`) | a cursor over the decoded components | grouping runs into components | the walk ends, slices and ranges are in bounds |
| Edited parts (`edited.go`) | none | edit histories out of `message_summary_info` | indices in range |
| Typedstream decoder (`typedstream.go`) | cursor, type table, object table, placeholder | recursive descent over the stream | the place kept for an object stays in the table and free; a reference keeps its meaning; an object keeps its class |
| Chat info and contacts (`contacts.go`, `utilities.go`, 148-186) | none | merge of members and contacts, when a room is made | the chat is found; changes before and after it come through |
| Login, connector, `cmd` | the user ID | framework calls | - |
| `src/test`, mock API | - | manual dry runs | - |

**How they interact.** The framework calls `Connect`, which opens the two
databases, makes the channels, starts an fsnotify watcher, reads the newest time
and starts two goroutines: the watch loop and `handleMessagesLoop`. The watch
loop starts a pass for an event it does not skip. A pass runs the queries and
hands every item over, one at a time, on unbuffered channels to
`handleMessagesLoop`, which queues a remote event. The framework later calls the
conversion callbacks of that event. `Disconnect` puts a token in each of two
stop channels of capacity 1.

**What is hard here.** `skipEvents` is a plain bool two goroutines share; events
that meet it set are lost. The watermark follows one of the three times the
query selects by. Rows of a batch come in an arbitrary order. One bad row fails a
batch, a truncated result passes as a whole one. The process may die between
reading and queueing. Disconnect races with Connect, and a reconnection replaces
channels under loops that still use them. `PROJECT.json` lists each hazard with
its line.

## 2. Modules

* `Watcher` - the core. One action per step of the watch loop, of a pass and of
  `handleMessagesLoop`; the Messages app, fsnotify, `Disconnect` and the death of
  the process are actions of the environment. `MCWatcher` gives it model values
  and symmetry.
* `MessageFeed` - what the read side promises, without any of that machinery:
  `Happen`, `Announce`, `Update`. `Watcher` is shown to implement it up to
  `QueueRemoteEvent`, under the mapping `stamp[r] <- Stamp(db[r])`, and `Portal`
  up to the room, with the versions a message goes through as stamps.
* `Portal` - one chat and its room: what happens in the chat, the remote event
  each row becomes, the making of the room, and what the framework does with
  events in order. It composes the dispatch of `HandleiMessage` with
  `GetChatInfo`, and takes from `Watcher` only what a pass reads and in which
  order. `MCPortal` says which subjects change together.
* `Lifecycle` - `Connect` as a ladder of steps that may fail, `Disconnect`, the
  generations of the channel fields, and the two loops reduced to busy/select.
* `TypedStream` - the decoder of `attributedBody`, one action per token of a
  stream that is chosen while it is read. `MCTypedStream` gives it type lists and
  class chains.
* `AttributedText` - the walk over the components the decoder put out, one action
  per turn of the loop. `MCAttributedText` gives it bodies.
* `MessageParts` - one message while its parts are edited and taken back: what a
  version of the row decodes and converts to, and how an edit is paired with the
  parts already in Matrix.
* `WatcherProofs`, `WatcherSafetyProofs`, `WatcherDeliveryProofs`,
  `TypedStreamProofs`, `AttributedTextProofs`, `LifecycleProofs`,
  `MessagePartsProofs`, `PortalProofs` - the theorems.

### Watcher: state and code

| Variable | Code |
|---|---|
| `db`, `fsEvents` | `chat.db`; `watcher.Events`, with at most `MaxEvents` pending (fsnotify and SQLite raise several events per write; more are the same as one) |
| `watch`, `stopWatch` | the loop at 198; `MessagesDBWatcherStopChannel` |
| `skipEvents` | the flag at 194. `"clearing"` is the time between the unsynchronised store at 245 and the moment the loop at 208 sees it: then both branches are possible |
| `pc`, `lock` | the goroutine at 213-246; `handleLock` |
| `batch`, `rbatch` | what is left of `newMessages` and `latestReadReceipts` |
| `maxTs`, `nonSent`, `minReceipt` | 193, 196, 197 |
| `loop`, `hand`, `stopLoop` | 251-282: the item between the receive and the end of its handling |
| `shown`, `newCount`, `acked` | what was given to `QueueRemoteEvent` |
| `disc` | how far `Disconnect` is |

The rest are history variables: `startTs` and `startRead` (where this process
began), `owed` (an event was dropped or a read failed since the last complete
read), `reportedUnsent`, and `excused`, the rows a known loss applies to.

A row is its three times, a read time, `is_sent` and a flaw. A change is named
by its stamp, the newest of the three times. `IsNew` is the dispatch at 463-477
for plain messages. Flaws are `"undecodable"` (a scan, attachment or edit-history
error, which fails the batch) and `"tapback"` (a tapback target that does not
parse, harmless except on the last row, where the named result `err` leaks).

`HandOver` is lines 221-232 for one message: it updates the watermark and
the set of unsent messages and sends the item. The send may block after the
updates; the model makes both one step, since only the pass at work reads what
was updated, and there is one such pass (`Serialized`, proved).

### TypedStream: state and code

| Variable | Code |
|---|---|
| `objectTable`, `typesTable`, `placeholder`, `seenEmbedded` | the fields of `typedStreamDecoder` (43-53) |
| `todo`, `outV`, `isObj` | the loop of `readTypes` (134-214): types still to be read and its two locals. `readEmbeddedData` calls `readTypes` anew and returns its result, which is `Begin` |
| `components` | the result of `decodeComponents` |
| `phase` | between groups, in a group, ended, an error returned, a panic |
| `named` | history: the class an entry's object was opened with |

An entry is its kind, its class and its values, and a value is its type. Strings,
numbers, lengths and the cursor are left out: a token that does not fit or a
stream that ends is `Malformed`, possible everywhere. `decodeComponents` ignores
the error of `validateHeader` (84), so a wrong header is just another stream.
Indices count from 0 as in the code; `At(k)` is `t.objectTable[k]`.

### AttributedText: state and code

| Variable | Code (`messagecomponent.go`, `archivable.go`) |
|---|---|
| `body` | `components`: a text, ranges with the length of a run, dictionaries with a count, other items |
| `at`, `currentEnd` | `componentIndex` (here from 1) and the characters covered so far |
| `combined` | `combinedComponents`; `Combine` appends to a copy after the first run (227) |
| `panicked` | a slice beyond the components (`getNDictionaryObjects`, 128-136) |
| `runs` | history: each run taken and what was selected for it |

Counts of dictionaries come from the stream and may be anything, also negative.
`Selected` is where `getNDictionaryObjects` ends: all up to the next range
whatever the count, or one too many when nothing is there. `Effect` turns
characters into bytes through `charIndexTable`, and treats an offset that is not
in it as the bound of the text.

### MessageParts: state and code

| Variable | Code |
|---|---|
| `row` | the columns `parseMessages` reads: `ec` and `rp` of `message_summary_info`, `date_retracted`, whether `attributedBody` decodes and how many runs it has, whether the plain text columns are set, item type and balloon |
| `queue`, `read` | remote events of the message in its portal, each with the row as it was read (`Data: *message`); what the watcher saw last |
| `shown` | the message parts bridgev2 stores: ID and content |
| `handled` | history: the version handled last |

A content is its kind, the part and the version it comes from. `Components` is
messages.go 362-396: what the walk gives, and the retractions inserted.
`Made` builds them part by part, as a recursive function. `Convert` is
`ConvertMessageToParts`, `Paired` is `ConvertEditMessage`.
External and assumed: bridgev2 handles the events of a portal in order, returns
the stored parts in the order they were stored, drops an edit whose target it
does not have and a message it has; the Messages app removes a part taken back
from the body and keeps its index in `message_summary_info`.

### Portal: state and code

| Variable | Code |
|---|---|
| `chat`, `changes`, `stamp` | `chat.db`: a value for each subject, how many rows were changed, and when each message was |
| `unread` | rows a pass has not read. A message has one row, so only its newest version can be read, and a row changed after it was sent may be read again |
| `queue` | remote events given to `QueueRemoteEvent`, in order |
| `created`, `room` | has the portal a room, and what it shows for each subject |
| `announced`, `missing`, `lost` | history: messages queued as new; messages that cannot come any more; subjects whose newest change is lost, both for a reason the model names |
| `topic` | which kinds of subjects change in a behaviour (chosen at the start, so that TLC need not multiply all of them) |

A subject is a member, the name, the avatar, the text of a message or a reaction.
`HandleiMessage` and the operators under it are the dispatch at 284-578: the
action types of members (0 joins, 1 is removed), of avatars (0 is a leave of the
sender, 1 set, 2 removed), tapbacks, retractions, edits. `SenderLocalID` is the
handle `parseMessages` clears for what the user sent (`messages.go` 410), so the
own leave is queued for the user ID `""` and `MembersMirrored` leaves the user
out. `GetChatInfo` is 148-186 with the queries under it: it fails for a chat with
a group avatar (the row is scanned into values that are no pointers), for a
member known by a mail address, and panics when the own card has a number, which
the framework catches (`ChatInfoFits`, constant `Contacts`). `"unnamed"` stands
for the empty display name.

External and assumed of bridgev2: a portal handles its events in order; it asks
for chat information when an event that creates a portal meets no room, and
drops the event when that fails; it drops what is about a message it does not
know, and a message it knows. A room of an earlier run shows the chat as it was
at the start.

`PrefixedIDs` is how the portal is looked up. The code asks for the chat with the
ID `MakeMessagesPortalID` made, under which nothing is found (`nochat`). With
`PrefixedIDs = TRUE` no room can be made and rooms of earlier runs are all there
is; `mirror` and what it shows about new rooms is for `FALSE`, the plain IDs
`src/test/main.go` uses. The theorems hold for both values.

Known losses, and no others: a subject is in `lost` when its last change in a
batch is not its newest (rows of a batch come in no useful order), when a
reaction comes before its message, or when the process died with it under way;
making the room repairs members and details. A message is in `missing` when it
was changed before it was first read (then its only event is an edit, which the
portal drops), when the chat information failed for it, or when the process died.

**Assumptions of the model.** A change is visible to a query when its event is
raised. SQLite answers a query from one snapshot. `time.Now()` at 197 is not
before any recorded time. `Restart` is a start that succeeds, which needs line
189 of `messages.go` repaired (see `startup` below).

## 3. Runs

| Run | Question | Bounds and why they suffice |
|---|---|---|
| `messages` | does every change get through, once, in order, with late changes, other events and crashes? does the watcher implement the feed? | 2 rows, 3 goroutines, clock to 3: two rows are needed for an order within a batch; a third goroutine for one at work, one unlocking and a wrongly admitted one; also checks the invariant of the proofs |
| `faults` | the same for messages and receipts, with rows that do not decode, leaked tapback errors, retractions, unsent messages, failing, truncated and half scanned queries; does a failed read leave `skipEvents` set or `handleLock` held? | 2 rows, one of the user in a group, 2 goroutines, clock to 4: three changes, so that a row can be lost by one read and behind the watermark of the next |
| `liveness` | do passes end, do changes get through although events are dropped, with Disconnect and fsnotify errors at any moment? | 2 passes, 2 pending events, no symmetry (it is unsound for liveness) |
| `reconnect` | two overlapping Connect/Disconnect pairs with any dependency failing: are failures reported, is there room for the stops and does Disconnect return? With a single connection, do the stops wait where the loops look, and do the loops stop? | 2 generations: an old and a new one |
| `startup` | does an error of Connect mean that something is broken? **No** | expected violation |
| `mirror` | once all is handled, does the room show the members, the name, the avatar, the messages and the reactions of the chat? and does it implement the feed at every moment before? | 3 users, one known by mail; 2 messages; 4 changes and 3 queued events: the room is made by one event while an older and a newer change of the same subject are queued and written |
| `nochat` | is the chat of a portal found when its room is to be made? **No** | expected violation, the same chat |
| `decode` | any stream: is the placeholder good, do entries stay, do objects keep their class? | 4 type lists (an object, a string, embedded data, an object and a number), chains of 1 and 2 classes, 5 objects, 4 type lists in the table, 2 components: room for an object with its chain, embedded types and two more places |
| `classref` | does a second object of a known class become an object? **No** | expected violation, the same stream |
| `walk` | does the walk over a body end, take every run, cut the text without gap, and stay in bounds? | every body of up to 4 components with lengths 0, 1, 2 and one beyond the text and counts -2, 0, 2; every body of up to 7 of the usual ones; a text of 3 characters and 5 bytes |
| `parts` | over any sequence of edits and part retractions, with versions passed over: are IDs in order, is the content that of the version handled, and of the newest one read when nothing waits, does the message stay? | 3 parts: the least where a retraction finds no place of its own; 1 edit per part, 2 runs, 1 waiting event |
| `wholetext` | is all the text of a body shown? **No** | expected violation, the same message |

`CHECK_DEADLOCK FALSE` everywhere: clocks and changes are bounded, a stream and a
walk end, and a stopped bridge really does stop.

Each property of a passing run has a mutant of the modelled code in
`PROJECT.json` that TLC must find to violate it; the mutated operators stand
beside the originals and say which mistake they make.

What the runs show, beyond "it holds":

* The only ways to lose a change in a running process are the three named in
  `Losses` for messages (a late stamp, a truncated result, an unsent message
  whose next change is taken for its confirmation) and an event dropped while a
  pass is at work; the last one is repaired by the next event (`CaughtUp`,
  `EventuallyShown`).
* `skipEvents` alone serialises the passes; `handleLock` is never contended by
  more than one goroutine that is about to release it.
* `startup`: with every dependency working, `GetMaxMessagesTime` fails because it
  calls `Scan` without `Next`, so `Connect` ends in an error state at this
  commit. The other runs have `ScanNeedsNext = FALSE`, the evident intention.
* `nochat`: `GetChatInfo` hands the prefixed portal ID to queries that select by
  `chat.guid`. No row matches, and a message of a chat without a room is dropped.
* `mirror`: making the room from the chat of now, while older changes are queued
  and newer ones unread, is right in the end: the older ones put the room back
  for a moment and the last one of the queue is the newest.
* `walk`: the loop that "feels like it has potential for an infinite loop"
  (`messagecomponent.go` 237) has none, for any body; a count that is wrong does
  no harm, since the selection goes up to the next range whatever it says. Only a
  dictionary whose values are missing makes the walk panic.
* `classref`: a `Class` is stored in `outV` as a value (typedstream.go:170) and
  looked for as a pointer (222), so the two branches for an object whose class
  was seen before are dead. Such an object is emitted as data that holds the
  class, and its values come as data of their own that replaces it.
* In the decoder nothing else depends on the stream being well formed: `decode`
  and the theorems cover every stream, except for the two places where it
  panics, an index beyond the object table (`BadReference`) and a type list of
  length 0 (`EmptyTypes`).
* `wholetext`: `ConvertArchivablesToCombinedComponents` appends later runs to a
  copy, and only the text of the first run is formatted. Since the assertion at
  messagecomponent.go:59 never succeeds, no run is an attachment, mention or link.
* `parts`: pairing parts by place is right as long as the framework returns them
  in order. Single notices do get lost (the third part of three taken back lands
  on the place of the second), but a message whose body decodes never loses all
  of its parts. With a body that does not decode it can, hence the premise of
  `StaysVisible`: then later edits are dropped as well.
* The channel fields are safe for any number of connections as far as
  `Disconnect` goes (`StopHasRoom`). With two connections `LoopsStop` is false: a loop of the first connection that
  was busy while `Connect` replaced the channel fields selects on the new
  channels and takes the token meant for its successor. Without its premise
  `fresh`, `DisconnectReturns` is false too: the channels may be nil, or hold the
  token of an earlier Disconnect.

### Fairness

`Watcher`: weak fairness of the watch loop, of the store to `skipEvents` becoming
visible, of each pass and of `handleMessagesLoop`: goroutines are scheduled and
the Go memory becomes visible in the end. Nothing is assumed of the app, of
faults or of Disconnect. `EventuallyShown` has `[]<>(fsEvents > 0)` as premise,
since a dropped event is made up for by a later one only.

`Lifecycle`: weak fairness of Connect, of each send and of entering a select;
strong fairness of `Stop`, since a Go select chooses at random among its ready
cases, so a case that is ready again and again is taken at last.

## 4. Proofs

The watcher, for any `Rows`, `Handlers`, `Moves` and bounds that satisfy
`WatcherAssumption`; no finiteness is used:

* `TypeCorrect`: `Spec => []TypeOK`, by groups of actions.
* `InductiveHolds`: `Spec => []Inductive`. `NothingSkipped` is not inductive: it
  does not say why a batch may raise the watermark. `Inductive` adds
  * `Serialized`: `skipEvents` is set while a goroutine is at work and whoever is
    past `Lock` holds the lock, so there is one batch at a time;
  * `Versioned`: a snapshot under way is a version the row had, no older than what
    was reported and, for the batch, than the item in hand;
  * `Watermarked`: only dates of rows raise the watermark;
  * `Announced`: a row behind the watermark is not news, and one in a batch as new
    has not been reported;
  * `Tracked`: a change neither reported nor under way is ahead of the watermark
    *and of every message in the batch that is about to raise it*.
* `NothingIsSkipped`, `AnnouncedOnce`, `FewPasses` follow from it.
* `NobodyIsDeaf` (`NeverDeaf`): while `skipEvents` is set somebody has yet to
  clear it, and no goroutine returned with the lock. With the types it is
  inductive by itself. It is the safe half of `PassEnds` and `EventuallyShown`.
* `ImplementsFeed`: `Spec => FeedSpec`, step by step: a commit is `Happen`,
  `HandleMessage` is `Announce` or `Update`, the rest stutters.
* `NothingLeftBehind` (`CaughtUp`). What is at rest now was once looked for:
  `Fresh` says that an event was dropped or a read failed, or somebody will still
  look (`Pending`), or every change is reported or under way (`Delivered`).
* `NoReceiptSkipped` (`ReceiptsNotSkipped`), from `Receipted`: the cursor is at
  the time of some receipt (`ReceiptMarked`), receipts under way are genuine, and
  one behind the cursor is acknowledged, under way or a known loss
  (`Acknowledged`). Receipts that other devices date in the past are included
  here, and in no run.

For the decoder, for any streams, chains and table sizes that satisfy
`TypedStreamAssumption` (`TypedStreamProofs`):

* `DecoderInvariant`: `Spec => []Inv`, where `Inv` is `TypeOK`,
  `PlaceholderOpen`, `ClassKept`, `ComponentsReadable` and `ClassAtHand`.
  `ClassKept` is not inductive: the class is looked up groups after it was read.
  `ClassAtHand` says that while the place is kept, an entry behind it that is a
  class is the one the object was opened with; `EnterChain` shows that for a new
  object, `KeptEmbedded` that embedded types do not disturb it.
* `DecoderTypes`, `PlaceStaysOpen`, `ObjectsKeepTheirClass`,
  `ComponentsCanBeRead` and `ReferencesStay` follow.

The walk, for any bodies, text and offsets that satisfy
`AttributedTextAssumption` (`AttributedTextProofs`): `WalkInvariant` is `TypeOK`,
`Cursor` (the cursor in the text is where the last run ended), the panic only on
an incomplete body, and for a well formed one `Found`: every range passed has its
run, whole and linked to the one before it. `WalkTypes`, `WalkAdvances` (an
action property), `WalkPanics`, `WalkOrders`, `WalkFinds` and `WalkTiles` follow.

The life cycle, for any number of connections and any faults (`LifecycleProofs`):
`LifecycleInvariant` adds to the types and to `FailuresSurface` where a `Connect`
under way stands (`Underway`); `LifecycleTypes`, `NoSilentFailure` follow.
`StopsInvariant` is about the stop channels: how Connects and Disconnects
alternate (`Calls`), that no token, select or loop belongs to a connection still
being made (`Channels`), that the newest channels are empty where a Disconnect
has yet to send (`Room`), and, while there was one connection, that a loop told
to stop has its token waiting or has ended (`Waits`).
`SendsHaveRoom` and `StopsAreHeard` follow: the safe half of `DisconnectReturns`
and `LoopsStop`. `NoLoopIsStarted` is the finding of `startup` for every
connection: as `GetMaxMessagesTime` is written (`ScanNeedsNext`), no loop ever
starts and every `Connect` that ends was reported.

The parts of a message, for any number of parts, edits, runs and events
(`MessagePartsProofs`): `PartsInvariant` adds to `IdsInOrder` and `ShownIsCurrent`
that rows that were read are rows (`Versions`), that the event of the new message
is the first one (`NewFirst`), and that the last event of the queue
has the version read last (`LastRead`). The conversion of a version stays
opaque there: the argument needs only that it is a function of the row.
`PartsKeepIds` and `PartsAreCurrent` follow. `PartsTypes` and `PartsStayVisible`
need what a conversion yields: at most N parts, of known kinds, and at least one
when the body decodes (`ConvertShape`). That is an induction
over the parts `Made` has gone through. The library states induction with an
operator parameter, so the step is closed with the least part for which the claim
fails.

The portal, for any users, messages, contacts, topics and bounds that satisfy
`PortalAssumption`, for found and unfound chats (`PortalProofs`). None of the
`...Mirrored` properties is inductive, as they speak only of the end.
`PortalInvariant` follows the newest change of a member or a detail: it is the
newest unread row of its subject (`UnreadCarry`), or the last event of it in the
queue (`QueueCarry`), or shown (`RoomCarry`). `MembersComeThrough` and
`DetailsComeThrough` follow. Messages need more, since their events depend on
what the room knows: a message not announced has not left the chat
(`Unannounced`), an announced one is read again only when changed (`Announced`),
its announcement is before all other events about it and waits exactly while the
room does not have it (`Coming`), and the newest version read is last in the
queue or shown (`Current`). `MessagesComeThrough` follows from both invariants.
A reaction depends on its message. `ReactionsInvariant` says that a missing
message is not shown and comes no more as new (`Missed`), that a reaction is to a
message that was sent, and is read no sooner than it (`Reacted`), that the newest reaction waits behind the
announcement of its message (`Behind`), that a room without the message shows no
reaction to it (`Unshown`), and where the newest one is (`ReactionCarry`).
`ReactionsComeThrough` follows.
`RoomIsFeed` is the refinement `Spec => RoomFeeds`. Its invariant is `Ordered`:
the versions of a message ascend from the room through the queue to the chat,
so an event shows no older version than the room has and none the chat lacks.
`PrefixedChatsAreLost` is the finding of `nochat` for every chat: with the portal
IDs as they are made, a chat without a room never gets one, and whatever message
of it was sent is missing once all is handled.

Model-checked only: liveness (`PassEnds`, `EventuallyShown`, `DisconnectReturns`,
`LoopsStop`). It needs fairness and so `ENABLED`, which is beyond the prover;
what a step must not do for it to hold is proved (`NeverDeaf`, `StopHasRoom`,
`StopWaits`). The properties of the four runs that expect a violation are
counterexamples; two of them (`startup`, `nochat`) are proved to be the rule.

## 5. Not modelled

* Attachments, mentions and links in a body: no key is ever of type
  `ComponentTypeKey` at `messagecomponent.go` 59, so `attachmentmeta.go` and the
  effects of attributes are not reached at this commit.
* Apple's offsets count UTF-16 units and `charIndexTable` characters;
  `AttributedText` has one unit, so `RunsTile` is about texts where both agree.
* The bytes of a token and the cursor of the decoder (a token that does not fit
  is `Malformed`, wherever it is), and so the refusal to read up to the very end.
* Receipts are queued under the raw chat GUID and messages under the prefixed
  portal ID, so they never meet in one portal. That is plain in the code; no
  sequence of steps is needed to see it, and `Watcher` follows receipts up to
  `QueueRemoteEvent` only.
* Names, nicknames and pictures of contacts, and `GetUserInfo`: they keep no
  state, and no other behaviour depends on them but the panic in `ContactsFit`.
* `GetMessagesAboveRowID`, `GetMessagesBetween` and `GetMaxMessagesRow`, which
  only `src/test` calls.
* Login and connector (straight-line calls of the framework), osascript, phone
  number parsing, durations and hex dumps (external or formatting), logging, the
  manual test program and the mock.
