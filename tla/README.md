# OXOOL: a TLA+ verification project

OXOOL (a fork of LibreOffice/Collabora Online) edits office documents in a
browser. This directory has TLA+ models of its server, configurations that
model-check them with TLC, and theorems about them with proofs for TLAPS. Paths
below are relative to `src/`.

## 1. The system

One server process, `oxoolwsd`, accepts connections. For each open document it
has a **DocumentBroker** with a thread of its own, on which everything of that
document happens: the web sockets of its clients (**ClientSession**), the pipe
to the **Kit** process that has the document open in LibreOffice Core, and the
HTTP requests to the WOPI **Storage** that the document comes from and goes back
to. Kits are forked in advance by **ForKit**, and kept in a pool.

| Part | State | Operations | Talks to |
|---|---|---|---|
| DocumentBroker (`wsd/DocumentBroker.*`) | DocumentState (status, activity, close/unload requested, disconnected), SaveManager, StorageManager, `_uploadRequest`, `_sessions`, `_isModified`, `_stop` | add/remove session, manual, automatic and closing save, upload, Save-As, rename, switch mode, close, poll round | all of the rest |
| ClientSession (`wsd/ClientSession.*`, `common/Session.*`) | `_state` (DETACHED, LOADING, LIVE, WAIT_DISCONNECT), read-only flags, authorization, outgoing queue, tiles on the fly | client commands, Kit messages, disconnection handshake | client, broker, Kit |
| SenderQueue (`wsd/SenderQueue.hpp`) | a deque of outgoing messages | enqueue with deduplication, dequeue | ClientSession, socket |
| Storage (`wsd/Storage.*`, `StorageConnectionManager.*`) | file info, `_uploadHttpSession`, lock | CheckFileInfo, download, asynchronous upload, lock and refresh | WOPI host |
| Kit (`kit/Kit.cpp`, `ChildSession.cpp`) | the Core document, views, its own queue | load view, edit, `.uno:Save` + `renameForUpload`, render, disconnect | broker |
| TileCache (`wsd/TileCache.*`) | tiles, tiles being rendered with subscribers | subscribe, save and notify, invalidate, evict | broker, Kit |
| TileQueue (`common/MessageQueue.*`) | the Kit's queue of messages | put with coalescing and priorities, get | Kit |
| Prefork, ForKit, the map of brokers (`wsd/OXOOLWSD.cpp`, `kit/ForKit.cpp`) | spare children, outstanding forks, DocBrokers | rebalance, take a child, find or create a broker, clean up, recycle | brokers |
| SocketPoll, sockets, web sockets (`net/`) | sockets of a thread, callbacks, wakeups, closing handshake | poll, add callback, transfer, ping | all threads |
| Admin, FileServer, proxies, modules (`wsd/Admin*`, `ossii/`) | statistics, loaded modules | notifications, load and unload | brokers |

What makes it hard to get right:

* **Order of events.** The broker's handlers are atomic, since it has one
  thread, but saves and uploads are not: a save is a request to the Kit,
  answered through a pipe that also brings ModifiedStatus, which may come before
  or after the answer; an upload is an HTTP request; and clients type, save,
  rename, join and leave in between.
* **Belief against truth.** Whether a document has to be saved or uploaded is
  derived from flags, failure counts and two modified times. If they go wrong,
  edits are lost on unloading.
* **Failures.** Kits crash or hang, saves fail or time out, storage refuses,
  fails, or has been changed by someone else, tokens expire.
* **Unloading.** A broker has to end, but only after all edits are stored or it
  has to give up.
* **Coalescing.** The queues drop messages that newer ones supersede, and merge
  what a user types.
* **Caches.** A picture of a tile is in up to five places: the Kit's last picture,
  which deltas are made from, the broker's cache, the messages under way, the
  session's note of what it sent, and the browser. Each may lose it.
* **Threads.** Within a Kit, tiles are compressed by a pool of threads that work
  on locals of their caller.

`PROJECT.json` lists each hazard at its line, with the properties that cover it.

## 2. The modules

| Module | Models | Kind |
|---|---|---|
| `DocBroker` | saving, uploading and unloading of a document | component, with the sessions, Kit, disk and storage as far as it depends on them |
| `DocBrokerSteps`, `DocBrokerProofs`, `DocBrokerStored` | | proofs about it: operators, the invariant and handlers; the theorems; that what is clean is stored |
| `SenderQueue`, `SenderQueueProofs` | the outgoing queue of a session | component, proofs |
| `Tiles` | tiles from the document to the browser | composition: Kit queue, renderer, TileCache, broker, sessions, browsers |
| `TileView` | what a browser sees of it | abstract specification, implemented by `Tiles` |
| `ThreadPool`, `ThreadPoolProofs` | the pool of threads of a Kit | component, proofs |
| `RenderBatch` | what its caller relies on | abstract specification, implemented by `ThreadPool` |
| `KitQueue` | input and callbacks in the queue of a Kit | component |
| `Queues` | | operators on sequences, with folds as recursive functions |
| `QueueRuns`, `KitQueueProofs` | | what a queue makes of something, message by message; proofs about `KitQueue` |
| `MC...` | | instances for TLC; their definitions are symmetry sets and constant functions |

### DocBroker

Each handler of the broker's thread is one action, named after the function. An
action has everything the function calls, so `HandleSaveResponse` includes
`checkAndUploadToStorage`, which may start an upload, end a renaming or
disconnect the closed sessions. What interleaves is the order of handlers.

Data are abstracted: the contents of the document is the number of edits in it,
a file is that number with its modified time, and the modified time is the
number of the save that wrote it. The clocks of the request managers become the
facts that the code derives from them: a request is active (`save.active`), there
was typing since the request (`modifyAfter`). An interval the loop waits for is a
guard left out: a round in which it has not elapsed changes nothing.

| Variables | Code |
|---|---|
| `status`, `loaded`, `activity`, `closeRequested`, `unloadRequested`, `disconnected` | `DocumentBroker::DocumentState` |
| `save`, `modifyAfter`, `isModified` | `SaveManager`, the last modifying activity, `_isModified` |
| `upload`, `request`, `changed` | `StorageManager`, `_uploadRequest`, `_documentChangedInStorage` |
| `http` | `WopiStorage::_uploadHttpSession` with what is being sent |
| `sess`, `closed`, `readonly`, `expired`, `lastEditing`, `rename` | the sessions, `_lastEditingSessionId`, `_renameSessionId` |
| `kit`, `fromKit`, `disk`, `store` | the Kit, its messages under way, the three files of the document, the file in storage |
| `phase`, `stop`, `dataLoss` | `pollThread` |
| `edits`, `untold`, `lostSave`, `lostStatus`, `uploaded`, `overlapped` | history, read by properties only |

The Kit serves a message as soon as it is sent; the time it takes is in
`fromKit`. `.uno:Save` succeeds, fails, or finds the document unmodified, and
always renames the document on disk to `.upload`, if there is one. A message
for a session that the Kit has removed is dropped. A session's answer that finds
its session gone is dropped by the broker.

An edit comes in a message. Of most, `tokenIndicatesDocumentModification()` knows
that they modify the document, and the session then notes the time
(`modifyAfter`); of some it does not: dragging with the mouse,
`removetextcontext`, what a user does in a dialog, a form field or a content
control. Of these (the command `drag`) the broker only learns by ModifiedStatus,
and `untold` remembers them until the next save request.

Faults are switched on by the constant `Faults`: crash and hang of the Kit,
failing and late saves, slow loading, failing downloads, a conflict in storage,
a Kit that does not confirm a disconnection, idling. `UploadResults` are the
answers of storage; a failed upload may still have been stored.

### SenderQueue

A message is a command, its subject (a tile or a view) and a serial number, which
stands for its payload and its wire id. `Supersedes` is `deduplicate()`'s relation,
`Enqueue` removes the first message that the new one supersedes and appends it.
`EnqueueSendMessage` adds the wire id to the tiles on the fly only if the queue
grew, as in the code; `WriteQueuedMessages`, `OnTileProcessed` and
`RemoveOutdatedTilesOnFly` are the other users.

### Tiles and TileView

Kit and wsd are two processes with one thread each for tiles, and a FIFO channel
each way, so a handler is a step. A tile is a column and an edit mode; its picture
is the tile and the number of edits it shows. A delta is a pair of pictures, and
applying it to another picture than its first gives `Garbage`.

| Variables | Code |
|---|---|
| `queue`, `callbacks` | `TileQueue`: requests, and invalidations |
| `entries`, `nextWid` | `DeltaGenerator::_deltaEntries`, the wire id counter |
| `wsd.version`, `wsd.cache`, `wsd.rendering` | `_tileVersion`, `TileCache::_cache`, `_tilesBeingRendered` |
| `wsd.last`, `wsd.requested`, `wsd.onFly`, `wsd.out` | of each `ClientSession`: `_tracker`, `_requestedTiles`, `_tilesOnFly`, `_senderQueue` |
| `toKit`, `toWsd`, `wire` | messages under way |
| `shown`, `fetch` | the browser: picture and wire id of each tile, `_fetchKeyframeQueue` |
| `doc`, `due`, `asked`, `edits`, `requests`, `faults` | the document, and history |

| Actions | Code |
|---|---|
| `Edit` | LibreOffice paints differently, and calls back with INVALIDATE_TILES for each view |
| `KitReceives`, `DrainQueue` | `put_impl()`, `popTileQueue()`, `doRender()`, `createDelta()` |
| `WsdReceives` | `handleTileInvalidation()` or `handleTileCombinedResponse()`, with `saveTileAndNotify()` and `sendRequestedTiles()` |
| `Ask`, `TileProcessed` | the browser's requests and acknowledgements, with the session's handlers |
| `GarbageCollect` | the browser reclaims the memory of tiles, and tells nobody |
| `FetchKeyframes` | it asks again for tiles of which it got a delta and had no keyframe |
| `Write` | the socket takes a message |
| `Trim`, `Rebalance` | the caches of Kit and broker are emptied, or reduced |

Faults: `trim` and `evict` (short memory), `late` (ids or renderings that time
out), `drop` (a browser garbage-collects tiles).

A browser reclaims tiles that are out of view by itself. The session goes on
taking them for sent, until the browser asks for them without a wire id, or gets a
delta of one: it cannot apply that, and queues the tile to be fetched as a
keyframe. `asked` has the tiles that the browser found missing, in either way, and
has kept since. The model lets it reclaim any tile, in view or not.

`TileView` has only the document, what each browser shows and what it asked for:
a tile advances, by any number of edits, up to the present state, and goes back
only if its browser dropped it. `Tiles` maps to it what a browser will show
*once it has processed what was sent* (`due`): before that, a keyframe that takes
the place of a queued one may let an older delta through (see section 5).

### ThreadPool and RenderBatch

What a thread does while it holds `_mutex` is one step; a wait may end
without a notification (`Spurious`). Work is numbered as it is pushed, so that
`_work` is an interval of numbers. `RenderBatch` is what `doRender()` relies on:
work is done while `run()` runs, and all of it before `run()` returns. The mapping
takes as waiting what was pushed and is not done. That no piece is done twice is
not part of it, as `done` is a set: it is `Items` of the invariant (section 4).

### KitQueue

Input of users (`text`, `removetextcontext`, events, others) and callbacks of
LibreOffice (a state of a command, a cursor, a cursor of another view, others).
`Combine` is what `put_impl()` does with `combineTextInput()` and
`combineRemoveText()`, `RemoveCallbackDuplicate` what is done with callbacks.
`typed` has the effect of the input in the order in which it was put, `text` in
that in which it was taken. The text of a window is what is left and right of its
cursor, and an event moves the cursor. The properties say that what is still queued
(`After`) makes of what was taken what was put.

## 3. What TLC checks

| Run | Instance | Properties |
|---|---|---|
| `doc_broker` | one editor; save, forced upload; crash, failed and timed out saves; storage OK or FAILED; 2 edits | `TypeOK`, `CleanMeansStored`, `UntoldIsReported`, `SaveActivityIsSaving`, `UploadAccounted` |
| `doc_broker_views` | an editor and a read-only owner; save, close; download failures, conflicts, stale disconnections, failed saves | `CleanMeansStored`, `UntoldIsReported`, `StatusNeverRegresses` |
| `doc_broker_commands` | one editor; Save-As, rename, offline, online, token, shutdown; hang, slow loading, idling; storage OK, TOO_LARGE, UNAUTHORIZED; always_save_on_exit | `CleanMeansStored`, `UploadAccounted` |
| `doc_broker_live` | one editor, fair; close; crash, failed and timed out saves; storage OK or FAILED | `SaveEnds`, `UnloadCompletes` |
| `sender_queue` | 4 messages of every command about 2 subjects, fair writing | `NoSupersededMessage`, `NewestSurvives`, `InOrder`, `EventuallyWritten` |
| `tiles` | one browser, two tiles, all faults, fair | `ValidIsCurrent`, `SubscribersServed`, `TrackerIsRight`, `ImplementsTileView`, `CatchesUp` |
| `tiles_shared` | two browsers that share a tile, no faults, fair | `TrackerIsRight`, `CatchesUp` |
| `thread_pool` | three workers, four pieces of work, spurious wakeups, fair | `TypeOK`, `NoWorkOutlivesRun`, `ImplementsBatch`, `RunReturns`, `StopReturns` |
| `kit_queue` | two views with two windows, four messages of every kind | `TypingPreserved`, `NewestArrives`, `NoObsolete`, `AllArrive` |

The broker:

* **CleanMeansStored** is the point of the broker: when it believes that nothing
  has to be saved or uploaded, storage has every edit. It has four provisos,
  each of them a case in which the code does get it wrong or cannot know: a save
  request that the Kit or the broker dropped (`lostSave`), an answer still on
  its way, overlapping uploads, and edits that no token tells of (`untold`; for
  both see section 5).
* **UntoldIsReported**: the Kit's ModifiedStatus stands in for the tokens that do
  not tell of an edit. Until the next save request the document is flagged as
  modified, or the message is on its way, whatever saves, uploads and sessions do
  meanwhile; unless the Kit is gone, or the message came when the last session had
  been removed (`lostStatus`), which only happens to one whose disconnection the
  Kit did not confirm in time.
* **UploadAccounted**: without overlapping, the request describes the upload in
  flight and the recorded time is that of the file in storage.
* **SaveActivityIsSaving**: nothing but an active request ends the Save activity,
  so that activity without a request would stop the document for ever.
* **StatusNeverRegresses**: a late `status:` does not revive a document that is
  marked to destroy.
* **SaveEnds**, **UnloadCompletes**: a save request ends, by an answer, a timeout
  or the Kit's end; an unloading that was requested ends the broker.

The session's queue:

* **NoSupersededMessage**, **NewestSurvives**, **InOrder**: coalescing removes
  exactly what is superseded, and the rest is sent in order.
* **EventuallyWritten**: every message is written or superseded. It is about the
  queue alone; the tiles on the fly, which limit what is requested, hold nothing
  back in it, and are judged in Tiles.

Tiles:

* **ValidIsCurrent**: a cached tile that is valid shows the document as it is, or
  its invalidation is under way. So the race that `TileData::appendBlob()`
  mentions, between a rendering and an invalidation, does not leave a stale
  tile: the queued callbacks leave the Kit before the tiles painted after them,
  on one channel.
* **SubscribersServed**: no one waits for a tile that nobody renders, whatever
  requests were merged, replaced or answered late. It is checked for one session and
  one mode; with two sessions, an eviction and a single id on the fly it does not
  hold.
* **TrackerIsRight**: the wire id that a session noted as sent is what its browser
  has or will have, so that the deltas sent next apply. Otherwise the browser has
  garbage-collected the tile and knows of it: it has not missed the tile since, or
  is about to fetch it.
* **ImplementsTileView**: the refinement above.
* **CatchesUp**: a browser that misses a tile is brought up to date, after every
  edit, unless it drops the tile again. With garbage collection that depends on the
  fetching of keyframes.

The pool: **NoWorkOutlivesRun** is the code's own assertions, and that no thread
works on the locals of a caller that has returned; **RunReturns** and
**StopReturns** are that no wakeup is lost.

The Kit's queue: **TypingPreserved** is that merging, which moves a text to the
end of the queue, does not change what the user gets; **NewestArrives** and
**NoObsolete** that exactly the obsolete callbacks are removed; **AllArrive** that
all that may not be merged arrives in order, every ModifiedStatus included, upon
which `CleanMeansStored` rests.

**Bounds.** For the broker `MaxEdits` is 1 or 2: the second edit is the one that
comes during the save or the upload of the first. `MaxSaves` bounds the
unconditional saves, `MaxFromKit` the messages pending when a client asks for
another save or a save times out; 2 suffice for an answer that overtakes or is
taken for another request's. `LimStoreFailures` is 1 or 2 (below the limit and at
it); counters stop there, since the code only compares them with it. Two sessions
suffice for last and not last, editor and viewer, owner or not. The edits of the
four passing runs come with and without a token that tells of them. The faults are
spread over the runs, because all of them together exceed what TLC can enumerate.

For tiles there is one edit, at any moment, and two requests: one before the edit
and one after it, or two that race; and one fault at any moment. An edit changes
one or two areas, each with its callback. The columns are 1 and 4 and the areas 1
to 2 and 3 to 4: a callback invalidates one more column on each side, so that each
area concerns one tile, and the callbacks of both are joined into one that is as
wide as the code allows. Larger instances, too slow to be kept as runs, show no
violation of these properties: areas that do not meet (2.0 million states), two
edits with one request and faults of memory and time (0.5 million), two edits of
one tile with two requests and any fault (0.1 million) or three requests and any two
faults (7.1 million), two browsers with `trim` or `drop` (1.8 million each) or `late`
(3.2 million). But the limit on tiles on the fly matters. An id of a tile that was
replaced in the outgoing queue remains on the fly; with an `OnFlyLimit` of 1 and two
requests, or of 2 and three, such ids reach the limit, and `CatchesUp` fails when a
keyframe has to be fetched after that. The limit of the code is larger, and the ids
time out, but this is noticed only when tiles are requested again. So `CatchesUp`
holds as long as fewer ids leak than the limit allows.

Three workers are what the default of `per_document.max_concurrency` makes; four
pieces of work are more than there are workers, and allow a second `run()`. Four
messages allow text, something that must prevent merging, text again, and a
fourth that is merged over both.

`CHECK_DEADLOCK FALSE` is because a broker and a pool really end, and because
clients, and with them the queues, may rest once the bounds are used up.

**Fairness.** The poll threads never stop serving sockets and timers: weak
fairness of every handler of a message that has arrived, of the end of an upload
(an answer, or the HTTP timeout, which is FAILED), of the poll round, and of
leaving the loop. Clients, Kit, faults and the operator have none in DocBroker.
`UnloadCompletes` supposes that the clients finally neither type nor save
(`ClientsRest`): typing while unloading is not forwarded to the Kit, but makes
the broker save again. For SenderQueue: the socket keeps taking data. For
Tiles: messages are delivered, the Kit drains its queue, browsers process what
they get. For ThreadPool: threads are scheduled, work ends, and a notification
arrives; spurious wakeups are not relied upon.

**Mutants.** `PROJECT.json` has a mutant for each property: a plausible mistake
in a definition, with which TLC finds the property violated.

## 4. What is proved

For all sessions, faults, commands, limits and bounds (`ConstantsAssumption`:
finite sets of sessions, a positive limit):

* `TypeCorrect`: `Spec => []TypeOK`;
* `SaveActivitySafety`: `Spec => []SaveActivityIsSaving`;
* `UploadSafety`: `Spec => []UploadAccounted`;
* `StatusSafety`: `Spec => StatusNeverRegresses`;
* `CleanSafety`: `Spec => []CleanMeansStored`;
* `ReportSafety`: `Spec => []UntoldIsReported`.

The first three have the inductive invariant `IInv == TypeOK /\
SaveActivityIsSaving /\ UploadAccounted`. UploadAccounted is inductive with the
types, because request and upload are set together, and the one step that sets only
the first also sets `overlapped`. SaveActivityIsSaving needs that every handler which
resets the request also leaves the activity: `handleSaveResponse` does so in each
branch of `checkAndUploadToStorage`, and a renaming never makes it Save.
`DocBrokerSteps` has what `sendUnoSave`, `autoSave`, `uploadToStorage`,
`checkAndUploadToStorage` and `disconnectSessionInternal` do to the variables of
the invariant; it and `DocBrokerProofs` have a lemma per handler that
touches them, and one for all that do not (`QuietActions`).

`StatusSafety` is about the one assignment that could bring a document back:
`setLoaded()`, on a late "status:". It needs `Fresh`: until the document is loaded
there is no live view, no save, no upload, no modification and no result on its way
from the Kit, so that of all the ways to mark it only the departure of the last session
is open, and then no "status:" finds its view. That the document stays loaded
(`LoadedStays`) and that a marked one stays marked (`MarkedStays`) are the steps.

`CleanSafety` says that a broker with nothing pending has every edit in storage, with
the four provisos of section 3. Its invariant `SInv` adds five parts to `IInv`, and
follows an edit on its way: `Unused` (nothing before the first session), `KitInv` (the
Kit has every edit, or the broker knows better; what it has not saved came in a message
that tells of it or is untold, or its answer failed), `ReportInv` (of a document that is
modified in the Kit the last ModifiedStatus on its way, or else the flag, says so; from
it `ReportSafety` follows),
`DiskInv` (the newest of the files has what the Kit saved, and each waits for its
answer) and `StoreInv` (storage has no newer file than `.uploading`, and that file's
contents when it has its time). `DocBrokerStored` classifies the actions by what
they do to these variables and proves one lemma per effect.

For all sets of messages: `NothingSuperseded`, `NothingElseLost`, `SentInOrder`,
each `Spec => []P` for one property of the queue. The invariant adds that wire ids
are bounded by the history, and splits the order by where the messages are. The
point is that `deduplicate()`, which stops at the first match, leaves no other:
`Supersedes` relates any two messages that a third one supersedes, so the queue,
which had no superseded message, has one match at most.

For any number of threads and any amount of work (`PoolAssumption`), and if
waits that may end spuriously come with no pool of exactly one worker
(`EnoughWorkers`):

* `TypeCorrect`: `Spec => []TypeOK`: the asserts of `runOne()`;
* `NothingOutlivesRun`: `Spec => []NoWorkOutlivesRun`;
* `PoolImplementsBatch`: `Spec => ImplementsBatch`.

The invariant `IndInv` says that `_working` counts the threads in `runOne()`, that
each piece of work taken is done or being done by one thread (`Items`), where the
threads are in each phase of `run()` (`Phases`), and that a `run()` that does not use
the workers has none working (`Alone`). The last one needs `EnoughWorkers`: with one
worker, `run()` neither notifies nor waits for it, and a worker that wakes up
by itself still works when `run()` returns. This is so with
`per_document.max_concurrency` 2, and on any host with two hardware threads, to whose
number `wsd/OXOOLWSD.cpp` (2815) clamps a larger one. So the three theorems say nothing
of such hosts.

For all views, windows, subjects and any number of messages (`StatesAssumption`:
ModifiedStatus, which is never merged, is not among the states that are):

* `TypingSafety`: `Spec => []TypingPreserved`;
* `NewestSafety`: `Spec => []NewestArrives`;
* `ObsoleteSafety`: `Spec => []NoObsolete`;
* `ArrivalSafety`: `Spec => []AllArrive`.

These are properties of the whole queue, so they need induction over it. The provers
have none, and `QueueRuns` does without: a set of numbers has a least one (`Least`,
from the well-foundedness of `<`), so a queue whose prefixes do not all behave has a
shortest such prefix. In this way every queue has one run of a step function
(`RunExists`, `RunUnique`), the recursive definition is its last value (`RunsIs`), and
the run is known after a message was appended, taken from the head, removed where it
had no effect (`RunsSkip`) or moved to the end over messages that have none
(`RunsMove`). `KitQueueProofs` applies that to the three steps `Types`, `Hears` and
`Gets`. What is merged by `combineTextInput()` or `combineRemoveText()` is moved over
the messages between, which do nothing to the same window (`Combining`), and a merged
input does what the two did (`Merging`). A duplicate that is removed is not missed, as
its successor overwrites it (`DuplicatesSkipped`). That removing the first duplicate
leaves no other (`ObsoletePut`) needs that there was one at most, which is
`NoObsolete` itself. `IInv` is these four statements by runs, with the types.

Only model-checked: the invariants of `Tiles` (`ValidIsCurrent`, `SubscribersServed`,
`TrackerIsRight`) and its refinement of `TileView`, whose handlers filter and fold over
the queues of several processes at once; and all liveness, which needs fairness and
ENABLED.

## 5. Disagreements

Runs that are expected to be violated, each stating what a comment of the code
says; sources and quotations are in `PROJECT.json`.

| Run | What happens |
|---|---|
| `doc_broker_loss` | While unloading, an upload's success stops the broker although a newer save is in flight. Its edits are lost, and the check for data loss sees nothing. |
| `doc_broker_rename` | The upload of a renaming fails: the activity stays Rename, and the poll loop does nothing any more. |
| `tiles_modes` | Two views show a part in different edit modes: the location by which the Kit keeps last pictures lacks the mode, and deltas are made from the other mode's picture. |

Other cases that the properties above exclude by a proviso or a constant, found
by removing it; each is a hazard in `PROJECT.json`:

* A forced upload during another one replaces `_uploadRequest` before storage
  refuses it; the first one's success then records the second file's time, and
  the broker takes storage for up to date (`overlapped`).
* An edit that no token tells of, such as a drag: the broker stops with its ModifiedStatus
  under way, or two seconds after the last save in spite of the flag, and the check for
  data loss does not look at the flag (`untold`).
* `UnloadCompletes` fails after a failed save of an unmodified document, after an
  upload that is too large, while switching to online, and with a read-only owner
  who stays when an editor leaves and the upload fails.
* The only session leaves while switching to offline: the first of no sessions is
  dereferenced (in the model, the broker crashes).
* With two edit modes, a tile request queued in the Kit is taken for a duplicate
  of the other mode's.
* A keyframe takes the place of a queued keyframe in the outgoing queue, and the
  delta behind the replaced one goes out first: the browser shows garbage until
  the keyframe arrives.

## 6. What is not modelled

In the broker: DISKFULL is as TOO_LARGE and DOC_CHANGED as CONFLICT; failing
assertions do not end the model (release builds continue); the clients that
`shutdownClients` closes one by one leave at once in `TerminateChild`;
`limit_store_failures` of 0 (no limit) is excluded; the wait of two seconds for
ModifiedStatus, the minimum time between saves and the autosave intervals
are abstracted as said. Not in the model: storage attributes, locks,
password dialogs during loading, templates, migration between servers, the
`removesession` command, clipboard, media, quarantine copies, LocalStorage
(which uploads synchronously), the batch brokers for conversion.

In Tiles: sessions that are inactive. A user who is away gets no callbacks of the Kit:
`rememberEventsForInactiveUser()` keeps one invalidation for later, and only the result of
a save and ModifiedStatus pass. `ValidIsCurrent` and `CatchesUp` therefore are about
sessions that stay active. Nor are there the request for a single tile, which current browsers do not send;
previews, parts and zoom levels; sessions that join or leave; views that render
differently (canonical view ids); the stream cache; the order that cursors
give to requests. The edit modes are in, because caches tell them apart
differently. In ThreadPool: destructors. In KitQueue: what commands and events do
in LibreOffice, but for an event that moves the cursor; merged text overtakes
other commands of its own view, which therefore is not judged.

Parts that are not modelled at all are components with status `not_modelled` in
`PROJECT.json`, with the reason. Prefork, sockets, web sockets and HTTP are
system calls and bytes, of which the models have the results: Kits that die or
hang, messages in order, disconnections at any time. The coding of pixels in
Delta is compared pixel by pixel by its unit tests. Admin, file server,
configuration, modules and platform shells have no part in what happens to a
document.
