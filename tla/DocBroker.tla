----------------------------- MODULE DocBroker -----------------------------
(***************************************************************************)
(* One DocumentBroker (wsd/DocumentBroker.{hpp,cpp}): the sessions of a    *)
(* document, its saving by the Kit to the local disk, its uploading to     *)
(* WOPI storage, the activity that regulates them, and the poll loop that  *)
(* saves, uploads and unloads.                                             *)
(*                                                                         *)
(* Everything runs on the broker's poll thread, so each handler is one     *)
(* step; what interleaves is the order in which the Kit's messages, the    *)
(* storage's responses, the clients' commands and the loop's own checks    *)
(* are served.  The contents of the document is the number of edits in it, *)
(* and the modified time of a file is the number of the save that wrote    *)
(* it (0: as downloaded).  The two request managers' clocks become the     *)
(* facts the code derives from them.  While an interval that the poll loop *)
(* waits for has not elapsed, a round of the loop changes nothing.         *)
(***************************************************************************)
EXTENDS Integers, FiniteSets, Sequences

CONSTANTS
    Sessions,          \* ids of the client sessions, in the order of the map
    Viewers,           \* the sessions that storage lets only read
    Owners,            \* the sessions of the document's owner
    Commands,          \* what clients may ask for, besides leaving and plain editing
    Faults,            \* what may go wrong outside the broker
    UploadResults,     \* what storage may answer to an upload
    LimStoreFailures,  \* per_document.limit_store_failures
    AlwaysSaveOnExit,  \* per_document.always_save_on_exit
    MaxEdits,          \* bound: edits ever made
    MaxSaves,          \* bound: files the Kit ever writes
    MaxFromKit         \* bound: Kit messages pending when a client asks to save

ASSUME ConstantsAssumption ==
    /\ Sessions \subseteq Nat \ {0}
    /\ IsFiniteSet(Sessions)
    /\ Viewers \subseteq Sessions
    /\ Owners \subseteq Sessions
    /\ Commands \subseteq {"save", "upload", "saveas", "rename", "offline", "online",
                           "close", "token", "shutdown", "drag"}
    /\ Faults \subseteq {"crash", "hang", "savefailed", "savetimeout", "loadtimeout",
                         "download", "conflict", "stale", "idle"}
    /\ UploadResults \subseteq {"OK", "FAILED", "TOO_LARGE", "UNAUTHORIZED", "CONFLICT"}
    /\ LimStoreFailures \in Nat \ {0}
    /\ AlwaysSaveOnExit \in BOOLEAN
    /\ MaxEdits \in Nat
    /\ MaxSaves \in Nat
    /\ MaxFromKit \in Nat

NoSession == 0
NoTime == -1                      \* a default time_point, and the time of no file
NoFile == [ver |-> 0, mtime |-> NoTime]
NoUpload == [kind |-> "none", file |-> NoFile]
Foreign == -1                     \* contents that someone else put into storage

VARIABLES
    status,           \* _docState: None, Loading, Live, Destroying
    loaded,           \*   _loaded
    activity,         \*   _activity
    closeRequested,   \*   _closeRequested
    unloadRequested,  \*   _unloadRequested
    disconnected,     \*   _disconnected: No, Normal, Unexpected
    stop,             \* _stop
    shutdown,         \* SigUtil::getShutdownRequestFlag()
    isModified,       \* _isModified: the last ModifiedStatus from the Kit
    modifyAfter,      \* haveModifyActivityAfterSaveRequest()
    save,             \* _saveManager: request active, failures, version > 0, _lastModifiedTime
    upload,           \* _storageManager: request active, failures, _lastUploadedFileModifiedTime
    request,          \* _uploadRequest
    http,             \* WopiStorage::_uploadHttpSession: the upload in flight
    changed,          \* _documentChangedInStorage
    rename,           \* _renameSessionId (with its _renameFilename)
    sess,             \* ClientSession::_state, and whether _sessions has it
    closed,           \* the sessions with isCloseFrame()
    readonly,         \* the sessions that are not isEditable()
    expired,          \* the sessions whose authorization isExpired()
    lastEditing,      \* _lastEditingSessionId
    kit,              \* the Kit: state, document version, modified flag, saves
    fromKit,          \* the messages from the Kit, in order
    disk,             \* the document, its .upload and its .uploading file
    store,            \* the contents of the file in storage
    phase,            \* pollThread: running, flushing, done; crashed
    dataLoss,         \* pollThread's dataLoss
    edits,            \* history: edits forwarded to the Kit
    untold,           \* history: an edit that no token tells of, since the last save request
    lostStatus,       \* history: a ModifiedStatus found no session
    lostSave,         \* history: a save request, or its response, was dropped
    uploaded,         \* history: the time of the file last uploaded with success
    overlapped        \* history: an upload was requested during another one

stateVars   == <<status, closeRequested, unloadRequested, stop>>
saveVars    == <<save, modifyAfter, untold, lostSave>>
kitVars     == <<kit, disk, fromKit>>
uploadVars  == <<upload, request, http, overlapped>>
actVars     == <<activity, rename>>
sessVars    == <<sess, closed, readonly, expired, lastEditing>>
storeVars   == <<store, uploaded>>
modelVars   == <<edits, phase, dataLoss, storeVars>>
otherVars   == <<loaded, disconnected, shutdown, isModified, lostStatus, changed>>
vars == <<stateVars, saveVars, kitVars, uploadVars, actVars, sessVars, modelVars, otherVars>>

Init ==
    /\ status = "None" /\ loaded = FALSE /\ activity = "None"
    /\ closeRequested = FALSE /\ unloadRequested = FALSE
    /\ disconnected = "No" /\ stop = FALSE /\ shutdown = FALSE
    /\ isModified = FALSE /\ modifyAfter = FALSE
    /\ save = [active |-> FALSE, failures |-> 0, saved |-> FALSE, time |-> NoTime]
    /\ upload = [active |-> FALSE, failures |-> 0, time |-> NoTime]
    /\ request = [kind |-> "none", mtime |-> NoTime, s |-> NoSession]
    /\ http = NoUpload
    /\ changed = FALSE /\ rename = NoSession
    /\ sess = [s \in Sessions |-> "none"]
    /\ closed = {} /\ readonly = Viewers /\ expired = {} /\ lastEditing = NoSession
    /\ kit = [state |-> "up", ver |-> 0, modified |-> FALSE, saves |-> 0]
    /\ fromKit = <<>>
    /\ disk = [doc |-> NoFile, upload |-> NoFile, uploading |-> NoFile]
    /\ store = 0
    /\ phase = "running" /\ dataLoss = FALSE
    /\ edits = 0 /\ untold = FALSE /\ lostSave = FALSE /\ lostStatus = FALSE
    /\ uploaded = NoTime /\ overlapped = FALSE

----------------------------------------------------------------------------
(* What the handlers ask of the state.                                     *)

Exists(f) == f.mtime # NoTime

(* The keys of _sessions.                                                  *)
Attached == {s \in Sessions : sess[s] \in {"loading", "live", "wait"}}

Editable(s) == s \notin readonly
IsViewLoaded(s) == sess[s] = "live"

(* countActiveSessions(): loaded, and the client is not closing.           *)
ActiveSessions == {s \in Sessions : IsViewLoaded(s) /\ s \notin closed}

HaveAnotherEditableSession(s) == \E t \in Sessions \ {s} : IsViewLoaded(t) /\ Editable(t)
LastEditableSession(s) == Editable(s) /\ ~HaveAnotherEditableSession(s)

IsMarkedToDestroy == status = "Destroying"
IsUnloading == IsMarkedToDestroy \/ stop \/ unloadRequested \/ closeRequested \/ shutdown

(* getWriteableSession(), as a set of at most one session: the first       *)
(* owner; or else the last session that can write; or else the first       *)
(* session, even if it cannot write.                                       *)
WriteableSession ==
    LET owners == Attached \cap Owners
        usable == {s \in Attached : IsViewLoaded(s) /\ Editable(s) /\ s \notin expired}
        First(S) == {s \in S : \A t \in S : s <= t}
        Last(S) == {s \in S : \A t \in S : t <= s}
    IN  IF owners # {} THEN First(owners)
        ELSE IF usable # {} THEN Last(usable)
        ELSE First(Attached)

CanSave == disconnected = "No" /\ loaded /\ Attached # {}

IsPossiblyModified == modifyAfter \/ isModified

(* needToSaveToDisk() # No, with the save manager in state sv.             *)
NeedToSave(sv) == sv.failures > 0 \/ isModified \/ modifyAfter

IsStorageOutdated(up, dk) == Exists(dk.uploading) /\ dk.uploading.mtime # up.time

(* needToUploadToStorage() # No; without a document there is no storage.   *)
NeedToUpload(sv, dk) ==
    /\ status # "None"
    /\ \/ IsUnloading /\ AlwaysSaveOnExit /\ sv.saved
       \/ upload.failures > 0 /\ ~changed
       \/ IsStorageOutdated(upload, dk)

(* Mutants of WithResult: a failed request is taken for a success; the     *)
(* failures are counted down.                                              *)
FailureForgotten(manager, success) == [manager EXCEPT !.active = FALSE, !.failures = 0]

FailuresCountedDown(manager, success) ==
    [manager EXCEPT !.active = FALSE,
                    !.failures = IF success THEN @ - 1
                                 ELSE IF @ < LimStoreFailures THEN @ + 1 ELSE @]

(* RequestManager::setLastRequestResult.  Beyond the limit, the number of  *)
(* failures makes no difference.                                           *)
WithResult(manager, success) ==
    [manager EXCEPT !.active = FALSE,
                    !.failures = IF success THEN 0
                                 ELSE IF @ < LimStoreFailures THEN @ + 1 ELSE @]

----------------------------------------------------------------------------
(* The Kit.  It serves a message as soon as it is sent, while it is up;    *)
(* what takes time is the way back, fromKit.                               *)

(* The views in the Kit: a session is removed there when it is told to     *)
(* disconnect, and messages for it are then dropped.                       *)
KitHas(s) == kit.state = "up" /\ sess[s] \in {"loading", "live"}

KitReplies(kind, views) ==
    IF kit.state = "up"
    THEN [i \in DOMAIN views |-> [type |-> kind, s |-> views[i], arg |-> "none"]]
    ELSE <<>>

ModifiedStatus(value) == [type |-> "modified", s |-> NoSession, arg |-> value]

(* An edit reaches Core, which reports the document as modified.           *)
KitEdit ==
    /\ IF kit.state = "up"
       THEN /\ kit' = [kit EXCEPT !.ver = @ + 1, !.modified = TRUE]
            /\ fromKit' = IF kit.modified THEN fromKit
                          ELSE Append(fromKit, ModifiedStatus("true"))
       ELSE UNCHANGED <<kit, fromKit>>
    /\ UNCHANGED disk

(* .uno:Save.  Core saves a modified document, or fails to, and shortcuts  *)
(* an unmodified one; whatever the result, the document on disk becomes    *)
(* the .upload file.  ModifiedStatus and the result come in either order.  *)
KitSave(s, dontSaveIfUnmodified) ==
    LET Saved(result) == [type |-> "saved", s |-> s, arg |-> result]
        Renamed(doc) == [disk EXCEPT !.doc = NoFile,
                                     !.upload = IF Exists(doc) THEN doc ELSE @]
    IN  IF ~KitHas(s) THEN UNCHANGED kitVars
        ELSE \/ /\ ~kit.modified /\ dontSaveIfUnmodified
                /\ disk' = Renamed(disk.doc)
                /\ fromKit' = Append(fromKit, Saved("unmodified"))
                /\ UNCHANGED kit
             \/ /\ kit.modified \/ ~dontSaveIfUnmodified
                /\ kit' = [kit EXCEPT !.modified = FALSE, !.saves = @ + 1]
                /\ disk' = Renamed([ver |-> kit.ver, mtime |-> kit.saves + 1])
                /\ \/ fromKit' = fromKit \o <<Saved("success"), ModifiedStatus("false")>>
                   \/ fromKit' = fromKit \o <<ModifiedStatus("false"), Saved("success")>>
             \/ /\ "savefailed" \in Faults
                /\ kit.modified \/ ~dontSaveIfUnmodified
                /\ disk' = Renamed(disk.doc)
                /\ fromKit' = Append(fromKit, Saved("failed"))
                /\ UNCHANGED kit

----------------------------------------------------------------------------
(* Saving.                                                                 *)

(* sendUnoSave(): forget the file's time, so that the result is persisted; *)
(* whatever was typed so far is before the request.                        *)
SendUnoSave(s, dontSaveIfUnmodified, act) ==
    /\ save' = [save EXCEPT !.time = NoTime, !.active = TRUE]
    /\ modifyAfter' = FALSE /\ untold' = FALSE
    /\ lostSave' = (lostSave \/ ~KitHas(s))
    /\ activity' = IF act = "None" THEN "Save" ELSE act
    /\ KitSave(s, dontSaveIfUnmodified)

(* Whether autoSave() sends a save: when it is forced, or the document is  *)
(* modified and it is time to.  It also returns true during a save.        *)
AutoSaveSends(force) ==
    /\ activity # "Save"
    /\ CanSave
    /\ force \/ isModified

AutoSaveReturns(force) == activity = "Save" \/ AutoSaveSends(force)

SavingSession ==
    IF lastEditing \in Attached /\ Editable(lastEditing) /\ IsViewLoaded(lastEditing)
    THEN {lastEditing}
    ELSE WriteableSession

AutoSave ==
    /\ \E s \in SavingSession : SendUnoSave(s, TRUE, activity)
    /\ UNCHANGED rename

----------------------------------------------------------------------------
(* Sessions on their way out.                                              *)

(* disconnectSessionInternal() for every session of S: a view in the Kit   *)
(* has to be disconnected there first, in the order of the sessions, and   *)
(* others go at once.  q is the rest of fromKit.                           *)
DisconnectSessions(S, q) ==
    LET views == {s \in S : sess[s] \in {"loading", "live"}}
    IN  /\ sess' = [s \in Sessions |-> IF s \in views THEN "wait"
                                       ELSE IF s \in S THEN "gone" ELSE sess[s]]
        /\ \E order \in [1..Cardinality(views) -> views] :
             /\ \A i, j \in DOMAIN order : i < j => order[i] < order[j]
             /\ fromKit' = q \o KitReplies("disconnected", order)

MarkedToDestroyIf(condition) == IF condition THEN "Destroying" ELSE status

(* The closed sessions that were kept for a save or an upload.             *)
ClosedSessions == {s \in Attached : s \in closed /\ sess[s] # "wait"}

----------------------------------------------------------------------------
(* Uploading.  A context is what the handler has made of the save manager, *)
(* the disk, the upload in flight, the storage manager and the activity    *)
(* before it comes to the upload.                                          *)

Context(sv, dk, h, up, act) ==
    [save |-> sv, disk |-> dk, http |-> h, upload |-> up, activity |-> act]

NoUploadStarts(c) ==
    /\ http' = c.http /\ upload' = c.upload /\ activity' = c.activity
    /\ UNCHANGED <<request, rename, overlapped>>

(* The asynchronous upload reports an error before it starts: the activity *)
(* that waits for it is over.                                              *)
UploadError(c) ==
    LET waiting == c.activity \in {"Rename", "SwitchingToOffline"}
    IN  /\ upload' = WithResult(c.upload, FALSE)
        /\ activity' = IF waiting THEN "None" ELSE c.activity
        /\ rename' = IF c.activity = "Rename" THEN NoSession ELSE rename

(* Mutant of UploadRequest: the time of the document, not of its copy.     *)
RequestOfDocument(s, kind, file) == [kind |-> kind, mtime |-> disk.doc.mtime, s |-> s]

UploadRequest(s, kind, file) == [kind |-> kind, mtime |-> file.mtime, s |-> s]

(* WopiStorage::uploadLocalFileToStorageAsync: one upload at a time, of a  *)
(* file that is there.                                                     *)
UploadLocalFileToStorageAsync(kind, file, c) ==
    LET busy == c.http # NoUpload
        missing == kind # "saveas" /\ ~Exists(file)
    IN  \/ /\ busy \/ missing
           /\ UploadError(c)
           /\ http' = c.http
           /\ overlapped' = (overlapped \/ busy)
        \/ /\ ~busy /\ ~missing
           /\ http' = [kind |-> kind, file |-> file]
           /\ upload' = [c.upload EXCEPT !.active = TRUE]
           /\ activity' = c.activity
           /\ UNCHANGED <<rename, overlapped>>

(* uploadToStorageInternal(), for a plain upload ("file"), a Save-As       *)
(* ("saveas") or a renaming.  The request is replaced before storage finds *)
(* that it is busy.                                                        *)
UploadToStorageInternal(s, kind, force, c) ==
    LET file == c.disk.uploading
        skip == ~Editable(s) \/ (kind = "file" /\ ~force /\ file.mtime = c.save.time)
    IN  \/ skip /\ NoUploadStarts(c)
        \/ /\ ~skip
           /\ request' = UploadRequest(s, kind, file)
           /\ UploadLocalFileToStorageAsync(kind, file, c)

(* uploadToStorage(): at once if forced or after a success, else not often.*)
UploadToStorage(s, force, elapsed, c) ==
    LET now == \/ force \/ c.upload.failures = 0
               \/ ~c.upload.active /\ elapsed
    IN  \/ now /\ UploadToStorageInternal(s, "file", force, c)
        \/ ~now /\ NoUploadStarts(c)

(* The document is saved and uploaded: rename it in storage.               *)
RenameInStorage(c) ==
    \/ /\ rename \notin Attached
       /\ activity' = "None" /\ rename' = NoSession
       /\ http' = c.http /\ upload' = c.upload
       /\ UNCHANGED <<request, overlapped>>
    \/ /\ rename \in Attached
       /\ UploadToStorageInternal(rename, "rename", FALSE, c)

(* switchToOffline() takes the first session, which must be there.         *)
PhaseAfterSwitch == IF Attached = {} THEN "crashed" ELSE phase

(* checkAndUploadToStorage(), with the save manager sv, the disk dk and    *)
(* the messages q still to come from the Kit.                              *)
CheckAndUploadToStorage(s, justSaved, elapsed, sv, dk, q) ==
    LET need == NeedToUpload(sv, dk)
        act == IF activity = "Save" THEN "None" ELSE activity
        c == Context(sv, dk, http, upload, act)
        modified == IF justSaved THEN modifyAfter ELSE NeedToSave(sv)
        saveAgain == modified /\ IsUnloading
        switching == activity = "SwitchingToOffline" /\ ~need
        renaming == activity = "Rename" /\ ~need
    IN  \/ /\ renaming
           /\ RenameInStorage(c)
           /\ fromKit' = q
           /\ UNCHANGED <<status, sess, phase>>
        \/ /\ switching
           /\ NoUploadStarts([c EXCEPT !.activity = "None"])
           /\ status' = "Destroying"
           /\ phase' = PhaseAfterSwitch
           /\ fromKit' = q
           /\ UNCHANGED sess
        \/ /\ ~renaming /\ ~switching /\ saveAgain
           /\ NoUploadStarts(c)
           /\ fromKit' = q
           /\ UNCHANGED <<status, sess, phase>>
        \/ /\ ~renaming /\ ~switching /\ ~saveAgain /\ need
           /\ UploadToStorage(s, FALSE, elapsed, c)
           /\ fromKit' = q
           /\ UNCHANGED <<status, sess, phase>>
        \/ /\ ~renaming /\ ~switching /\ ~saveAgain /\ ~need
           /\ NoUploadStarts(c)
           /\ IF http = NoUpload
              THEN /\ DisconnectSessions(ClosedSessions, q)
                   /\ status' = MarkedToDestroyIf(unloadRequested /\ ClosedSessions # {})
              ELSE fromKit' = q /\ UNCHANGED <<sess, status>>
           /\ UNCHANGED phase

----------------------------------------------------------------------------
(* Clients.  A closed session sends nothing more, and _handleInput refuses *)
(* everything once the broker is marked to destroy or stopped.             *)

Serving == phase \in {"running", "flushing"}

HandlesInput(s) ==
    /\ Serving
    /\ sess[s] \in {"loading", "live"} /\ s \notin closed
    /\ ~IsMarkedToDestroy /\ ~stop

(* createNewClientSession(), on the thread that accepts connections.       *)
CreateNewClientSession(s) ==
    /\ Serving
    /\ sess[s] = "none"
    /\ ~IsMarkedToDestroy /\ ~stop /\ ~unloadRequested
    /\ sess' = [sess EXCEPT ![s] = "detached"]
    /\ UNCHANGED <<stateVars, saveVars, kitVars, uploadVars, actVars, closed, readonly,
                   expired, lastEditing, modelVars, otherVars>>

(* addSession(), when the connection has moved to the broker's thread: the *)
(* first session downloads the document, later ones compare its timestamp, *)
(* and the Kit gets a new view.                                            *)
AddSession(s) ==
    /\ Serving
    /\ sess[s] = "detached"
    /\ \/ /\ IsMarkedToDestroy \/ "download" \in Faults
          /\ sess' = [sess EXCEPT ![s] = "rejected"]
          /\ status' = MarkedToDestroyIf(Attached = {})
          /\ UNCHANGED <<save, upload, storeVars, disk, fromKit, changed>>
       \/ /\ ~IsMarkedToDestroy
          /\ sess' = [sess EXCEPT ![s] = "loading"]
          /\ fromKit' = fromKit \o KitReplies("status", <<s>>)
          /\ IF status = "None"
             THEN /\ status' = "Loading"
                  /\ disk' = [disk EXCEPT !.doc = [ver |-> 0, mtime |-> 0]]
                  /\ save' = [save EXCEPT !.time = 0]
                  /\ upload' = [upload EXCEPT !.time = 0]
                  /\ uploaded' = 0
                  /\ UNCHANGED <<changed, store>>
             ELSE /\ \/ UNCHANGED <<changed, store>>
                     \/ "conflict" \in Faults /\ changed' = TRUE /\ store' = Foreign
                  /\ UNCHANGED <<status, disk, save, upload, uploaded>>
    /\ UNCHANGED <<closeRequested, unloadRequested, stop, modifyAfter, untold, lostSave,
                   kit, request, http, overlapped, actVars, closed, readonly, expired,
                   lastEditing, edits, phase, dataLoss, loaded, disconnected, shutdown,
                   isModified, lostStatus>>

(* A modifying message.  tokenIndicatesDocumentModification() tells most   *)
(* of them from the others; it does not tell those of a drag ("mouse"),    *)
(* "removetextcontext", or what dialogevent, formfieldevent and            *)
(* contentcontrolevent do to the document.  While unloading,               *)
(* forwardToChild() drops typing and the mouse, but no other edits.        *)
Edit(s) ==
    /\ HandlesInput(s) /\ IsViewLoaded(s) /\ Editable(s)
    /\ \E told \in IF "drag" \in Commands THEN BOOLEAN ELSE {TRUE} :
         /\ modifyAfter' = (modifyAfter \/ told)
         /\ \/ /\ edits < MaxEdits
               /\ edits' = edits + 1
               /\ untold' = (untold \/ ~told)
               /\ KitEdit
            \/ /\ IsUnloading
               /\ UNCHANGED <<edits, untold, kitVars>>
    /\ lastEditing' = s
    /\ UNCHANGED <<stateVars, save, lostSave, uploadVars, actVars, sess, closed, readonly,
                   expired, phase, dataLoss, storeVars, otherVars>>

(* "save": manualSave().                                                   *)
ManualSave(s) ==
    /\ "save" \in Commands /\ Len(fromKit) < MaxFromKit
    /\ HandlesInput(s) /\ IsViewLoaded(s) /\ Editable(s)
    /\ activity # "Save"
    /\ \E dontSaveIfUnmodified \in BOOLEAN :
         /\ dontSaveIfUnmodified \/ kit.saves < MaxSaves
         /\ SendUnoSave(s, dontSaveIfUnmodified, activity)
    /\ UNCHANGED <<stateVars, uploadVars, rename, sessVars, modelVars, otherVars>>

(* "savetostorage" forces an upload; a Save-As uploads the exported file.  *)
ClientUpload(s, kind) ==
    /\ HandlesInput(s) /\ IsViewLoaded(s)
    /\ LET c == Context(save, disk, http, upload, activity)
       IN  \/ /\ "upload" \in Commands /\ kind = "file"
              /\ UploadToStorage(s, TRUE, FALSE, c)
           \/ /\ "saveas" \in Commands /\ kind = "saveas"
              /\ UploadToStorageInternal(s, "saveas", FALSE, c)
    /\ UNCHANGED <<stateVars, saveVars, kitVars, sessVars, modelVars, otherVars>>

(* startRenameFileCommand(): save first.                                   *)
StartRenameFileCommand(s) ==
    \/ /\ s \in Attached
       /\ rename' = s
       /\ SendUnoSave(s, TRUE, "Rename")
    \/ /\ s \notin Attached
       /\ rename' = NoSession
       /\ activity' = "None"
       /\ UNCHANGED <<saveVars, kitVars>>

(* "renamefile": handleRenameFileCommand().  During another activity the   *)
(* renaming is queued, and a second one during the first takes its place   *)
(* if it is to the same name.                                              *)
HandleRenameFileCommand(s) ==
    /\ "rename" \in Commands /\ Len(fromKit) < MaxFromKit
    /\ HandlesInput(s) /\ IsViewLoaded(s)
    /\ \/ activity = "None" /\ StartRenameFileCommand(s)
       \/ /\ activity # "None"
          /\ rename' = s
          /\ UNCHANGED <<activity, saveVars, kitVars>>
    /\ UNCHANGED <<stateVars, uploadVars, sessVars, modelVars, otherVars>>

(* "switch_request": switchMode(), which an activity refuses.              *)
SwitchMode(s) ==
    /\ HandlesInput(s) /\ IsViewLoaded(s)
    /\ activity = "None"
    /\ \/ /\ "offline" \in Commands /\ Len(fromKit) < MaxFromKit
          /\ Cardinality(Attached) <= 1
          /\ SendUnoSave(s, TRUE, "SwitchingToOffline")
       \/ /\ "online" \in Commands
          /\ activity' = "SwitchingToOnline"
          /\ UNCHANGED <<saveVars, kitVars>>
    /\ UNCHANGED <<stateVars, uploadVars, rename, sessVars, modelVars, otherVars>>

(* closeDocument(): in a conflict, discarding the changes.                 *)
CloseDocument(s) ==
    /\ "close" \in Commands
    /\ HandlesInput(s)
    /\ closeRequested' = TRUE
    /\ stop' = (stop \/ changed)
    /\ UNCHANGED <<status, unloadRequested, saveVars, kitVars, uploadVars, actVars,
                   sessVars, modelVars, otherVars>>

(* "closedocument" without the right to terminate the document (which only *)
(* an owner can have): after a conflict, it is reloaded for all.           *)
RefreshForAll(s) ==
    /\ "close" \in Commands
    /\ HandlesInput(s)
    /\ changed
    /\ stop' = TRUE
    /\ UNCHANGED <<status, closeRequested, unloadRequested, saveVars, kitVars, uploadVars,
                   actVars, sessVars, modelVars, otherVars>>

(* "resetaccesstoken".                                                     *)
ResetAccessToken(s) ==
    /\ "token" \in Commands
    /\ HandlesInput(s) /\ s \in expired
    /\ expired' = expired \ {s}
    /\ UNCHANGED <<stateVars, saveVars, kitVars, uploadVars, actVars, sess, closed, readonly,
                   lastEditing, modelVars, otherVars>>

(* The signal that recycles the server.                                    *)
RequestShutdown ==
    /\ "shutdown" \in Commands
    /\ ~shutdown
    /\ shutdown' = TRUE
    /\ UNCHANGED <<stateVars, saveVars, kitVars, uploadVars, actVars, sessVars, modelVars,
                   loaded, disconnected, isModified, lostStatus, changed>>

(* onDisconnect(): removeSession(), and only then closeFrame().  The last  *)
(* editable session stays until the save that is under way, or that is     *)
(* started now, is done.  If at most one session was active then the       *)
(* document is to be unloaded, now or when it is saved and uploaded.  With *)
(* no session left to load the document for, the Kit is killed.            *)
OnDisconnect(s) ==
    LET last == LastEditableSession(s)
        force == AlwaysSaveOnExit \/ IsPossiblyModified
        saves == last /\ ~save.active /\ AutoSaveSends(force)
        stays == last /\ (save.active \/ AutoSaveReturns(force))
        few == Cardinality(ActiveSessions) <= 1
    IN  /\ Serving
        /\ sess[s] \in {"rejected", "loading", "live"} /\ s \notin closed
        /\ closed' = closed \cup {s}
        /\ IF saves THEN AutoSave
           ELSE /\ kit' = IF ~stays /\ ~loaded /\ Attached = {}
                          THEN [kit EXCEPT !.state = "dead"] ELSE kit
                /\ UNCHANGED <<saveVars, disk, actVars>>
        /\ CASE saves -> UNCHANGED sess
             [] stays /\ ~saves -> UNCHANGED <<sess, fromKit>>
             [] OTHER -> DisconnectSessions({s}, fromKit)
        /\ unloadRequested' = (unloadRequested \/ (few /\ (save'.active \/ http # NoUpload)))
        /\ status' = MarkedToDestroyIf(
                         \/ ~stays /\ unloadRequested
                         \/ few /\ ~save'.active /\ http = NoUpload /\ Attached' = {})
        /\ UNCHANGED <<closeRequested, stop, uploadVars, readonly, expired, lastEditing,
                       modelVars, otherVars>>

----------------------------------------------------------------------------
(* The Kit's messages, each through the session it is addressed to, which  *)
(* must still be there.                                                    *)

Receives(type) == Serving /\ fromKit # <<>> /\ Head(fromKit).type = type

(* Mutant of SetLoaded: every view that is loaded makes the document live. *)
SetLoadedAgain(s) == IF s \in Attached THEN "Live" ELSE status

(* setLoaded().                                                            *)
SetLoaded(s) == IF s \in Attached /\ ~loaded THEN "Live" ELSE status

(* "status:": the view is loaded, and with the first one the document is.  *)
HandleStatus ==
    /\ Receives("status")
    /\ fromKit' = Tail(fromKit)
    /\ LET s == Head(fromKit).s
       IN  /\ sess' = IF sess[s] = "loading" THEN [sess EXCEPT ![s] = "live"] ELSE sess
           /\ loaded' = (loaded \/ s \in Attached)
           /\ status' = SetLoaded(s)
    /\ UNCHANGED <<closeRequested, unloadRequested, stop, saveVars, kit, disk, uploadVars,
                   actVars, closed, readonly, expired, lastEditing, modelVars,
                   disconnected, shutdown, isModified, lostStatus, changed>>

(* Mutant of HandleModifiedStatus: what comes during a save is taken for   *)
(* the status before it.                                                   *)
IgnoreDuringSave ==
    /\ Receives("modified")
    /\ fromKit' = Tail(fromKit)
    /\ isModified' = IF Attached # {} /\ ~save.active THEN Head(fromKit).arg = "true"
                     ELSE isModified
    /\ UNCHANGED <<stateVars, saveVars, kit, disk, uploadVars, actVars, sessVars, modelVars,
                   loaded, disconnected, shutdown, lostStatus, changed>>

(* "statechanged: .uno:ModifiedStatus", which every view gets.             *)
HandleModifiedStatus ==
    /\ Receives("modified")
    /\ fromKit' = Tail(fromKit)
    /\ isModified' = IF Attached # {} THEN Head(fromKit).arg = "true" ELSE isModified
    /\ lostStatus' = (lostStatus \/ Attached = {})
    /\ UNCHANGED <<stateVars, saveVars, kit, disk, uploadVars, actVars, sessVars, modelVars,
                   loaded, disconnected, shutdown, changed>>

(* "unocommandresult:" of .uno:Save: handleSaveResponse().  The response   *)
(* does not say which request it answers.                                  *)
HandleSaveResponse(elapsed) ==
    /\ Receives("saved")
    /\ LET m == Head(fromKit)
           ok == m.arg # "failed"
           sv == [WithResult(save, ok) EXCEPT !.saved = @ \/ m.arg = "success"]
           dk == IF Exists(disk.upload)
                 THEN [disk EXCEPT !.uploading = disk.upload, !.upload = NoFile]
                 ELSE disk
       IN  IF m.s \in Attached
           THEN /\ save' = sv
                /\ disk' = dk
                /\ CheckAndUploadToStorage(m.s, ok, elapsed, sv, dk, Tail(fromKit))
                /\ UNCHANGED lostSave
           ELSE /\ fromKit' = Tail(fromKit)
                /\ lostSave' = TRUE
                /\ UNCHANGED <<save, disk, uploadVars, actVars, status, sess, phase>>
    /\ UNCHANGED <<closeRequested, unloadRequested, stop, modifyAfter, untold, kit, closed,
                   readonly, expired, lastEditing, edits, dataLoss, storeVars, otherVars>>

(* "disconnected:": finalRemoveSession().                                  *)
HandleDisconnected ==
    /\ Receives("disconnected")
    /\ fromKit' = Tail(fromKit)
    /\ sess' = [sess EXCEPT ![Head(fromKit).s] = "gone"]
    /\ UNCHANGED <<stateVars, saveVars, kit, disk, uploadVars, actVars, closed, readonly,
                   expired, lastEditing, modelVars, otherVars>>

(* The Kit dies, or hangs: it serves nothing more.                         *)
KitFails(state) ==
    /\ \/ state = "dead" /\ "crash" \in Faults /\ kit.state # "dead"
       \/ state = "hung" /\ "hang" \in Faults /\ kit.state = "up"
    /\ kit' = [kit EXCEPT !.state = state]
    /\ UNCHANGED <<stateVars, saveVars, disk, fromKit, uploadVars, actVars, sessVars,
                   modelVars, otherVars>>

(* The end of the Kit's connection, after its last message:                *)
(* disconnectedFromKit(), which closes the document unless it has a reason *)
(* to close already.                                                       *)
DisconnectedFromKit ==
    /\ Serving
    /\ kit.state = "dead" /\ fromKit = <<>> /\ disconnected = "No"
    /\ disconnected' = IF IsUnloading THEN "Normal" ELSE "Unexpected"
    /\ closeRequested' = (closeRequested \/ ~stop)
    /\ stop' = (stop \/ (~closeRequested /\ changed))
    /\ UNCHANGED <<status, unloadRequested, saveVars, kitVars, uploadVars, actVars, sessVars,
                   modelVars, loaded, shutdown, isModified, lostStatus, changed>>

----------------------------------------------------------------------------
(* Storage answers: handleUploadToStorageResponse(), with what the request *)
(* says that was uploaded.                                                 *)

(* Mutant of IsPlainUpload: a Save-As counts as an upload of the document. *)
IsNoRenaming == request.kind # "rename"

IsPlainUpload == request.kind = "file"

UploadSucceeded ==
    LET plain == IsPlainUpload
        sv == IF plain THEN [save EXCEPT !.time = request.mtime] ELSE save
        ok == WithResult(upload, TRUE)
        up == IF plain THEN [ok EXCEPT !.time = request.mtime] ELSE ok
        switching == plain /\ activity = "SwitchingToOffline"
        renamed == request.kind = "rename"
        act == IF switching \/ renamed THEN "None" ELSE activity
        c == Context(sv, disk, NoUpload, up, act)
    IN  /\ save' = sv
        /\ changed' = (changed /\ ~plain)
        /\ uploaded' = IF http.kind = "file" THEN http.file.mtime ELSE uploaded
        /\ \/ /\ plain /\ activity = "Rename"
              /\ RenameInStorage(c)
           \/ /\ ~(plain /\ activity = "Rename") /\ ~renamed
              /\ NoUploadStarts(c)
           \/ /\ renamed
              /\ rename' = NoSession
              /\ http' = NoUpload /\ upload' = up /\ activity' = act
              /\ UNCHANGED <<request, overlapped>>
        /\ phase' = IF switching THEN PhaseAfterSwitch ELSE phase
        /\ status' = MarkedToDestroyIf(switching \/ unloadRequested)
        /\ stop' = (stop \/ ((status' = "Destroying" \/ Attached = {}) /\ ~IsPossiblyModified))
        /\ DisconnectSessions(ClosedSessions, fromKit)
        /\ UNCHANGED <<readonly, expired>>

UploadFailed(result) ==
    /\ http' = NoUpload
    /\ upload' = WithResult(upload, FALSE)
    /\ readonly' = IF result = "TOO_LARGE" THEN readonly \cup Attached ELSE readonly
    /\ expired' = IF result = "UNAUTHORIZED" THEN expired \cup ({request.s} \cap Attached)
                  ELSE expired
    /\ changed' = (changed \/ result = "CONFLICT")
    /\ stop' = (stop \/ (result = "CONFLICT" /\ Attached \subseteq closed))
    /\ UNCHANGED <<save, activity, rename, request, overlapped, status, sess, fromKit, phase,
                   uploaded>>

(* What storage may hold when its answer is taken for the result: an       *)
(* upload that failed, or that had no answer, may have been stored.        *)
StoreAfter(result) ==
    CASE result = "OK" /\ http.kind = "file" -> {http.file.ver}
      [] result = "FAILED" /\ http.kind = "file" -> {store, http.file.ver}
      [] result = "CONFLICT" -> {Foreign}
      [] OTHER -> {store}

HandleUploadToStorageResponse(result) ==
    /\ Serving
    /\ http # NoUpload
    /\ store' \in StoreAfter(result)
    /\ IF result = "OK" THEN UploadSucceeded ELSE UploadFailed(result)
    /\ UNCHANGED <<closeRequested, unloadRequested, modifyAfter, untold, lostSave, kit, disk,
                   closed, lastEditing, edits, dataLoss, loaded, disconnected, shutdown,
                   isModified, lostStatus>>

----------------------------------------------------------------------------
(* The poll loop, after the events of one round have been served.          *)

StopBroker ==
    /\ stop' = TRUE
    /\ UNCHANGED <<status, saveVars, kitVars, actVars, uploadVars, sess, phase>>

(* A save sent by the loop itself.                                         *)
PollSaves == AutoSave /\ UNCHANGED <<stop, status, uploadVars, sess, phase>>

(* checkAndUploadToStorage() by a session with a valid token.              *)
PollUploads ==
    /\ \E s \in WriteableSession :
         CheckAndUploadToStorage(s, FALSE, TRUE, save, disk, fromKit)
    /\ UNCHANGED <<stop, saveVars, kit, disk>>

CanUseWriteableSession == \E s \in WriteableSession : s \notin expired

(* Whether autoSaveAndStop() finds nothing, or nothing possible, to do.    *)
CanStop ==
    LET needSave == NeedToSave(save)
        needUpload == NeedToUpload(save, disk)
    IN  \/ ~needSave /\ ~needUpload
        \/ /\ ~needSave /\ ~IsStorageOutdated(upload, disk)
           /\ \/ ~AlwaysSaveOnExit \/ upload.failures = 0
              \/ upload.failures >= LimStoreFailures
        \/ needSave /\ ~CanSave

(* The last save was successful and nothing was typed since.               *)
CanStopWithoutUpload ==
    ~NeedToUpload(save, disk) /\ ~modifyAfter /\ save.failures = 0

(* autoSaveAndStop(): stop, or save, or upload what is saved.              *)
AutoSaveAndStop ==
    LET stops == CanStop \/ CanStopWithoutUpload
        saves == AutoSaveReturns(IsPossiblyModified)
    IN  /\ ~save.active /\ http = NoUpload
        /\ \/ stops /\ StopBroker
           \/ ~stops /\ saves /\ PollSaves
           \/ ~stops /\ ~saves /\ CanUseWriteableSession /\ PollUploads
           \/ ~stops /\ ~saves /\ ~CanUseWriteableSession /\ StopBroker

ReachedStoreFailures ==
    save.failures >= LimStoreFailures \/ upload.failures >= LimStoreFailures

Unloads == unloadRequested \/ shutdown \/ closeRequested
IsDead == Attached = {} /\ (loaded \/ IsMarkedToDestroy)

Polling == phase = "running" /\ ~stop

(* Without an activity: the queued renaming, or unloading, or the timed    *)
(* save, or another attempt at an upload that failed.                      *)
PollNone ==
    /\ activity = "None"
    /\ \/ /\ rename # NoSession
          /\ StartRenameFileCommand(rename)
          /\ UNCHANGED <<stop, status, uploadVars, sess, phase>>
       \/ /\ rename = NoSession
          /\ \/ loaded /\ (IsDead \/ "idle" \in Faults)
             \/ ~IsDead /\ Unloads /\ ~ReachedStoreFailures
          /\ AutoSaveAndStop
       \/ /\ rename = NoSession
          /\ \/ IsDead /\ ~loaded
             \/ ~IsDead /\ Unloads /\ ReachedStoreFailures
          /\ StopBroker
       \/ /\ rename = NoSession /\ ~IsDead /\ ~Unloads
          /\ \/ AutoSaveSends(FALSE) /\ PollSaves
             \/ /\ http = NoUpload /\ upload.failures > 0
                /\ NeedToUpload(save, disk) /\ CanUseWriteableSession
                /\ PollUploads

(* Mutants of PollSave: the activity is not ended; a Kit that is gone is   *)
(* waited for.                                                             *)
SaveNotEnded ==
    /\ activity = "Save"
    /\ disconnected # "No" \/ "savetimeout" \in Faults
    /\ save.active
    /\ save' = WithResult(save, FALSE)
    /\ UNCHANGED <<stop, status, modifyAfter, untold, lostSave, kitVars, actVars, uploadVars,
                   sess, phase>>

WaitForKit ==
    /\ activity = "Save"
    /\ "savetimeout" \in Faults /\ save.active /\ disconnected = "No"
    /\ Len(fromKit) < MaxFromKit
    /\ save' = WithResult(save, FALSE)
    /\ activity' = "None"
    /\ UNCHANGED <<stop, status, modifyAfter, untold, lostSave, kitVars, rename, uploadVars,
                   sess, phase>>

(* During a save: the Kit is gone, or takes too long.                      *)
PollSave ==
    /\ activity = "Save"
    /\ \/ disconnected # "No"
       \/ "savetimeout" \in Faults /\ save.active /\ Len(fromKit) < MaxFromKit
    /\ save' = WithResult(save, FALSE)
    /\ activity' = "None"
    /\ UNCHANGED <<stop, status, modifyAfter, untold, lostSave, kitVars, rename, uploadVars,
                   sess, phase>>

(* A round of the loop.  During any other activity it does nothing.        *)
PollRound ==
    /\ Polling
    /\ PollNone \/ PollSave
    /\ UNCHANGED <<closeRequested, unloadRequested, closed, readonly, expired, lastEditing,
                   edits, dataLoss, storeVars, otherVars>>

(* The document takes too long to load: the Kit is killed.                 *)
LoadTimeout ==
    /\ Polling
    /\ "loadtimeout" \in Faults /\ ~loaded
    /\ stop' = TRUE
    /\ kit' = [kit EXCEPT !.state = "dead"]
    /\ UNCHANGED <<status, closeRequested, unloadRequested, saveVars, disk, fromKit,
                   uploadVars, actVars, sessVars, modelVars, otherVars>>

(* A session that the Kit has not disconnected in time.                    *)
RemoveStaleSession(s) ==
    /\ Polling
    /\ "stale" \in Faults /\ sess[s] = "wait"
    /\ sess' = [sess EXCEPT ![s] = "gone"]
    /\ UNCHANGED <<stateVars, saveVars, kitVars, uploadVars, actVars, closed, readonly,
                   expired, lastEditing, modelVars, otherVars>>

(* The loop ends: it tells a Kit without views to exit, checks for data    *)
(* loss, and goes on to flush.                                             *)
ExitLoop ==
    /\ phase = "running" /\ stop
    /\ phase' = "flushing"
    /\ dataLoss' = /\ \/ modifyAfter \/ save.failures > 0 \/ upload.failures > 0
                      \/ IsStorageOutdated(upload, disk)
                   /\ ~(closeRequested /\ changed)
    /\ kit' = IF Attached = {} THEN [kit EXCEPT !.state = "dead"] ELSE kit
    /\ UNCHANGED <<stateVars, saveVars, disk, fromKit, uploadVars, actVars, sessVars, edits,
                   storeVars, otherVars>>

(* terminateChild(): the sessions are removed and the Kit is closed.       *)
TerminateChild ==
    /\ phase = "flushing"
    /\ phase' = "done"
    /\ sess' = [s \in Sessions |-> IF s \in Attached THEN "gone" ELSE sess[s]]
    /\ kit' = [kit EXCEPT !.state = "dead"]
    /\ UNCHANGED <<stateVars, saveVars, disk, fromKit, uploadVars, actVars, closed, readonly,
                   expired, lastEditing, edits, dataLoss, storeVars, otherVars>>

----------------------------------------------------------------------------

Next ==
    \/ \E s \in Sessions :
         \/ CreateNewClientSession(s)
         \/ AddSession(s)
         \/ Edit(s)
         \/ ManualSave(s)
         \/ ClientUpload(s, "file")
         \/ ClientUpload(s, "saveas")
         \/ HandleRenameFileCommand(s)
         \/ SwitchMode(s)
         \/ CloseDocument(s)
         \/ RefreshForAll(s)
         \/ ResetAccessToken(s)
         \/ OnDisconnect(s)
         \/ RemoveStaleSession(s)
    \/ RequestShutdown
    \/ HandleStatus
    \/ HandleModifiedStatus
    \/ \E elapsed \in BOOLEAN : HandleSaveResponse(elapsed)
    \/ PollRound
    \/ HandleDisconnected
    \/ \E state \in {"dead", "hung"} : KitFails(state)
    \/ DisconnectedFromKit
    \/ \E result \in UploadResults : HandleUploadToStorageResponse(result)
    \/ LoadTimeout
    \/ ExitLoop
    \/ TerminateChild

Spec == Init /\ [][Next]_vars

(* The poll thread never stops serving its sockets and its timers: a       *)
(* message that arrived is handled, an upload is answered or times out,    *)
(* and the loop comes round when the intervals it waits for have elapsed.  *)
(* Clients, the Kit and the operator may do nothing.                       *)
Fairness ==
    /\ \A s \in Sessions : WF_vars(AddSession(s))
    /\ WF_vars(HandleStatus)
    /\ WF_vars(HandleModifiedStatus)
    /\ WF_vars(HandleSaveResponse(TRUE))
    /\ WF_vars(HandleDisconnected)
    /\ WF_vars(DisconnectedFromKit)
    /\ WF_vars(\E result \in UploadResults : HandleUploadToStorageResponse(result))
    /\ WF_vars(PollRound)
    /\ WF_vars(ExitLoop)
    /\ WF_vars(TerminateChild)

FairSpec == Spec /\ Fairness

----------------------------------------------------------------------------

Times == {NoTime} \cup Nat
Files == [ver : Nat, mtime : Times]
Kinds == {"none", "file", "saveas", "rename"}
Statuses == {"None", "Loading", "Live", "Destroying"}
Activities == {"None", "Save", "Rename", "SwitchingToOffline", "SwitchingToOnline"}
SessionStates == {"none", "detached", "rejected", "loading", "live", "wait", "gone"}
Phases == {"running", "flushing", "done", "crashed"}
Contents == {Foreign} \cup Nat
SessionOrNone == Sessions \cup {NoSession}
SaveType == [active : BOOLEAN, failures : 0..LimStoreFailures, saved : BOOLEAN, time : Times]
UploadType == [active : BOOLEAN, failures : 0..LimStoreFailures, time : Times]
RequestType == [kind : Kinds, mtime : Times, s : SessionOrNone]
HttpType == [kind : Kinds, file : Files]
KitType == [state : {"up", "hung", "dead"}, ver : Nat, modified : BOOLEAN, saves : Nat]
DiskType == [doc : Files, upload : Files, uploading : Files]
Messages == [type : {"status", "modified", "saved", "disconnected"},
             s : SessionOrNone,
             arg : {"none", "true", "false", "success", "unmodified", "failed"}]

StateTypeOK ==
    /\ status \in Statuses
    /\ closeRequested \in BOOLEAN /\ unloadRequested \in BOOLEAN /\ stop \in BOOLEAN
SaveTypeOK ==
    /\ save \in SaveType /\ modifyAfter \in BOOLEAN
    /\ untold \in BOOLEAN /\ lostSave \in BOOLEAN
KitTypeOK == kit \in KitType /\ disk \in DiskType /\ fromKit \in Seq(Messages)
UploadTypeOK ==
    /\ upload \in UploadType /\ request \in RequestType
    /\ http \in HttpType /\ overlapped \in BOOLEAN
ActTypeOK == activity \in Activities /\ rename \in SessionOrNone
SessTypeOK ==
    /\ sess \in [Sessions -> SessionStates] /\ lastEditing \in SessionOrNone
    /\ closed \subseteq Sessions /\ readonly \subseteq Sessions /\ expired \subseteq Sessions
ModelTypeOK ==
    /\ edits \in 0..MaxEdits /\ phase \in Phases /\ dataLoss \in BOOLEAN
    /\ store \in Contents /\ uploaded \in Times
OtherTypeOK ==
    /\ loaded \in BOOLEAN /\ disconnected \in {"No", "Normal", "Unexpected"}
    /\ shutdown \in BOOLEAN /\ isModified \in BOOLEAN /\ lostStatus \in BOOLEAN
    /\ changed \in BOOLEAN

TypeOK ==
    /\ StateTypeOK /\ SaveTypeOK /\ KitTypeOK /\ UploadTypeOK
    /\ ActTypeOK /\ SessTypeOK /\ ModelTypeOK /\ OtherTypeOK

(* The broker thinks that every edit is saved and every save is uploaded.  *)
NothingPending ==
    /\ ~modifyAfter /\ ~save.active /\ save.failures = 0 /\ ~changed
    /\ upload.failures = 0 /\ http = NoUpload /\ ~IsStorageOutdated(upload, disk)

AllSavesAnswered == ~lostSave /\ \A i \in DOMAIN fromKit : fromKit[i].type # "saved"

(* When the broker believes that it has nothing to save and nothing to     *)
(* upload (the tests by which pollThread and autoSaveAndStop let it stop,  *)
(* without the Kit's late ModifiedStatus), storage has every edit.  The    *)
(* broker's belief is made of flags, failure counts and two modified times *)
(* that four parties update; it is only trusted when every save request    *)
(* was answered, no upload was requested during another one, and every     *)
(* edit since the last save request came in a message that                 *)
(* tokenIndicatesDocumentModification() knows.  The edits that it does not *)
(* know are those of UntoldIsReported.                                     *)
CleanMeansStored ==
    NothingPending /\ AllSavesAnswered /\ ~overlapped /\ ~untold => store = edits

(* An edit that no token tells of is known to the broker all the same,     *)
(* through the Kit's ModifiedStatus: as long as it is not part of a save   *)
(* request, the document is flagged as modified, or will be by a message   *)
(* on its way.  This holds while the Kit is there, and unless a            *)
(* ModifiedStatus came when the last session had been removed, which only  *)
(* happens to one that the Kit did not disconnect in time.                 *)
UntoldIsReported ==
    untold /\ kit.state = "up" /\ ~lostStatus =>
        \/ isModified
        \/ \E i \in DOMAIN fromKit : fromKit[i].type = "modified" /\ fromKit[i].arg = "true"

(* While the activity is Save, a save is under way: the poll loop leaves   *)
(* that activity only by the response or the timeout of an active request, *)
(* so without one nothing would ever be saved, uploaded or unloaded again. *)
SaveActivityIsSaving == activity = "Save" => save.active

(* Unless an upload was requested during another one, _uploadRequest       *)
(* describes the upload in flight, and the modified time that              *)
(* isStorageOutdated() compares is that of the file in storage.            *)
UploadAccounted ==
    ~overlapped =>
        /\ upload.time = uploaded
        /\ http # NoUpload => request.kind = http.kind /\ request.mtime = http.file.mtime

(* A document marked to destroy is never live again: the states of         *)
(* DocumentState are "phases that are directional", and a late "status:"   *)
(* of a view must not bring it back.                                       *)
StatusNeverRegresses == [][IsMarkedToDestroy => IsMarkedToDestroy']_vars

(* A save ends: by its response, by the loss of the Kit or by the timeout. *)
SaveEnds == activity = "Save" ~> (activity # "Save" \/ phase = "done")

(* From some time on, the clients neither type nor ask to save.  Typing is *)
(* counted as a modification even while unloading, when it is not forwarded*)
(* to the Kit, so that it makes the broker save again.                     *)
ClientsRest == <>[][~\E s \in Sessions : Edit(s) \/ ManualSave(s)]_vars

(* Once the broker is asked to unload or to close, its thread finishes, if *)
(* the clients rest: autoSaveAndStop() saves, uploads, retries or gives    *)
(* up, in some order.                                                      *)
UnloadCompletes == ClientsRest => ((unloadRequested \/ closeRequested) ~> (phase = "done"))

----------------------------------------------------------------------------
(* What comments and assertions of the code say, and the code does not do. *)

(* "Check for data-loss.": a broker that ends without having found any,    *)
(* with its Kit and without discarding a conflict, leaves every edit in    *)
(* storage.                                                                *)
NoSilentLoss ==
    phase = "done" /\ ~dataLoss /\ disconnected # "Unexpected" /\ ~(closeRequested /\ changed)
        => store = edits

(* "Renaming in progress" ends, in success or failure.                     *)
RenameEnds == activity = "Rename" ~> (activity # "Rename" \/ phase = "done")
============================================================================
