--------------------------- MODULE DocBrokerSteps ---------------------------
(***************************************************************************)
(* Lemmas about the operators that the actions of DocBroker are made of,   *)
(* the inductive invariant, the steps that keep it whatever action takes   *)
(* them, and the actions that take those: the commands of the clients, the *)
(* messages of the Kit that start nothing and the faults of the Kit.  The  *)
(* types of DocBroker's variables are kept in groups, as its actions leave *)
(* the variables of whole groups alone.                                    *)
(***************************************************************************)
EXTENDS DocBroker, FiniteSetTheorems, TLAPS

ContextType == [save : SaveType, disk : DiskType, http : HttpType, upload : UploadType,
                activity : Activities]

(* The request rq describes the upload h, and up has the time ud of the    *)
(* file that was uploaded, unless uploads overlapped.                      *)
Accounted(up, h, rq, ov, ud) ==
    ~ov => /\ up.time = ud
           /\ h # NoUpload => rq.kind = h.kind /\ rq.mtime = h.file.mtime

----------------------------------------------------------------------------
(* The operators that the actions are made of.                             *)

(* RequestManager::setLastRequestResult ends the request and keeps the     *)
(* rest of the save manager but the count of failures.                     *)
LEMMA WithResultSave ==
    ASSUME NEW sv \in SaveType, NEW b \in BOOLEAN
    PROVE  /\ WithResult(sv, b) \in SaveType
           /\ WithResult(sv, b).active = FALSE
<1> DEFINE f == IF b THEN 0 ELSE IF sv.failures < LimStoreFailures
                                  THEN sv.failures + 1 ELSE sv.failures
<1>1. sv.failures \in 0..LimStoreFailures
  BY DEF SaveType
<1>2. f \in 0..LimStoreFailures
  BY <1>1, ConstantsAssumption
<1>3. WithResult(sv, b) = [sv EXCEPT !.active = FALSE, !.failures = f]
  BY DEF WithResult, SaveType
<1> HIDE DEF f
<1> QED
  BY <1>2, <1>3, Zenon DEF SaveType

(* The same for the storage manager, whose time is kept.                   *)
LEMMA WithResultUpload ==
    ASSUME NEW up \in UploadType, NEW b \in BOOLEAN
    PROVE  /\ WithResult(up, b) \in UploadType
           /\ WithResult(up, b).time = up.time
<1> DEFINE f == IF b THEN 0 ELSE IF up.failures < LimStoreFailures
                                  THEN up.failures + 1 ELSE up.failures
<1>1. up.failures \in 0..LimStoreFailures
  BY DEF UploadType
<1>2. f \in 0..LimStoreFailures
  BY <1>1, ConstantsAssumption
<1>3. WithResult(up, b) = [up EXCEPT !.active = FALSE, !.failures = f]
  BY DEF WithResult, UploadType
<1> HIDE DEF f
<1> QED
  BY <1>2, <1>3, Zenon DEF UploadType

(* No file and no upload are a file and an upload.                         *)
LEMMA NoUploadType == NoFile \in Files /\ NoUpload \in HttpType
  BY DEF NoFile, NoUpload, Files, HttpType, Kinds, Times, NoTime

(* The context of an upload is made of the managers' states.               *)
LEMMA ContextTyped ==
    ASSUME NEW sv \in SaveType, NEW dk \in DiskType, NEW h \in HttpType,
           NEW up \in UploadType, NEW act \in Activities
    PROVE  /\ Context(sv, dk, h, up, act) \in ContextType
           /\ Context(sv, dk, h, up, act).http = h
           /\ Context(sv, dk, h, up, act).upload = up
           /\ Context(sv, dk, h, up, act).activity = act
  BY DEF Context, ContextType

(* What an attempt to upload leaves, whether it starts or not.             *)
UploadStep(c, ud) ==
    /\ UploadTypeOK'
    /\ activity' \in {c.activity, "None"} /\ rename' \in SessionOrNone
    /\ Accounted(c.upload, c.http, request, overlapped, ud)
          => Accounted(upload', http', request', overlapped', ud)

(* No upload starts: nothing changes but what the context says.            *)
LEMMA NoUploadStartsStep ==
    ASSUME TypeOK, NEW c \in ContextType, NoUploadStarts(c), NEW ud
    PROVE  UploadStep(c, ud)
  BY DEF TypeOK, UploadTypeOK, ActTypeOK, NoUploadStarts, ContextType, UploadStep, SessionOrNone

(* uploadToStorageInternal() with a request that storage accepts, refuses  *)
(* or never sees.                                                          *)
LEMMA UploadInternalStep ==
    ASSUME TypeOK, NEW c \in ContextType, NEW s \in Sessions, NEW kind \in Kinds,
           NEW force \in BOOLEAN, UploadToStorageInternal(s, kind, force, c), NEW ud
    PROVE  UploadStep(c, ud)
<1> DEFINE file == c.disk.uploading
           skip == ~Editable(s) \/ (kind = "file" /\ ~force /\ file.mtime = c.save.time)
           busy == c.http # NoUpload
           missing == kind # "saveas" /\ ~Exists(file)
<1>1. file \in Files
  BY DEF ContextType, DiskType
<1>2. c.http \in HttpType /\ c.upload \in UploadType /\ c.activity \in Activities
  BY DEF ContextType
<1>3. CASE skip
  BY <1>3, NoUploadStartsStep DEF UploadToStorageInternal
<1>4. CASE ~skip
  <2>1. request' = UploadRequest(s, kind, file)
    BY <1>4 DEF UploadToStorageInternal
  <2>2. request' \in RequestType /\ request'.kind = kind /\ request'.mtime = file.mtime
    BY <2>1, <1>1 DEF UploadRequest, RequestType, Files, SessionOrNone
  <2>3. CASE busy \/ missing
    <3>1. UploadError(c) /\ http' = c.http /\ overlapped' = (overlapped \/ busy)
      BY <1>4, <2>3 DEF UploadToStorageInternal, UploadLocalFileToStorageAsync
    <3>2. upload' \in UploadType /\ upload'.time = c.upload.time
      BY <3>1, <1>2, WithResultUpload, ZenonT(30) DEF UploadError
    <3>3. activity' \in {c.activity, "None"} /\ rename' \in SessionOrNone
      BY <3>1 DEF UploadError, TypeOK, ActTypeOK, SessionOrNone
    <3>4. overlapped' \in BOOLEAN
      BY <3>1 DEF TypeOK, UploadTypeOK
    <3>5. Accounted(c.upload, c.http, request, overlapped, ud)
             => Accounted(upload', http', request', overlapped', ud)
      BY <3>1, <3>2, ZenonT(30) DEF Accounted
    <3> QED
      BY <3>1, <3>2, <3>3, <3>4, <3>5, <1>2, <2>2, SMTT(30) DEF UploadStep, UploadTypeOK
  <2>4. CASE ~busy /\ ~missing
    <3>1. /\ http' = [kind |-> kind, file |-> file]
          /\ upload' = [c.upload EXCEPT !.active = TRUE]
          /\ activity' = c.activity
          /\ UNCHANGED <<rename, overlapped>>
      BY <1>4, <2>4 DEF UploadToStorageInternal, UploadLocalFileToStorageAsync
    <3>2. upload' \in UploadType /\ upload'.time = c.upload.time
      BY <3>1, <1>2, Zenon DEF UploadType
    <3>3. http' \in HttpType /\ http'.kind = kind /\ http'.file = file
      BY <3>1, <1>1 DEF HttpType
    <3> QED
      BY <3>1, <3>2, <3>3, <2>2, <1>2, SMTT(30) DEF UploadStep, Accounted, TypeOK, UploadTypeOK, ActTypeOK
  <2> QED
    BY <2>3, <2>4
<1> QED
  BY <1>3, <1>4

(* uploadToStorage().                                                      *)
LEMMA UploadToStorageStep ==
    ASSUME TypeOK, NEW c \in ContextType, NEW s \in Sessions, NEW force \in BOOLEAN,
           NEW elapsed, UploadToStorage(s, force, elapsed, c), NEW ud
    PROVE  UploadStep(c, ud)
<1>1. CASE UploadToStorageInternal(s, "file", force, c)
  BY <1>1, UploadInternalStep DEF Kinds
<1>2. CASE NoUploadStarts(c)
  BY <1>2, NoUploadStartsStep
<1> QED
  BY <1>1, <1>2 DEF UploadToStorage

(* The renaming in storage, or its end for want of the session.            *)
LEMMA RenameInStorageStep ==
    ASSUME TypeOK, NEW c \in ContextType, RenameInStorage(c), NEW ud
    PROVE  UploadStep(c, ud)
<1>1. CASE rename \in Attached
  <2>1. rename \in Sessions /\ UploadToStorageInternal(rename, "rename", FALSE, c)
    BY <1>1, Zenon DEF RenameInStorage, Attached
  <2> QED
    BY <2>1, UploadInternalStep, Zenon DEF Kinds
<1>2. CASE rename \notin Attached
  <2>1. /\ activity' = "None" /\ rename' = NoSession
        /\ http' = c.http /\ upload' = c.upload
        /\ request' = request /\ overlapped' = overlapped
    BY <1>2, Zenon DEF RenameInStorage
  <2>2. request \in RequestType /\ overlapped \in BOOLEAN
    BY DEF TypeOK, UploadTypeOK
  <2>3. c.http \in HttpType /\ c.upload \in UploadType
    BY DEF ContextType
  <2>4. Accounted(c.upload, c.http, request, overlapped, ud)
           => Accounted(upload', http', request', overlapped', ud)
    BY <2>1
  <2> QED
    BY <2>1, <2>2, <2>3, <2>4 DEF UploadStep, UploadTypeOK, SessionOrNone
<1> QED
  BY <1>1, <1>2

(* The Kit answers with messages.                                          *)
LEMMA KitRepliesTyped ==
    ASSUME NEW kind \in {"status", "disconnected"}, NEW views \in Seq(Sessions)
    PROVE  KitReplies(kind, views) \in Seq(Messages)
<1> DEFINE Reply(i) == [type |-> kind, s |-> views[i], arg |-> "none"]
           replies == [i \in DOMAIN views |-> Reply(i)]
<1>1. PICK n \in Nat : views \in [1..n -> Sessions]
  OBVIOUS
<1>2. \A i \in 1..n : Reply(i) \in Messages
  BY <1>1 DEF Messages, SessionOrNone
<1>3. DOMAIN views = 1..n
  BY <1>1
<1>4. replies \in [1..n -> Messages]
  <2> HIDE DEF Reply
  <2> QED
    BY <1>2, <1>3
<1>5. replies \in Seq(Messages)
  <2> HIDE DEF replies
  <2> QED
    BY <1>4
<1>6. KitReplies(kind, views) = IF kit.state = "up" THEN replies ELSE <<>>
  BY DEF KitReplies
<1> HIDE DEF replies
<1> QED
  BY <1>5, <1>6

(* A save by the Kit, of which it may write a file.                        *)
LEMMA KitSaveStep ==
    ASSUME TypeOK, NEW s \in Sessions, NEW d \in BOOLEAN, KitSave(s, d)
    PROVE  KitTypeOK'
<1> DEFINE Saved(result) == [type |-> "saved", s |-> s, arg |-> result]
           Renamed(doc) == [disk EXCEPT !.doc = NoFile,
                                        !.upload = IF Exists(doc) THEN doc ELSE @]
<1>1. kit \in KitType /\ disk \in DiskType /\ fromKit \in Seq(Messages)
  BY DEF TypeOK, KitTypeOK
<1>2. \A doc \in Files : Renamed(doc) \in DiskType
  BY <1>1, NoUploadType, Zenon DEF DiskType
<1>3. /\ Saved("success") \in Messages /\ Saved("unmodified") \in Messages
      /\ Saved("failed") \in Messages /\ ModifiedStatus("false") \in Messages
  BY DEF Messages, ModifiedStatus, SessionOrNone
<1>4. disk.doc \in Files /\ [ver |-> kit.ver, mtime |-> kit.saves + 1] \in Files
  BY <1>1 DEF DiskType, KitType, Files, Times
<1>5. [kit EXCEPT !.modified = FALSE, !.saves = @ + 1] \in KitType
  <2>1. kit.saves + 1 \in Nat
    BY <1>1 DEF KitType
  <2> QED
    BY <2>1, <1>1, Zenon DEF KitType
<1> USE DEF KitTypeOK
<1>6. CASE UNCHANGED kitVars
  BY <1>1, <1>6 DEF kitVars
<1>7. CASE disk' = Renamed(disk.doc) /\ kit' = kit
           /\ \/ fromKit' = Append(fromKit, Saved("unmodified"))
              \/ fromKit' = Append(fromKit, Saved("failed"))
  <2>1. disk' \in DiskType
    BY <1>7, <1>2, <1>4, Zenon
  <2> HIDE DEF Saved, Renamed
  <2> QED
    BY <1>1, <1>3, <1>7, <2>1
<1>8. CASE /\ kit' = [kit EXCEPT !.modified = FALSE, !.saves = @ + 1]
           /\ disk' = Renamed([ver |-> kit.ver, mtime |-> kit.saves + 1])
           /\ \/ fromKit' = fromKit \o <<Saved("success"), ModifiedStatus("false")>>
              \/ fromKit' = fromKit \o <<ModifiedStatus("false"), Saved("success")>>
  <2>1. disk' \in DiskType
    BY <1>8, <1>2, <1>4, ZenonT(30)
  <2>2. kit' \in KitType
    BY <1>8, <1>5
  <2>3. fromKit' \in Seq(Messages)
    <3>1. \A a, b \in Messages : fromKit \o <<a, b>> \in Seq(Messages)
      BY <1>1
    <3> HIDE DEF Saved
    <3> QED
      BY <1>3, <1>8, <3>1, ZenonT(30)
  <2> QED
    BY <2>1, <2>2, <2>3, SMTT(30)
<1> QED
  BY <1>6, <1>7, <1>8, SMTT(60) DEF KitSave

(* The start of a save request, as far as the invariant sees it.           *)
SaveStep ==
    /\ SaveTypeOK' /\ KitTypeOK'
    /\ save'.active /\ activity' \in Activities

(* sendUnoSave() starts a save request.                                    *)
LEMMA SendUnoSaveStep ==
    ASSUME TypeOK, NEW s \in Sessions, NEW d \in BOOLEAN, NEW act \in Activities,
           SendUnoSave(s, d, act)
    PROVE  SaveStep
<1>1. KitTypeOK'
  BY KitSaveStep DEF SendUnoSave
<1>2. save' \in SaveType /\ save'.active
  BY Zenon DEF SendUnoSave, TypeOK, SaveTypeOK, SaveType, Times
<1>3. /\ activity' \in Activities /\ modifyAfter' \in BOOLEAN
      /\ untold' \in BOOLEAN /\ lostSave' \in BOOLEAN
  BY Zenon DEF SendUnoSave, TypeOK, SaveTypeOK, ActTypeOK, Activities
<1> QED
  BY <1>1, <1>2, <1>3 DEF SaveStep, SaveTypeOK

(* The sessions that handlers choose are sessions.                         *)
LEMMA ChosenSessions ==
    /\ Attached \subseteq Sessions
    /\ WriteableSession \subseteq Sessions
    /\ SavingSession \subseteq Sessions
    /\ ClosedSessions \subseteq Sessions
<1>1. Attached \subseteq Sessions
  BY DEF Attached
<1>2. WriteableSession \subseteq Sessions
  BY <1>1 DEF WriteableSession
<1> QED
  BY <1>1, <1>2 DEF SavingSession, ClosedSessions

(* autoSave() sends a save.                                                *)
LEMMA AutoSaveStep ==
    ASSUME TypeOK, AutoSave
    PROVE  SaveStep /\ rename' = rename
<1>1. PICK s \in SavingSession : SendUnoSave(s, TRUE, activity)
  BY Zenon DEF AutoSave
<1>2. activity \in Activities
  BY DEF TypeOK, ActTypeOK, Activities
<1> QED
  BY <1>1, <1>2, ChosenSessions, SendUnoSaveStep, Zenon DEF AutoSave

(* Some sessions in some order, as a sequence.                             *)
LEMMA OrderIsSequence ==
    ASSUME NEW S \in SUBSET Sessions, NEW order \in [1..Cardinality(S) -> S]
    PROVE  order \in Seq(Sessions)
<1>1. IsFiniteSet(S)
  BY ConstantsAssumption, FS_Subset, Zenon
<1>2. Cardinality(S) \in Nat
  BY <1>1, FS_CardinalityType
<1> QED
  BY <1>2, SMTT(30)

(* Sessions wait for the Kit to disconnect them, or go.                    *)
LEMMA DisconnectSessionsStep ==
    ASSUME TypeOK, NEW S \in SUBSET Sessions, NEW q \in Seq(Messages), DisconnectSessions(S, q)
    PROVE  sess' \in [Sessions -> SessionStates] /\ fromKit' \in Seq(Messages)
<1> DEFINE views == {s \in S : sess[s] \in {"loading", "live"}}
<1>1. sess' \in [Sessions -> SessionStates]
  BY DEF DisconnectSessions, TypeOK, SessTypeOK, SessionStates
<1>2. PICK order \in [1..Cardinality(views) -> views] :
         fromKit' = q \o KitReplies("disconnected", order)
  BY Zenon DEF DisconnectSessions
<1>4. order \in Seq(Sessions)
  <2>1. views \in SUBSET Sessions
    OBVIOUS
  <2> HIDE DEF views
  <2> QED
    BY <1>2, <2>1, OrderIsSequence
<1>5. KitReplies("disconnected", order) \in Seq(Messages)
  BY <1>4, KitRepliesTyped
<1> QED
  BY <1>1, <1>2, <1>5, SMTT(30)

(* The message that is handled, and those after it.                        *)
LEMMA ReceivesStep ==
    ASSUME TypeOK, NEW type, Receives(type)
    PROVE  Head(fromKit) \in Messages /\ Tail(fromKit) \in Seq(Messages)
<1>1. fromKit \in Seq(Messages) /\ fromKit # <<>>
  BY DEF TypeOK, KitTypeOK, Receives
<1> QED
  BY <1>1

(* What checkAndUploadToStorage() leaves.                                  *)
CheckStep ==
    /\ UploadTypeOK'
    /\ activity' \in Activities \ {"Save"} /\ rename' \in SessionOrNone
    /\ Accounted(upload', http', request', overlapped', uploaded)
    /\ status' \in Statuses
    /\ sess' \in [Sessions -> SessionStates]
    /\ phase' \in Phases
    /\ fromKit' \in Seq(Messages)

(* checkAndUploadToStorage() ends the Save activity and accounts for the   *)
(* upload that it starts.                                                  *)
LEMMA CheckAndUploadStep ==
    ASSUME TypeOK, UploadAccounted, NEW s \in Sessions, NEW justSaved, NEW elapsed,
           NEW sv \in SaveType, NEW dk \in DiskType, NEW q \in Seq(Messages),
           CheckAndUploadToStorage(s, justSaved, elapsed, sv, dk, q)
    PROVE  CheckStep
<1> DEFINE act == IF activity = "Save" THEN "None" ELSE activity
           c == Context(sv, dk, http, upload, act)
           need == NeedToUpload(sv, dk)
           switching == activity = "SwitchingToOffline" /\ ~need
           renaming == activity = "Rename" /\ ~need
<1>1. act \in Activities \ {"Save"}
  BY DEF TypeOK, ActTypeOK, Activities
<1>2. http \in HttpType /\ upload \in UploadType
  BY DEF TypeOK, UploadTypeOK
<1>3. /\ c \in ContextType
      /\ c.http = http /\ c.upload = upload /\ c.activity = act
  <2> HIDE DEF act
  <2> QED
    BY <1>1, <1>2, ContextTyped, SMTT(30)
<1>4. Accounted(upload, http, request, overlapped, uploaded)
  BY DEF UploadAccounted, Accounted
<1>5. /\ status \in Statuses
      /\ sess \in [Sessions -> SessionStates]
      /\ phase \in Phases
  BY DEF TypeOK, StateTypeOK, SessTypeOK, ModelTypeOK
<1>6. ASSUME NEW d \in ContextType, d.http = http, d.upload = upload,
             d.activity \in Activities \ {"Save"}, UploadStep(d, uploaded),
             status' \in Statuses,
             sess' \in [Sessions -> SessionStates],
             phase' \in Phases,
             fromKit' \in Seq(Messages)
      PROVE  CheckStep
  BY <1>4, <1>6, SMTT(30) DEF UploadStep, CheckStep, Activities
<1> DEFINE Rest == UNCHANGED <<status, sess, phase>> /\ fromKit' = q
           d == [c EXCEPT !.activity = "None"]
<1>7. CASE renaming
  <2>1. RenameInStorage(c) /\ Rest
    BY <1>7, Zenon DEF CheckAndUploadToStorage
  <2> HIDE DEF c, act
  <2>2. UploadStep(c, uploaded)
    BY <1>3, <2>1, RenameInStorageStep, SMTT(30)
  <2> QED
    BY <1>1, <1>3, <1>5, <1>6, <2>1, <2>2, SMTT(30)
<1>8. CASE switching
  <2>1. /\ NoUploadStarts(d) /\ status' = "Destroying" /\ phase' = PhaseAfterSwitch
        /\ fromKit' = q /\ sess' = sess
    BY <1>8, ZenonT(30) DEF CheckAndUploadToStorage
  <2> HIDE DEF c, act
  <2>2. d \in ContextType /\ d.http = http /\ d.upload = upload /\ d.activity = "None"
    BY <1>3 DEF ContextType, Activities
  <2> HIDE DEF d
  <2>3. UploadStep(d, uploaded)
    BY <2>1, <2>2, NoUploadStartsStep, SMTT(30)
  <2>4. phase' \in Phases
    BY <1>5, <2>1, SMTT(30) DEF PhaseAfterSwitch, Phases
  <2> QED
    BY <1>5, <1>6, <2>1, <2>2, <2>3, <2>4, SMTT(30) DEF Activities, Statuses
<1>9. CASE /\ ~renaming /\ ~switching
           /\ NoUploadStarts(c) \/ UploadToStorage(s, FALSE, elapsed, c)
           /\ Rest
  <2> HIDE DEF c, act
  <2>1. UploadStep(c, uploaded)
    BY <1>3, <1>9, NoUploadStartsStep, UploadToStorageStep, ZenonT(30)
  <2> QED
    BY <1>1, <1>3, <1>5, <1>6, <1>9, <2>1, SMTT(30)
<1>10. CASE /\ ~renaming /\ ~switching
            /\ NoUploadStarts(c) /\ phase' = phase
            /\ DisconnectSessions(ClosedSessions, q)
            /\ status' = MarkedToDestroyIf(unloadRequested /\ ClosedSessions # {})
  <2> HIDE DEF c, act
  <2>1. UploadStep(c, uploaded)
    BY <1>3, <1>10, NoUploadStartsStep
  <2>2. sess' \in [Sessions -> SessionStates] /\ fromKit' \in Seq(Messages)
    BY <1>10, ChosenSessions, DisconnectSessionsStep, ZenonT(30)
  <2>3. status' \in Statuses
    BY <1>5, <1>10 DEF MarkedToDestroyIf, Statuses
  <2> QED
    BY <1>1, <1>3, <1>5, <1>6, <1>10, <2>1, <2>2, <2>3, SMTT(30)
<1>11. CASE ~renaming /\ ~switching
  <2>1. \/ NoUploadStarts(c) /\ Rest
        \/ UploadToStorage(s, FALSE, elapsed, c) /\ Rest
        \/ /\ NoUploadStarts(c) /\ phase' = phase
           /\ DisconnectSessions(ClosedSessions, q)
           /\ status' = MarkedToDestroyIf(unloadRequested /\ ClosedSessions # {})
    BY <1>11, ZenonT(30) DEF CheckAndUploadToStorage
  <2> QED
    BY <1>9, <1>10, <1>11, <2>1, ZenonT(30)
<1> QED
  BY <1>7, <1>8, <1>11


----------------------------------------------------------------------------
(* The inductive invariant.                                                *)

IInv == TypeOK /\ SaveActivityIsSaving /\ UploadAccounted

(* Variables that do not change keep their types.                          *)
LEMMA Frame ==
    ASSUME TypeOK
    PROVE  /\ UNCHANGED stateVars => StateTypeOK'
           /\ UNCHANGED saveVars => SaveTypeOK'
           /\ UNCHANGED kitVars => KitTypeOK'
           /\ UNCHANGED uploadVars => UploadTypeOK'
           /\ UNCHANGED actVars => ActTypeOK'
           /\ UNCHANGED sessVars => SessTypeOK'
           /\ UNCHANGED modelVars => ModelTypeOK'
           /\ UNCHANGED otherVars => OtherTypeOK'
<1>1. UNCHANGED stateVars => StateTypeOK'
  BY DEF TypeOK, StateTypeOK, stateVars
<1>2. UNCHANGED saveVars => SaveTypeOK'
  BY DEF TypeOK, SaveTypeOK, saveVars
<1>3. UNCHANGED kitVars => KitTypeOK'
  BY DEF TypeOK, KitTypeOK, kitVars
<1>4. UNCHANGED uploadVars => UploadTypeOK'
  BY DEF TypeOK, UploadTypeOK, uploadVars
<1>5. UNCHANGED actVars => ActTypeOK'
  BY DEF TypeOK, ActTypeOK, actVars
<1>6. UNCHANGED sessVars => SessTypeOK'
  BY DEF TypeOK, SessTypeOK, sessVars
<1>7. UNCHANGED modelVars => ModelTypeOK'
  BY DEF TypeOK, ModelTypeOK, modelVars, storeVars
<1>8. UNCHANGED otherVars => OtherTypeOK'
  BY DEF TypeOK, OtherTypeOK, otherVars
<1> QED
  BY <1>1, <1>2, <1>3, <1>4, <1>5, <1>6, <1>7, <1>8

(* A step that changes neither a save, nor an upload, nor the activity.    *)
LEMMA QuietStep ==
    ASSUME IInv, UNCHANGED <<save, uploadVars, activity, uploaded>>,
           StateTypeOK', SaveTypeOK', KitTypeOK', ActTypeOK', SessTypeOK', ModelTypeOK',
           OtherTypeOK'
    PROVE  IInv'
<1>1. SaveActivityIsSaving'
  BY DEF IInv, SaveActivityIsSaving
<1>2. UploadAccounted'
  BY Zenon DEF IInv, UploadAccounted, uploadVars
<1>3. TypeOK'
  BY Frame, Zenon DEF IInv, TypeOK
<1> QED
  BY <1>1, <1>2, <1>3 DEF IInv

(* A step that leaves saves, uploads and the activity alone altogether.    *)
LEMMA IdleStep ==
    ASSUME IInv, UNCHANGED <<saveVars, uploadVars, actVars, storeVars>>,
           StateTypeOK', KitTypeOK', SessTypeOK', ModelTypeOK', OtherTypeOK'
    PROVE  IInv'
<1>1. SaveTypeOK' /\ ActTypeOK'
  BY Frame DEF IInv
<1>2. UNCHANGED <<save, activity, uploaded>>
  BY DEF saveVars, actVars, storeVars
<1> QED
  BY <1>1, <1>2, QuietStep

(* A step that starts a save and leaves uploads alone.                     *)
LEMMA SavingStep ==
    ASSUME IInv, SaveStep, rename' \in SessionOrNone,
           UNCHANGED <<stateVars, uploadVars, sessVars, modelVars, otherVars>>
    PROVE  IInv'
<1>1. TypeOK'
  <2>1. ActTypeOK'
    BY DEF SaveStep, ActTypeOK
  <2> QED
    BY <2>1, Frame DEF IInv, TypeOK, SaveStep
<1>2. SaveActivityIsSaving'
  BY SMTT(30) DEF SaveStep, SaveActivityIsSaving
<1>3. UploadAccounted'
  BY Zenon DEF IInv, UploadAccounted, uploadVars, modelVars, storeVars
<1> QED
  BY <1>1, <1>2, <1>3, SMTT(30) DEF IInv

(* A step that does nothing but end the activity, or start one that needs  *)
(* no save.                                                                *)
LEMMA ActivityStep ==
    ASSUME IInv, activity' \in Activities \ {"Save"}, rename' \in SessionOrNone,
           UNCHANGED <<stateVars, saveVars, kitVars, uploadVars, sessVars, modelVars, otherVars>>
    PROVE  IInv'
<1>1. TypeOK'
  <2>1. ActTypeOK'
    BY DEF ActTypeOK
  <2> QED
    BY <2>1, Frame DEF IInv, TypeOK
<1>2. SaveActivityIsSaving'
  BY DEF SaveActivityIsSaving
<1>3. UploadAccounted'
  BY Zenon DEF IInv, UploadAccounted, uploadVars, modelVars, storeVars
<1> QED
  BY <1>1, <1>2, <1>3 DEF IInv

(* startRenameFileCommand() starts a save, or ends a renaming whose        *)
(* session is gone.                                                        *)
LEMMA StartRenameStep ==
    ASSUME IInv, NEW s \in SessionOrNone, StartRenameFileCommand(s),
           UNCHANGED <<stateVars, uploadVars, sessVars, modelVars, otherVars>>
    PROVE  IInv'
<1>1. CASE s \in Attached
  <2>1. s \in Sessions
    BY <1>1, ChosenSessions
  <2>2. SendUnoSave(s, TRUE, "Rename") /\ rename' = s
    BY <1>1, Zenon DEF StartRenameFileCommand
  <2>3. SaveStep
    BY <2>1, <2>2, SendUnoSaveStep, ZenonT(30) DEF Activities, IInv
  <2> QED
    BY <2>2, <2>3, SavingStep
<1>2. CASE s \notin Attached
  <2>1. rename' = NoSession /\ activity' = "None" /\ UNCHANGED <<saveVars, kitVars>>
    BY <1>2, ZenonT(30) DEF StartRenameFileCommand
  <2>2. rename' \in SessionOrNone /\ activity' \in Activities \ {"Save"}
    BY <2>1 DEF SessionOrNone, Activities
  <2> QED
    BY <2>1, <2>2, ActivityStep
<1> QED
  BY <1>1, <1>2

----------------------------------------------------------------------------
(* Steps that leave saves, uploads and the activity alone.                 *)
LEMMA QuietActions ==
    ASSUME IInv,
           \/ \E s \in Sessions : \/ CreateNewClientSession(s) \/ CloseDocument(s)
                                  \/ RefreshForAll(s) \/ ResetAccessToken(s)
                                  \/ RemoveStaleSession(s)
           \/ RequestShutdown \/ HandleDisconnected \/ HandleModifiedStatus
           \/ DisconnectedFromKit \/ LoadTimeout \/ ExitLoop \/ TerminateChild
           \/ HandleStatus \/ \E state \in {"dead", "hung"} : KitFails(state)
    PROVE  IInv'
<1>0. TypeOK
  BY DEF IInv
<1>a. UNCHANGED modelVars => UNCHANGED storeVars
  BY DEF modelVars
<1>1. ASSUME NEW s \in Sessions, CreateNewClientSession(s)
     PROVE  IInv'
  <2>1. UNCHANGED <<stateVars, saveVars, kitVars, uploadVars, actVars, modelVars, otherVars>>
    BY <1>1 DEF CreateNewClientSession
  <2>2. SessTypeOK'
    BY <1>0, <1>1 DEF TypeOK, SessTypeOK, CreateNewClientSession, SessionStates
  <2> QED
    BY <1>0, <1>a, <2>1, <2>2, IdleStep, Frame, SMTT(30)
<1>2. ASSUME NEW s \in Sessions, CloseDocument(s)
     PROVE  IInv'
  <2>1. UNCHANGED <<saveVars, kitVars, uploadVars, actVars, sessVars, modelVars, otherVars>>
    BY <1>2 DEF CloseDocument
  <2>2. StateTypeOK'
    BY <1>0, <1>2 DEF TypeOK, StateTypeOK, CloseDocument
  <2> QED
    BY <1>0, <1>a, <2>1, <2>2, IdleStep, Frame, SMTT(30)
<1>3. ASSUME NEW s \in Sessions, RefreshForAll(s)
     PROVE  IInv'
  <2>1. UNCHANGED <<saveVars, kitVars, uploadVars, actVars, sessVars, modelVars, otherVars>>
    BY <1>3 DEF RefreshForAll
  <2>2. StateTypeOK'
    BY <1>0, <1>3 DEF TypeOK, StateTypeOK, RefreshForAll
  <2> QED
    BY <1>0, <1>a, <2>1, <2>2, IdleStep, Frame, SMTT(30)
<1>4. ASSUME NEW s \in Sessions, ResetAccessToken(s)
     PROVE  IInv'
  <2>1. UNCHANGED <<stateVars, saveVars, kitVars, uploadVars, actVars, modelVars, otherVars>>
    BY <1>4 DEF ResetAccessToken
  <2>2. SessTypeOK'
    BY <1>0, <1>4 DEF TypeOK, SessTypeOK, ResetAccessToken
  <2> QED
    BY <1>0, <1>a, <2>1, <2>2, IdleStep, Frame, SMTT(30)
<1>5. ASSUME NEW s \in Sessions, RemoveStaleSession(s)
     PROVE  IInv'
  <2>1. UNCHANGED <<stateVars, saveVars, kitVars, uploadVars, actVars, modelVars, otherVars>>
    BY <1>5 DEF RemoveStaleSession
  <2>2. SessTypeOK'
    BY <1>0, <1>5 DEF TypeOK, SessTypeOK, RemoveStaleSession, SessionStates
  <2> QED
    BY <1>0, <1>a, <2>1, <2>2, IdleStep, Frame, SMTT(30)
<1>6. CASE RequestShutdown
  <2>1. UNCHANGED <<stateVars, saveVars, kitVars, uploadVars, actVars, sessVars, modelVars>>
    BY <1>6 DEF RequestShutdown
  <2>2. OtherTypeOK'
    BY <1>0, <1>6 DEF TypeOK, OtherTypeOK, RequestShutdown
  <2> QED
    BY <1>0, <1>a, <2>1, <2>2, IdleStep, Frame, SMTT(30)
<1>7. CASE HandleDisconnected
  <2>1. UNCHANGED <<stateVars, saveVars, uploadVars, actVars, modelVars, otherVars>>
    BY <1>7 DEF HandleDisconnected
  <2>2. SessTypeOK'
    BY <1>0, <1>7, ZenonT(30) DEF TypeOK, SessTypeOK, HandleDisconnected, SessionStates
  <2>3. KitTypeOK'
    <3>1. Receives("disconnected") /\ fromKit' = Tail(fromKit) /\ UNCHANGED <<kit, disk>>
      BY <1>7, ZenonT(30) DEF HandleDisconnected
    <3>2. Tail(fromKit) \in Seq(Messages)
      BY <1>0, <3>1, ReceivesStep
    <3> QED
      BY <1>0, <3>1, <3>2 DEF TypeOK, KitTypeOK
  <2> QED
    BY <1>0, <1>a, <2>1, <2>2, <2>3, IdleStep, Frame, SMTT(30)
<1>8. CASE HandleModifiedStatus
  <2>1. UNCHANGED <<stateVars, saveVars, uploadVars, actVars, sessVars, modelVars>>
    BY <1>8 DEF HandleModifiedStatus
  <2>2. OtherTypeOK'
    BY <1>0, <1>8, Zenon DEF TypeOK, OtherTypeOK, HandleModifiedStatus
  <2>3. KitTypeOK'
    <3>1. Receives("modified") /\ fromKit' = Tail(fromKit) /\ UNCHANGED <<kit, disk>>
      BY <1>8, ZenonT(30) DEF HandleModifiedStatus
    <3>2. Tail(fromKit) \in Seq(Messages)
      BY <1>0, <3>1, ReceivesStep
    <3> QED
      BY <1>0, <3>1, <3>2 DEF TypeOK, KitTypeOK
  <2> QED
    BY <1>0, <1>a, <2>1, <2>2, <2>3, IdleStep, Frame, SMTT(30)
<1>9. CASE DisconnectedFromKit
  <2>1. UNCHANGED <<saveVars, kitVars, uploadVars, actVars, sessVars, modelVars>>
    BY <1>9 DEF DisconnectedFromKit
  <2>2. StateTypeOK'
    BY <1>0, <1>9 DEF TypeOK, StateTypeOK, DisconnectedFromKit
  <2>3. OtherTypeOK'
    BY <1>0, <1>9 DEF TypeOK, OtherTypeOK, DisconnectedFromKit
  <2> QED
    BY <1>0, <1>a, <2>1, <2>2, <2>3, IdleStep, Frame, SMTT(30)
<1>10. CASE LoadTimeout
  <2>1. UNCHANGED <<saveVars, uploadVars, actVars, sessVars, modelVars, otherVars>>
    BY <1>10 DEF LoadTimeout
  <2>2. StateTypeOK'
    BY <1>0, <1>10 DEF TypeOK, StateTypeOK, LoadTimeout
  <2>3. KitTypeOK'
    BY <1>0, <1>10 DEF TypeOK, KitTypeOK, LoadTimeout, KitType
  <2> QED
    BY <1>0, <1>a, <2>1, <2>2, <2>3, IdleStep, Frame, SMTT(30)
<1>11. CASE ExitLoop
  <2>1. UNCHANGED <<stateVars, saveVars, uploadVars, actVars, sessVars, otherVars, storeVars>>
    BY <1>11 DEF ExitLoop
  <2>2. KitTypeOK'
    BY <1>0, <1>11 DEF TypeOK, KitTypeOK, ExitLoop, KitType
  <2>3. ModelTypeOK'
    BY <1>0, <1>11 DEF TypeOK, ModelTypeOK, ExitLoop, Phases, storeVars
  <2> QED
    BY <1>0, <1>a, <2>1, <2>2, <2>3, IdleStep, Frame, SMTT(30)
<1>12. CASE TerminateChild
  <2>1. UNCHANGED <<stateVars, saveVars, uploadVars, actVars, otherVars, storeVars>>
    BY <1>12 DEF TerminateChild
  <2>2. KitTypeOK'
    BY <1>0, <1>12 DEF TypeOK, KitTypeOK, TerminateChild, KitType
  <2>3. SessTypeOK'
    BY <1>0, <1>12 DEF TypeOK, SessTypeOK, TerminateChild, SessionStates
  <2>4. ModelTypeOK'
    BY <1>0, <1>12 DEF TypeOK, ModelTypeOK, TerminateChild, Phases, storeVars
  <2> QED
    BY <1>0, <1>a, <2>1, <2>2, <2>3, <2>4, IdleStep, Frame, SMTT(30)
<1>13. CASE HandleStatus
  <2>1. UNCHANGED <<saveVars, uploadVars, actVars, modelVars>>
    BY <1>13 DEF HandleStatus
  <2>2. StateTypeOK'
    BY <1>0, <1>13, ZenonT(30) DEF TypeOK, StateTypeOK, HandleStatus, SetLoaded, Statuses
  <2>3. KitTypeOK'
    <3>1. Receives("status") /\ fromKit' = Tail(fromKit) /\ UNCHANGED <<kit, disk>>
      BY <1>13, ZenonT(30) DEF HandleStatus
    <3>2. Tail(fromKit) \in Seq(Messages)
      BY <1>0, <3>1, ReceivesStep
    <3> QED
      BY <1>0, <3>1, <3>2 DEF TypeOK, KitTypeOK
  <2>4. SessTypeOK'
    BY <1>0, <1>13, ZenonT(30) DEF TypeOK, SessTypeOK, HandleStatus, SessionStates
  <2>5. OtherTypeOK'
    BY <1>0, <1>13, ZenonT(30) DEF TypeOK, OtherTypeOK, HandleStatus
  <2> QED
    BY <1>0, <1>a, <2>1, <2>2, <2>3, <2>4, <2>5, IdleStep, Frame, SMTT(30)
<1>14. ASSUME NEW state \in {"dead", "hung"}, KitFails(state)
     PROVE  IInv'
  <2>1. UNCHANGED <<stateVars, saveVars, uploadVars, actVars, sessVars, modelVars, otherVars>>
    BY <1>14 DEF KitFails
  <2>2. KitTypeOK'
    BY <1>0, <1>14 DEF TypeOK, KitTypeOK, KitFails, KitType
  <2> QED
    BY <1>0, <1>a, <2>1, <2>2, IdleStep, Frame, SMTT(30)
<1> QED
  BY <1>1, <1>2, <1>3, <1>4, <1>5, <1>6, <1>7, <1>8, <1>9, <1>10, <1>11, <1>12, <1>13, <1>14

(* A client edits: the Kit's document and the broker's flag change.        *)
LEMMA EditIInv ==
    ASSUME IInv, NEW s \in Sessions, Edit(s)
    PROVE  IInv'
<1>0. TypeOK
  BY DEF IInv
<1>1. UNCHANGED <<stateVars, save, uploadVars, actVars, otherVars, storeVars>>
  BY DEF Edit
<1>2. KitTypeOK'
  <2>1. kit \in KitType /\ disk \in DiskType /\ fromKit \in Seq(Messages)
    BY <1>0 DEF TypeOK, KitTypeOK
  <2>2. /\ [kit EXCEPT !.ver = @ + 1, !.modified = TRUE] \in KitType
        /\ ModifiedStatus("true") \in Messages
    <3>1. kit.ver + 1 \in Nat
      BY <2>1 DEF KitType
    <3>2. ModifiedStatus("true") \in Messages
      BY DEF ModifiedStatus, Messages, SessionOrNone
    <3> QED
      BY <2>1, <3>1, <3>2, Zenon DEF KitType
  <2>3. /\ kit' = kit \/ kit' = [kit EXCEPT !.ver = @ + 1, !.modified = TRUE]
        /\ fromKit' = fromKit \/ fromKit' = Append(fromKit, ModifiedStatus("true"))
        /\ disk' = disk
    BY DEF Edit, KitEdit, kitVars
  <2> QED
    BY <2>1, <2>2, <2>3, SMTT(30) DEF KitTypeOK
<1>3. SaveTypeOK'
  BY <1>0 DEF TypeOK, SaveTypeOK, Edit
<1>4. SessTypeOK'
  BY <1>0 DEF TypeOK, SessTypeOK, Edit, SessionOrNone
<1>5. ModelTypeOK'
  BY <1>0, ConstantsAssumption DEF TypeOK, ModelTypeOK, Edit, storeVars
<1>6. UNCHANGED <<activity, uploaded>>
  BY <1>1 DEF actVars, storeVars
<1> QED
  BY <1>0, <1>1, <1>2, <1>3, <1>4, <1>5, <1>6, QuietStep, Frame

(* The commands that save: "save", "renamefile", "switch_request".         *)
LEMMA SavingActions ==
    ASSUME IInv, NEW s \in Sessions,
           ManualSave(s) \/ HandleRenameFileCommand(s) \/ SwitchMode(s)
    PROVE  IInv'
<1>0. TypeOK /\ activity \in Activities /\ rename \in SessionOrNone
  BY DEF IInv, TypeOK, ActTypeOK
<1>1. CASE ManualSave(s)
  <2>1. PICK d \in BOOLEAN : SendUnoSave(s, d, activity)
    BY <1>1 DEF ManualSave
  <2>2. SaveStep
    BY <1>0, <2>1, SendUnoSaveStep
  <2> QED
    BY <1>0, <1>1, <2>2, SavingStep DEF ManualSave
<1>2. CASE HandleRenameFileCommand(s)
  <2>1. UNCHANGED <<stateVars, uploadVars, sessVars, modelVars, otherVars>>
    BY <1>2 DEF HandleRenameFileCommand
  <2>2. CASE StartRenameFileCommand(s)
    BY <2>1, <2>2, StartRenameStep DEF SessionOrNone
  <2>3. CASE rename' = s /\ UNCHANGED <<activity, saveVars, kitVars>>
    <3>1. ActTypeOK'
      BY <1>0, <2>3 DEF ActTypeOK, SessionOrNone
    <3>2. UNCHANGED <<save, activity, uploaded>>
      BY <2>1, <2>3 DEF saveVars, modelVars, storeVars
    <3> QED
      BY <1>0, <2>1, <2>3, <3>1, <3>2, QuietStep, Frame
  <2> QED
    BY <1>2, <2>2, <2>3, Zenon DEF HandleRenameFileCommand
<1>3. CASE SwitchMode(s)
  <2>1. UNCHANGED <<stateVars, uploadVars, rename, sessVars, modelVars, otherVars>>
    BY <1>3 DEF SwitchMode
  <2>2. CASE SendUnoSave(s, TRUE, "SwitchingToOffline")
    <3>1. SaveStep
      BY <1>0, <2>2, SendUnoSaveStep, ZenonT(30) DEF Activities
    <3> QED
      BY <1>0, <2>1, <3>1, SavingStep
  <2>3. CASE activity' = "SwitchingToOnline" /\ UNCHANGED <<saveVars, kitVars>>
    BY <1>0, <2>1, <2>3, ActivityStep DEF Activities
  <2> QED
    BY <1>3, <2>2, <2>3, ZenonT(30) DEF SwitchMode
<1> QED
  BY <1>1, <1>2, <1>3

(* A session is added: the first one downloads the document, whose time is *)
(* then the time of the file last uploaded.                                *)
LEMMA AddSessionIInv ==
    ASSUME IInv, NEW s \in Sessions, AddSession(s)
    PROVE  IInv'
<1>0. TypeOK /\ SaveActivityIsSaving /\ UploadAccounted
  BY DEF IInv
<1>1. save' \in SaveType /\ save'.active = save.active /\ activity' = activity
  <2>1. save \in SaveType /\ (save' = save \/ save' = [save EXCEPT !.time = 0])
    BY <1>0 DEF AddSession, TypeOK, SaveTypeOK
  <2> QED
    BY <2>1, SMTT(30) DEF AddSession, actVars, SaveType, Times
<1>2. /\ upload' \in UploadType /\ uploaded' \in Times
      /\ upload'.time = uploaded' \/ UNCHANGED <<upload, uploaded>>
  <2>1. /\ upload \in UploadType /\ uploaded \in Times
        /\ \/ upload' = upload /\ uploaded' = uploaded
           \/ upload' = [upload EXCEPT !.time = 0] /\ uploaded' = 0
    BY <1>0 DEF AddSession, storeVars, TypeOK, UploadTypeOK, ModelTypeOK
  <2> QED
    BY <2>1, SMTT(30) DEF UploadType, Times
<1>3. disk' \in DiskType
  <2>1. disk \in DiskType /\ (disk' = disk \/ disk' = [disk EXCEPT !.doc = [ver |-> 0, mtime |-> 0]])
    BY <1>0, Zenon DEF AddSession, TypeOK, KitTypeOK
  <2>2. [ver |-> 0, mtime |-> 0] \in Files
    BY DEF Files, Times
  <2> QED
    BY <2>1, <2>2, SMTT(30) DEF DiskType
<1>4. fromKit' \in Seq(Messages)
  <2>1. fromKit \in Seq(Messages) /\ <<s>> \in Seq(Sessions)
    BY <1>0 DEF TypeOK, KitTypeOK
  <2>2. fromKit' = fromKit \/ fromKit' = fromKit \o KitReplies("status", <<s>>)
    BY Zenon DEF AddSession
  <2>3. KitReplies("status", <<s>>) \in Seq(Messages)
    BY <2>1, KitRepliesTyped, ZenonT(30)
  <2>4. fromKit \o KitReplies("status", <<s>>) \in Seq(Messages)
    BY <2>1, <2>3
  <2> QED
    BY <2>1, <2>2, <2>4, ZenonT(30)
<1>5. StateTypeOK' /\ SessTypeOK'
  <2>1. StateTypeOK'
    BY <1>0 DEF AddSession, TypeOK, StateTypeOK, MarkedToDestroyIf, Statuses
  <2>2. SessTypeOK'
    BY <1>0 DEF AddSession, TypeOK, SessTypeOK, SessionStates
  <2> QED
    BY <2>1, <2>2
<1>6. ModelTypeOK' /\ OtherTypeOK'
  <2>1. ModelTypeOK'
    BY <1>0, <1>2, Zenon DEF AddSession, TypeOK, ModelTypeOK, Contents, storeVars
  <2>2. OtherTypeOK'
    BY <1>0, Zenon DEF AddSession, TypeOK, OtherTypeOK
  <2> QED
    BY <2>1, <2>2
<1>7. SaveTypeOK' /\ KitTypeOK' /\ UploadTypeOK'
  <2>1. SaveTypeOK'
    BY <1>0, <1>1 DEF AddSession, TypeOK, SaveTypeOK
  <2>2. KitTypeOK'
    BY <1>0, <1>3, <1>4 DEF AddSession, TypeOK, KitTypeOK
  <2>3. UploadTypeOK'
    BY <1>0, <1>2 DEF AddSession, TypeOK, UploadTypeOK
  <2> QED
    BY <2>1, <2>2, <2>3
<1>8. ActTypeOK'
  BY <1>0, Frame DEF AddSession
<1>9. SaveActivityIsSaving'
  BY <1>0, <1>1, ZenonT(30) DEF SaveActivityIsSaving
<1>10. UploadAccounted'
  BY <1>0, <1>2, SMTT(30) DEF UploadAccounted, AddSession
<1> QED
  BY <1>5, <1>6, <1>7, <1>8, <1>9, <1>10 DEF IInv, TypeOK

(* A client's own upload, or Save-As.                                      *)
LEMMA ClientUploadIInv ==
    ASSUME IInv, NEW s \in Sessions, NEW kind \in {"file", "saveas"}, ClientUpload(s, kind)
    PROVE  IInv'
<1> DEFINE c == Context(save, disk, http, upload, activity)
<1>0. TypeOK /\ SaveActivityIsSaving /\ UploadAccounted
  BY SMTT(30) DEF IInv
<1>1. /\ c \in ContextType
      /\ c.http = http /\ c.upload = upload /\ c.activity = activity
  <2>1. /\ save \in SaveType /\ disk \in DiskType /\ http \in HttpType
        /\ upload \in UploadType /\ activity \in Activities
    BY <1>0 DEF TypeOK, SaveTypeOK, KitTypeOK, UploadTypeOK, ActTypeOK
  <2> QED
    BY <2>1, ContextTyped, SMTT(30)
<1>2. UploadStep(c, uploaded)
  <2>1. \/ UploadToStorage(s, TRUE, FALSE, c)
        \/ UploadToStorageInternal(s, "saveas", FALSE, c)
    BY ZenonT(30) DEF ClientUpload
  <2> HIDE DEF c
  <2> QED
    BY <1>0, <1>1, <2>1, UploadToStorageStep, UploadInternalStep, ZenonT(30) DEF Kinds
<1> HIDE DEF c
<1>3. Accounted(upload, http, request, overlapped, uploaded)
  BY <1>0, ZenonT(30) DEF UploadAccounted, Accounted
<1>4. UNCHANGED <<save, uploaded>> /\ activity' \in {activity, "None"}
  BY <1>1, <1>2, Zenon DEF ClientUpload, UploadStep, saveVars, modelVars, storeVars
<1>5. UploadAccounted'
  BY <1>1, <1>2, <1>3, <1>4, ZenonT(30) DEF UploadStep, UploadAccounted, Accounted
<1>6. SaveActivityIsSaving'
  BY <1>0, <1>4, SMTT(30) DEF SaveActivityIsSaving
<1>7. TypeOK'
  <2>1. UNCHANGED <<stateVars, saveVars, kitVars, sessVars, modelVars, otherVars>>
    BY Zenon DEF ClientUpload
  <2>2. UploadTypeOK' /\ ActTypeOK'
    BY <1>0, <1>2, <1>4 DEF TypeOK, ActTypeOK, Activities, UploadStep
  <2> QED
    BY <1>0, <2>1, <2>2, Frame DEF TypeOK
<1> QED
  BY <1>5, <1>6, <1>7, SMTT(30) DEF IInv

(* A session leaves.                                                       *)
LEMMA OnDisconnectIInv ==
    ASSUME IInv, NEW s \in Sessions, OnDisconnect(s)
    PROVE  IInv'
<1> DEFINE last == LastEditableSession(s)
           force == AlwaysSaveOnExit \/ IsPossiblyModified
           saves == last /\ ~save.active /\ AutoSaveSends(force)
<1>0. TypeOK /\ SaveActivityIsSaving /\ UploadAccounted
  BY DEF IInv
<1>1. StateTypeOK'
  BY <1>0, Zenon DEF OnDisconnect, TypeOK, StateTypeOK, MarkedToDestroyIf, Statuses
<1>2. /\ UNCHANGED <<uploadVars, modelVars, otherVars, readonly, expired, lastEditing>>
      /\ closed' \subseteq Sessions
  BY <1>0, Zenon DEF OnDisconnect, TypeOK, SessTypeOK
<1>3. CASE saves
  <2>1. AutoSave /\ sess' = sess
    BY <1>3, SMTT(30) DEF OnDisconnect
  <2> HIDE DEF saves
  <2>2. SaveStep /\ rename' = rename
    BY <1>0, <2>1, AutoSaveStep
  <2>3. SessTypeOK' /\ ActTypeOK'
    BY <1>0, <1>2, <2>1, <2>2 DEF TypeOK, SessTypeOK, ActTypeOK, SaveStep
  <2>4. TypeOK'
    BY <1>0, <1>1, <1>2, <2>2, <2>3, Frame, Zenon DEF TypeOK, SaveStep
  <2>5. UploadAccounted'
    BY <1>0, <1>2, Zenon DEF UploadAccounted, uploadVars, modelVars, storeVars
  <2> QED
    BY <2>2, <2>4, <2>5 DEF IInv, SaveStep, SaveActivityIsSaving
<1>4. CASE ~saves
  <2>1. /\ UNCHANGED <<saveVars, actVars, disk>>
        /\ kit' = kit \/ kit' = [kit EXCEPT !.state = "dead"]
        /\ UNCHANGED <<sess, fromKit>> \/ DisconnectSessions({s}, fromKit)
    BY <1>4, SMTT(30) DEF OnDisconnect
  <2> HIDE DEF saves
  <2>2. sess \in [Sessions -> SessionStates] /\ fromKit \in Seq(Messages)
    BY <1>0 DEF TypeOK, SessTypeOK, KitTypeOK
  <2>3. sess' \in [Sessions -> SessionStates] /\ fromKit' \in Seq(Messages)
    BY <1>0, <2>1, <2>2, DisconnectSessionsStep, ZenonT(30)
  <2>4. KitTypeOK'
    BY <1>0, <2>1, <2>3, SMTT(60) DEF TypeOK, KitTypeOK, KitType
  <2>5. SessTypeOK'
    BY <1>0, <1>2, <2>3, Zenon DEF TypeOK, SessTypeOK
  <2>6. UNCHANGED storeVars
    BY <1>2 DEF modelVars
  <2> QED
    BY <1>0, <1>1, <1>2, <2>1, <2>4, <2>5, <2>6, IdleStep, Frame
<1> QED
  BY <1>3, <1>4
============================================================================
