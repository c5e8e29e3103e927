-------------------------- MODULE DocBrokerProofs --------------------------
(***************************************************************************)
(* What is proved of DocBroker, for any sessions, commands, faults and     *)
(* limits: the types of its variables; that a save is under way during the *)
(* Save activity; that, as long as no upload is requested during another   *)
(* one, the broker's record of what it uploaded is true; and that a        *)
(* document marked to destroy is never live again.                         *)
(***************************************************************************)
EXTENDS DocBrokerSteps

(* checkAndUploadToStorage() with what it leaves alone.                    *)
LEMMA CheckingStep ==
    ASSUME IInv, CheckStep, save' \in SaveType, disk' \in DiskType, lostSave' \in BOOLEAN,
           UNCHANGED <<closeRequested, unloadRequested, stop, modifyAfter, untold, kit, closed,
                       readonly, expired, lastEditing, edits, dataLoss, storeVars, otherVars>>
    PROVE  IInv'
<1>0. TypeOK
  BY DEF IInv
<1>1. StateTypeOK'
  BY <1>0 DEF TypeOK, StateTypeOK, CheckStep
<1>2. SaveTypeOK'
  BY <1>0 DEF TypeOK, SaveTypeOK
<1>3. KitTypeOK'
  BY <1>0 DEF TypeOK, KitTypeOK, CheckStep
<1>4. ActTypeOK'
  BY DEF ActTypeOK, CheckStep
<1>5. SessTypeOK'
  BY <1>0 DEF TypeOK, SessTypeOK, CheckStep
<1>6. ModelTypeOK'
  BY <1>0 DEF TypeOK, ModelTypeOK, CheckStep, storeVars
<1>7. SaveActivityIsSaving'
  BY DEF CheckStep, SaveActivityIsSaving
<1>8. UploadAccounted'
  BY ZenonT(30) DEF CheckStep, UploadAccounted, Accounted, storeVars
<1>9. UploadTypeOK' /\ OtherTypeOK'
  BY <1>0, Frame DEF CheckStep
<1> QED
  BY <1>1, <1>2, <1>3, <1>4, <1>5, <1>6, <1>7, <1>8, <1>9 DEF IInv, TypeOK

(* The response to a save.                                                 *)
LEMMA HandleSaveResponseIInv ==
    ASSUME IInv, NEW elapsed \in BOOLEAN, HandleSaveResponse(elapsed)
    PROVE  IInv'
<1> DEFINE m == Head(fromKit)
           ok == m.arg # "failed"
           sv == [WithResult(save, ok) EXCEPT !.saved = @ \/ m.arg = "success"]
           dk == IF Exists(disk.upload)
                 THEN [disk EXCEPT !.uploading = disk.upload, !.upload = NoFile]
                 ELSE disk
<1>0. TypeOK /\ UploadAccounted
  BY DEF IInv
<1>1. m \in Messages /\ Tail(fromKit) \in Seq(Messages)
  BY <1>0, ReceivesStep DEF HandleSaveResponse
<1>2. sv \in SaveType
  <2>1. save \in SaveType
    BY <1>0 DEF TypeOK, SaveTypeOK
  <2>2. WithResult(save, ok) \in SaveType
    BY <2>1, WithResultSave, ZenonT(30)
  <2> QED
    BY <2>2, ZenonT(30) DEF SaveType
<1>3. dk \in DiskType
  BY <1>0, NoUploadType, ZenonT(30) DEF TypeOK, KitTypeOK, DiskType
<1>4. UNCHANGED <<closeRequested, unloadRequested, stop, modifyAfter, untold, kit, closed,
                  readonly, expired, lastEditing, edits, dataLoss, storeVars, otherVars>>
  BY SMTT(30) DEF HandleSaveResponse
<1>5. CASE m.s \in Attached
  <2>1. /\ save' = sv /\ disk' = dk /\ lostSave' = lostSave
        /\ CheckAndUploadToStorage(m.s, ok, elapsed, sv, dk, Tail(fromKit))
    BY <1>5, SMTT(30) DEF HandleSaveResponse
  <2> HIDE DEF sv, dk
  <2>2. m.s \in Sessions
    BY <1>5, ChosenSessions, SMTT(30)
  <2>3. CheckStep
    BY <1>0, <1>1, <1>2, <1>3, <2>1, <2>2, CheckAndUploadStep, ZenonT(30)
  <2>4. lostSave' \in BOOLEAN
    BY <1>0, <2>1, SMTT(30) DEF TypeOK, SaveTypeOK
  <2> QED
    BY <1>2, <1>3, <1>4, <2>1, <2>3, <2>4, CheckingStep, SMTT(30)
<1>6. CASE m.s \notin Attached
  <2> HIDE DEF sv, dk
  <2>1. /\ fromKit' = Tail(fromKit) /\ lostSave' = TRUE
        /\ UNCHANGED <<save, disk, uploadVars, actVars, status, sess, phase>>
    BY <1>6, SMTT(30) DEF HandleSaveResponse, sv, dk
  <2>2. SaveTypeOK' /\ KitTypeOK'
    <3>1. SaveTypeOK'
      BY <1>0, <1>4, <2>1 DEF TypeOK, SaveTypeOK
    <3>2. KitTypeOK'
      BY <1>0, <1>1, <1>4, <2>1 DEF TypeOK, KitTypeOK
    <3> QED
      BY <3>1, <3>2
  <2> HIDE DEF m, ok
  <2>3. UNCHANGED <<stateVars, sessVars, modelVars>>
    BY <1>4, <2>1 DEF stateVars, sessVars, modelVars, storeVars
  <2>4. UNCHANGED <<activity, uploaded>>
    BY <1>4, <2>1 DEF actVars, storeVars
  <2> QED
    BY <1>0, <1>4, <2>1, <2>2, <2>3, <2>4, QuietStep, Frame
<1> HIDE DEF m, ok, sv, dk
<1> QED
  BY <1>5, <1>6

(* Storage holds a version of the document, or something else.             *)
LEMMA StoreTyped ==
    ASSUME TypeOK, NEW result
    PROVE  StoreAfter(result) \subseteq Contents
<1>1. store \in Contents /\ http.file.ver \in Nat
  BY DEF TypeOK, ModelTypeOK, UploadTypeOK, HttpType, Files
<1> QED
  BY <1>1, SMTT(30) DEF StoreAfter, Contents

(* Storage answers that the upload succeeded.  What the request says is    *)
(* true of the upload, unless uploads overlapped, so that the time of the  *)
(* request becomes the time of the file in storage.                        *)
LEMMA UploadSucceededIInv ==
    ASSUME IInv, HandleUploadToStorageResponse("OK")
    PROVE  IInv'
<1> DEFINE plain == IsPlainUpload
           sv == IF plain THEN [save EXCEPT !.time = request.mtime] ELSE save
           ok == WithResult(upload, TRUE)
           up == IF plain THEN [ok EXCEPT !.time = request.mtime] ELSE ok
           switching == plain /\ activity = "SwitchingToOffline"
           renamed == request.kind = "rename"
           act == IF switching \/ renamed THEN "None" ELSE activity
           c == Context(sv, disk, NoUpload, up, act)
<1>0. TypeOK /\ SaveActivityIsSaving /\ UploadAccounted
  BY DEF IInv
<1>1. http # NoUpload /\ UploadSucceeded
  BY SMTT(30) DEF HandleUploadToStorageResponse
<1>2. request.mtime \in Times /\ http.file \in Files /\ upload \in UploadType
      /\ save \in SaveType /\ disk \in DiskType /\ activity \in Activities
  BY <1>0 DEF TypeOK, UploadTypeOK, SaveTypeOK, KitTypeOK, ActTypeOK, RequestType, HttpType
<1>3. sv \in SaveType /\ sv.active = save.active
  BY <1>2 DEF SaveType
<1>4. ok \in UploadType /\ ok.time = upload.time
  BY <1>2, WithResultUpload, ZenonT(30)
<1>5. up \in UploadType /\ up.time = IF plain THEN request.mtime ELSE upload.time
  <2> HIDE DEF ok
  <2> QED
    BY <1>2, <1>4, SMTT(30) DEF UploadType
<1>6. act \in Activities /\ act \in {activity, "None"}
  BY <1>2, SMTT(30) DEF Activities
<1>7. /\ c \in ContextType
      /\ c.http = NoUpload /\ c.upload = up /\ c.activity = act
  <2> HIDE DEF sv, up, act
  <2>1. sv \in SaveType /\ disk \in DiskType /\ NoUpload \in HttpType /\ up \in UploadType
    BY <1>2, <1>3, <1>5, NoUploadType, SMTT(30)
  <2> QED
    BY <1>6, <2>1, ContextTyped, SMTT(30)
<1>8. uploaded' = IF http.kind = "file" THEN http.file.mtime ELSE uploaded
  BY <1>1 DEF UploadSucceeded
<1>9. ~overlapped => up.time = uploaded'
  <2> HIDE DEF up
  <2> QED
    BY <1>0, <1>1, <1>5, <1>8, ZenonT(30) DEF UploadAccounted, IsPlainUpload
<1>10. UploadStep(c, uploaded')
  <2>1. \/ RenameInStorage(c)
        \/ NoUploadStarts(c)
        \/ /\ rename' = NoSession
           /\ http' = NoUpload /\ upload' = up /\ activity' = act
           /\ UNCHANGED <<request, overlapped>>
    BY <1>1, ZenonT(30) DEF UploadSucceeded
  <2> HIDE DEF c, up, act
  <2>2. CASE RenameInStorage(c)
    BY <1>0, <1>7, <2>2, RenameInStorageStep, SMTT(30)
  <2>3. CASE NoUploadStarts(c)
    BY <1>0, <1>7, <2>3, NoUploadStartsStep, SMTT(30)
  <2>4. CASE /\ rename' = NoSession
             /\ http' = NoUpload /\ upload' = up /\ activity' = act
             /\ UNCHANGED <<request, overlapped>>
    <3>1. request \in RequestType /\ overlapped \in BOOLEAN
      BY <1>0 DEF TypeOK, UploadTypeOK
    <3> QED
      BY <1>5, <1>7, <2>4, <3>1, NoUploadType, SMTT(30)
         DEF UploadStep, UploadTypeOK, SessionOrNone, Accounted
  <2> QED
    BY <2>1, <2>2, <2>3, <2>4, SMTT(30)
<1>11. UploadAccounted'
  <2> HIDE DEF c, up
  <2>1. Accounted(c.upload, c.http, request, overlapped, uploaded')
    BY <1>7, <1>9, ZenonT(30) DEF Accounted
  <2> QED
    BY <1>10, <2>1, ZenonT(30) DEF UploadStep, Accounted, UploadAccounted
<1>12. save' = sv /\ activity' \in {activity, "None"}
  <2>1. save' = sv
    BY <1>1, SMTT(30) DEF UploadSucceeded
  <2> HIDE DEF c, act, sv
  <2> QED
    BY <1>6, <1>7, <1>10, <2>1, SMTT(30) DEF UploadStep
<1>13. SaveActivityIsSaving'
  <2> HIDE DEF sv
  <2> QED
    BY <1>0, <1>3, <1>12, SMTT(30) DEF SaveActivityIsSaving
<1>14. save' \in SaveType /\ activity' \in Activities
  <2> HIDE DEF sv
  <2> QED
    BY <1>2, <1>3, <1>12 DEF Activities
<1>15. uploaded' \in Times
  BY <1>0, <1>2, <1>8 DEF TypeOK, ModelTypeOK, Files
<1>16. UploadTypeOK' /\ rename' \in SessionOrNone
  BY <1>10 DEF UploadStep
<1> HIDE DEF plain, sv, ok, up, switching, renamed, act, c
<1>17. StateTypeOK'
  BY <1>0, <1>1, Zenon DEF UploadSucceeded, HandleUploadToStorageResponse, TypeOK, StateTypeOK,
                    MarkedToDestroyIf, Statuses
<1>18. SaveTypeOK' /\ ActTypeOK'
  BY <1>0, <1>14, <1>16 DEF HandleUploadToStorageResponse, TypeOK, SaveTypeOK, ActTypeOK
<1>19. KitTypeOK' /\ SessTypeOK'
  <2>1. DisconnectSessions(ClosedSessions, fromKit) /\ fromKit \in Seq(Messages)
    BY <1>0, <1>1 DEF UploadSucceeded, TypeOK, KitTypeOK
  <2>2. sess' \in [Sessions -> SessionStates] /\ fromKit' \in Seq(Messages)
    BY <1>0, <2>1, ChosenSessions, DisconnectSessionsStep, ZenonT(30)
  <2>3. UNCHANGED <<kit, disk, closed, lastEditing, readonly, expired>>
    BY <1>1, Zenon DEF HandleUploadToStorageResponse, UploadSucceeded
  <2> QED
    BY <1>0, <2>2, <2>3 DEF TypeOK, KitTypeOK, SessTypeOK
<1>20. ModelTypeOK'
  <2>1. store' \in Contents /\ UNCHANGED <<edits, dataLoss>>
    BY <1>0, StoreTyped DEF HandleUploadToStorageResponse
  <2>2. phase' \in Phases
    BY <1>0, <1>1 DEF UploadSucceeded, TypeOK, ModelTypeOK, PhaseAfterSwitch, Phases
  <2> QED
    BY <1>0, <1>15, <2>1, <2>2 DEF TypeOK, ModelTypeOK
<1>21. OtherTypeOK'
  BY <1>0, <1>1, Zenon DEF HandleUploadToStorageResponse, UploadSucceeded, TypeOK, OtherTypeOK
<1>22. TypeOK'
  BY <1>16, <1>17, <1>18, <1>19, <1>20, <1>21 DEF TypeOK
<1> QED
  BY <1>11, <1>13, <1>22 DEF IInv

(* Storage answers that the upload failed.                                 *)
LEMMA UploadFailedIInv ==
    ASSUME IInv, NEW result, result # "OK", HandleUploadToStorageResponse(result)
    PROVE  IInv'
<1>0. TypeOK /\ SaveActivityIsSaving /\ UploadAccounted
  BY DEF IInv
<1>1. UploadFailed(result)
  BY SMTT(30) DEF HandleUploadToStorageResponse
<1>2. http' \in HttpType /\ http' = NoUpload
  BY <1>1, NoUploadType DEF UploadFailed
<1>3. upload' \in UploadType /\ upload'.time = upload.time
  <2>1. upload \in UploadType
    BY <1>0 DEF TypeOK, UploadTypeOK
  <2> QED
    BY <1>1, <2>1, WithResultUpload, ZenonT(30) DEF UploadFailed
<1>4. UNCHANGED <<save, activity, rename, request, overlapped, status, sess, fromKit, phase,
                  uploaded>>
  BY <1>1 DEF UploadFailed
<1>5. UNCHANGED <<closeRequested, unloadRequested, modifyAfter, untold, lostSave, kit, disk,
                  closed, lastEditing, edits, dataLoss, loaded, disconnected, shutdown,
                  isModified, lostStatus>>
  BY DEF HandleUploadToStorageResponse
<1>6. StateTypeOK' /\ OtherTypeOK'
  BY <1>0, <1>1, <1>4, <1>5, Zenon DEF UploadFailed, TypeOK, StateTypeOK, OtherTypeOK
<1>7. UNCHANGED <<saveVars, kitVars, actVars>>
  BY <1>4, <1>5 DEF saveVars, kitVars, actVars
<1>8. SessTypeOK'
  BY <1>0, <1>1, <1>4, <1>5, ChosenSessions, Zenon DEF UploadFailed, TypeOK, SessTypeOK
<1>9. ModelTypeOK'
  BY <1>0, <1>4, <1>5, StoreTyped, Zenon DEF HandleUploadToStorageResponse, TypeOK, ModelTypeOK
<1>10. UploadTypeOK'
  BY <1>0, <1>2, <1>3, <1>4 DEF TypeOK, UploadTypeOK
<1>11. TypeOK'
  BY <1>0, <1>6, <1>7, <1>8, <1>9, <1>10, Frame DEF TypeOK
<1>12. SaveActivityIsSaving' /\ UploadAccounted'
  BY <1>0, <1>2, <1>3, <1>4, ZenonT(30) DEF SaveActivityIsSaving, UploadAccounted
<1> QED
  BY <1>11, <1>12 DEF IInv

(* A round of the poll loop: it stops, saves, uploads, resumes a renaming, *)
(* or gives a save up.                                                     *)
LEMMA PollRoundIInv ==
    ASSUME IInv, PollRound
    PROVE  IInv'
<1>0. TypeOK /\ SaveActivityIsSaving /\ UploadAccounted
  BY DEF IInv
<1>1. UNCHANGED <<closeRequested, unloadRequested, closed, readonly, expired, lastEditing,
                  edits, dataLoss, storeVars, otherVars>>
  BY SMTT(30) DEF PollRound
<1>a. UNCHANGED sess => UNCHANGED sessVars
  BY <1>1 DEF sessVars
<1>b. UNCHANGED phase => UNCHANGED modelVars
  BY <1>1 DEF modelVars
<1>c. UNCHANGED <<stop, status>> => UNCHANGED stateVars
  BY <1>1 DEF stateVars
<1>2. CASE StopBroker
  <2>1. UNCHANGED <<saveVars, kitVars, actVars, uploadVars, sess, phase>>
    BY <1>2 DEF StopBroker
  <2>2. StateTypeOK'
    BY <1>0, <1>1, <1>2 DEF StopBroker, TypeOK, StateTypeOK
  <2> QED
    BY <1>0, <1>1, <1>a, <1>b, <2>1, <2>2, IdleStep, Frame
<1>3. CASE PollSaves
  <2>1. AutoSave /\ UNCHANGED <<stop, status, uploadVars, sess, phase>>
    BY <1>3 DEF PollSaves
  <2>2. SaveStep /\ rename' = rename
    BY <1>0, <2>1, AutoSaveStep
  <2>3. rename' \in SessionOrNone
    BY <1>0, <2>2 DEF TypeOK, ActTypeOK
  <2> QED
    BY <1>1, <1>a, <1>b, <1>c, <2>1, <2>2, <2>3, SavingStep
<1>4. CASE PollUploads
  <2>1. PICK s \in WriteableSession :
          CheckAndUploadToStorage(s, FALSE, TRUE, save, disk, fromKit)
    BY <1>4, ZenonT(30) DEF PollUploads
  <2>2. s \in Sessions
    BY ChosenSessions
  <2>3. /\ save \in SaveType /\ disk \in DiskType /\ fromKit \in Seq(Messages)
        /\ lostSave \in BOOLEAN
    BY <1>0 DEF TypeOK, SaveTypeOK, KitTypeOK
  <2>4. CheckStep
    BY <1>0, <2>1, <2>2, <2>3, CheckAndUploadStep, ZenonT(30)
  <2>5. UNCHANGED <<stop, save, modifyAfter, untold, lostSave, kit, disk>>
    BY <1>4 DEF PollUploads, saveVars
  <2> QED
    BY <1>1, <2>3, <2>4, <2>5, CheckingStep, Zenon
<1>5. CASE /\ StartRenameFileCommand(rename)
           /\ UNCHANGED <<stop, status, uploadVars, sess, phase>>
  <2>1. rename \in SessionOrNone
    BY <1>0 DEF TypeOK, ActTypeOK
  <2> QED
    BY <1>1, <1>a, <1>b, <1>c, <1>5, <2>1, StartRenameStep
<1>6. CASE PollSave
  <2>1. /\ activity' = "None"
        /\ UNCHANGED <<stop, status, modifyAfter, untold, lostSave, kitVars, rename, uploadVars,
                       sess, phase>>
    BY <1>6 DEF PollSave
  <2>2. SaveTypeOK'
    <3>1. /\ save \in SaveType /\ modifyAfter \in BOOLEAN
          /\ untold \in BOOLEAN /\ lostSave \in BOOLEAN
      BY <1>0 DEF TypeOK, SaveTypeOK
    <3>2. save' = WithResult(save, FALSE)
      BY <1>6 DEF PollSave
    <3>3. save' \in SaveType
      BY <3>1, <3>2, WithResultSave, ZenonT(30)
    <3> QED
      BY <2>1, <3>1, <3>3 DEF SaveTypeOK
  <2>3. ActTypeOK'
    BY <1>0, <2>1 DEF TypeOK, ActTypeOK, Activities
  <2>4. TypeOK'
    BY <1>0, <1>1, <1>a, <1>b, <1>c, <2>1, <2>2, <2>3, Frame, Zenon DEF TypeOK
  <2>5. SaveActivityIsSaving' /\ UploadAccounted'
    BY <1>0, <1>1, <2>1, Zenon DEF SaveActivityIsSaving, UploadAccounted, uploadVars, storeVars
  <2> QED
    BY <2>4, <2>5 DEF IInv
<1>7. \/ StopBroker \/ PollSaves \/ PollUploads \/ PollSave
      \/ /\ StartRenameFileCommand(rename)
         /\ UNCHANGED <<stop, status, uploadVars, sess, phase>>
  BY ZenonT(30) DEF PollRound, PollNone, AutoSaveAndStop
<1> QED
  BY <1>2, <1>3, <1>4, <1>5, <1>6, <1>7

----------------------------------------------------------------------------
(* The initial state satisfies the inductive invariant.                    *)
LEMMA InitIInv == Init => IInv
<1> SUFFICES ASSUME Init PROVE IInv
  OBVIOUS
<1>1. StateTypeOK /\ ActTypeOK
  <2>1. StateTypeOK
    BY Zenon DEF Init, StateTypeOK, Statuses
  <2>2. ActTypeOK
    BY Zenon DEF Init, ActTypeOK, Activities, SessionOrNone
  <2> QED
    BY <2>1, <2>2
<1>2. SaveTypeOK
  <2>1. save = [active |-> FALSE, failures |-> 0, saved |-> FALSE, time |-> NoTime]
    BY Zenon DEF Init
  <2>2. modifyAfter \in BOOLEAN /\ untold \in BOOLEAN /\ lostSave \in BOOLEAN
    BY Zenon DEF Init
  <2>3. save \in SaveType
    BY <2>1, ConstantsAssumption DEF SaveType, Times
  <2> QED
    BY <2>2, <2>3, Zenon DEF SaveTypeOK
<1>3. KitTypeOK
  <2>1. /\ kit = [state |-> "up", ver |-> 0, modified |-> FALSE, saves |-> 0]
        /\ fromKit = <<>>
        /\ disk = [doc |-> NoFile, upload |-> NoFile, uploading |-> NoFile]
    BY Zenon DEF Init
  <2> QED
    BY <2>1, NoUploadType DEF KitTypeOK, KitType, DiskType
<1>4. UploadTypeOK
  <2>1. /\ upload = [active |-> FALSE, failures |-> 0, time |-> NoTime]
        /\ request = [kind |-> "none", mtime |-> NoTime, s |-> NoSession]
        /\ http = NoUpload /\ overlapped \in BOOLEAN
    BY Zenon DEF Init
  <2>2. upload \in UploadType /\ request \in RequestType
    BY <2>1, ConstantsAssumption DEF UploadType, RequestType, Kinds, Times, SessionOrNone
  <2> QED
    BY <2>1, <2>2, NoUploadType, Zenon DEF UploadTypeOK
<1>5. SessTypeOK
  <2>1. /\ sess = [s \in Sessions |-> "none"]
        /\ closed = {} /\ readonly = Viewers /\ expired = {} /\ lastEditing = NoSession
    BY Zenon DEF Init
  <2> QED
    BY <2>1, ConstantsAssumption DEF SessTypeOK, SessionStates, SessionOrNone
<1>6. ModelTypeOK
  <2>1. edits = 0 /\ store = 0 /\ uploaded = NoTime
    BY Zenon DEF Init
  <2>2. phase \in Phases /\ dataLoss \in BOOLEAN
    BY Zenon DEF Init, Phases
  <2>3. edits \in 0..MaxEdits /\ store \in Contents /\ uploaded \in Times
    BY <2>1, ConstantsAssumption DEF Contents, Times
  <2> QED
    BY <2>2, <2>3, Zenon DEF ModelTypeOK
<1>7. OtherTypeOK
  BY Zenon DEF Init, OtherTypeOK
<1>8. SaveActivityIsSaving /\ UploadAccounted
  <2>1. /\ activity = "None" /\ http = NoUpload /\ uploaded = NoTime
        /\ upload = [active |-> FALSE, failures |-> 0, time |-> NoTime]
    BY Zenon DEF Init
  <2> QED
    BY <2>1, Zenon DEF SaveActivityIsSaving, UploadAccounted
<1> QED
  BY <1>1, <1>2, <1>3, <1>4, <1>5, <1>6, <1>7, <1>8 DEF IInv, TypeOK

(* Every step of the broker and of its environment preserves the           *)
(* inductive invariant.                                                    *)
LEMMA NextIInv == IInv /\ [Next]_vars => IInv'
<1> SUFFICES ASSUME IInv, [Next]_vars PROVE IInv'
  OBVIOUS
<1>1. CASE UNCHANGED vars
  <2>1. UNCHANGED <<stateVars, saveVars, kitVars, uploadVars, actVars, sessVars, modelVars,
                    otherVars>>
    BY <1>1 DEF vars
  <2>2. TypeOK /\ UNCHANGED storeVars
    BY <2>1 DEF IInv, modelVars
  <2> QED
    BY <2>1, <2>2, IdleStep, Frame
<1>2. ASSUME NEW s \in Sessions,
             \/ AddSession(s) \/ Edit(s) \/ ManualSave(s) \/ ClientUpload(s, "file")
             \/ ClientUpload(s, "saveas") \/ HandleRenameFileCommand(s) \/ SwitchMode(s)
             \/ OnDisconnect(s)
      PROVE  IInv'
  BY <1>2, AddSessionIInv, EditIInv, SavingActions, ClientUploadIInv, OnDisconnectIInv, SMTT(30)
<1>3. ASSUME NEW elapsed \in BOOLEAN, HandleSaveResponse(elapsed)
      PROVE  IInv'
  BY <1>3, HandleSaveResponseIInv, SMTT(30)
<1>4. ASSUME NEW result \in UploadResults, HandleUploadToStorageResponse(result)
      PROVE  IInv'
  BY <1>4, UploadSucceededIInv, UploadFailedIInv, SMTT(30)
<1>5. CASE PollRound
  BY <1>5, PollRoundIInv
<1> QED
  BY <1>1, <1>2, <1>3, <1>4, <1>5, QuietActions, Zenon DEF Next

----------------------------------------------------------------------------
(* The variables of the broker always have their types: in particular the  *)
(* failure counters of both request managers stay within the limit.        *)
THEOREM TypeCorrect == Spec => []TypeOK
<1>1. IInv => TypeOK
  BY DEF IInv
<1> QED
  BY InitIInv, NextIInv, <1>1, PTL DEF Spec

(* Whatever the clients, the Kit and storage do, the Save activity, which  *)
(* only the end of a save ends, is there only while a save request is      *)
(* active.                                                                 *)
THEOREM SaveActivitySafety == Spec => []SaveActivityIsSaving
<1>1. IInv => SaveActivityIsSaving
  BY DEF IInv
<1> QED
  BY InitIInv, NextIInv, <1>1, PTL DEF Spec

(* As long as no upload is requested during another one, the request that  *)
(* handleUploadToStorageResponse() consults describes the upload that is   *)
(* answered, and the time that isStorageOutdated() compares is that of the *)
(* file last uploaded.                                                     *)
THEOREM UploadSafety == Spec => []UploadAccounted
<1>1. IInv => UploadAccounted
  BY DEF IInv
<1> QED
  BY InitIInv, NextIInv, <1>1, PTL DEF Spec

----------------------------------------------------------------------------
(* Until the document is loaded, nothing is edited, saved, uploaded or     *)
(* renamed, and a document that is marked to destroy has no sessions.      *)
NoResults(q) == \A i \in DOMAIN q : q[i].type \in {"status", "disconnected"}

Fresh ==
    ~loaded =>
        /\ \A s \in Sessions : sess[s] # "live"
        /\ ~save.active /\ ~save.saved /\ save.failures = 0
        /\ upload.failures = 0 /\ http = NoUpload /\ ~Exists(disk.uploading)
        /\ ~isModified /\ ~modifyAfter /\ ~unloadRequested
        /\ activity = "None" /\ rename = NoSession
        /\ NoResults(fromKit)
        /\ IsMarkedToDestroy => Attached = {}

(* What keeps an unloaded document as it is.                               *)
FreshParts ==
    /\ \A s \in Sessions : sess'[s] = "live" => sess[s] = "live"
    /\ save'.active = save.active /\ save'.saved = save.saved
    /\ save'.failures = save.failures /\ upload'.failures = upload.failures
    /\ disk'.uploading = disk.uploading
    /\ UNCHANGED <<loaded, http, isModified, modifyAfter, unloadRequested, activity, rename>>
    /\ NoResults(fromKit) => NoResults(fromKit')
    /\ IsMarkedToDestroy' => Attached' = {} \/ (IsMarkedToDestroy /\ Attached' \subseteq Attached)

(* Such a step keeps Fresh.                                                *)
LEMMA FreshFrame ==
    ASSUME Fresh, FreshParts
    PROVE  Fresh'
<1> SUFFICES ASSUME ~loaded'
             PROVE  /\ \A s \in Sessions : sess'[s] # "live"
                    /\ ~save'.active /\ ~save'.saved /\ save'.failures = 0
                    /\ upload'.failures = 0 /\ http' = NoUpload /\ ~Exists(disk'.uploading)
                    /\ ~isModified' /\ ~modifyAfter' /\ ~unloadRequested'
                    /\ activity' = "None" /\ rename' = NoSession
                    /\ NoResults(fromKit')
                    /\ IsMarkedToDestroy' => Attached' = {}
  BY Zenon DEF Fresh
<1>1. ~loaded
  BY Zenon DEF FreshParts
<1> QED
  BY <1>1, Zenon DEF Fresh, FreshParts

(* The queue: what the Kit replies to new and to leaving sessions is no    *)
(* result, and taking a message adds none.                                 *)
LEMMA NoResultsKept ==
    ASSUME NEW q \in Seq(Messages), NoResults(q)
    PROVE  /\ q # <<>> => NoResults(Tail(q))
           /\ \A r \in Seq(Messages) : NoResults(r) => NoResults(q \o r)
<1>1. ASSUME q # <<>>
      PROVE  NoResults(Tail(q))
  <2>1. \A i \in DOMAIN Tail(q) : i + 1 \in DOMAIN q /\ Tail(q)[i] = q[i + 1]
    BY <1>1
  <2> QED
    BY <2>1 DEF NoResults
<1>2. ASSUME NEW r \in Seq(Messages), NoResults(r)
      PROVE  NoResults(q \o r)
  <2>1. \A i \in DOMAIN (q \o r) : \/ i \in DOMAIN q /\ (q \o r)[i] = q[i]
                                   \/ i - Len(q) \in DOMAIN r /\ (q \o r)[i] = r[i - Len(q)]
    OBVIOUS
  <2> QED
    BY <1>2, <2>1, Zenon DEF NoResults
<1> QED
  BY <1>1, <1>2

(* What the Kit replies to sessions that come or go.                       *)
LEMMA RepliesAreNoResults ==
    ASSUME NEW kind \in {"status", "disconnected"}, NEW views
    PROVE  NoResults(KitReplies(kind, views))
  BY SMTT(30) DEF NoResults, KitReplies

(* Sessions that are disconnected.                                         *)
LEMMA DisconnectingIsNoResult ==
    ASSUME TypeOK, NEW S \in SUBSET Sessions, NEW q \in Seq(Messages), DisconnectSessions(S, q)
    PROVE  /\ NoResults(q) => NoResults(fromKit')
           /\ Attached' \subseteq Attached
           /\ \A s \in Sessions : sess'[s] = "live" => sess[s] = "live"
<1> DEFINE views == {s \in S : sess[s] \in {"loading", "live"}}
<1>1. PICK order \in [1..Cardinality(views) -> views] :
         fromKit' = q \o KitReplies("disconnected", order)
  BY Zenon DEF DisconnectSessions
<1>3. order \in Seq(Sessions)
  <2>1. views \in SUBSET Sessions
    OBVIOUS
  <2> HIDE DEF views
  <2> QED
    BY <1>1, <2>1, OrderIsSequence
<1>4. /\ KitReplies("disconnected", order) \in Seq(Messages)
      /\ NoResults(KitReplies("disconnected", order))
  BY <1>3, KitRepliesTyped, RepliesAreNoResults
<1>5. /\ Attached' \subseteq Attached
      /\ \A s \in Sessions : sess'[s] = "live" => sess[s] = "live"
  BY Zenon DEF DisconnectSessions, Attached
<1> QED
  BY <1>1, <1>4, <1>5, NoResultsKept, Zenon

(* The actions that need a document that is loaded.                        *)
LEMMA NeedLoaded ==
    ASSUME Fresh, ~loaded
    PROVE  /\ \A s \in Sessions : ~Edit(s) /\ ~ManualSave(s) /\ ~SwitchMode(s)
                                  /\ ~HandleRenameFileCommand(s)
                                  /\ ~ClientUpload(s, "file") /\ ~ClientUpload(s, "saveas")
           /\ \A result : ~HandleUploadToStorageResponse(result)
<1>1. \A s \in Sessions : ~IsViewLoaded(s)
  BY DEF Fresh, IsViewLoaded
<1>2. \A s \in Sessions : ~Edit(s) /\ ~ManualSave(s) /\ ~SwitchMode(s)
                          /\ ~HandleRenameFileCommand(s)
                          /\ ~ClientUpload(s, "file") /\ ~ClientUpload(s, "saveas")
  BY <1>1, Zenon DEF Edit, ManualSave, SwitchMode, HandleRenameFileCommand, ClientUpload
<1>3. \A result : ~HandleUploadToStorageResponse(result)
  BY DEF Fresh, HandleUploadToStorageResponse
<1> QED
  BY <1>2, <1>3

(* The messages that an unloaded document does not get.                    *)
LEMMA NoResultReceived ==
    ASSUME TypeOK, Fresh, ~loaded
    PROVE  ~Receives("saved") /\ ~Receives("modified")
<1>1. fromKit \in Seq(Messages) /\ NoResults(fromKit)
  BY DEF TypeOK, KitTypeOK, Fresh
<1>2. fromKit # <<>> => 1 \in DOMAIN fromKit /\ Head(fromKit) = fromKit[1]
  BY <1>1
<1> QED
  BY <1>1, <1>2 DEF Receives, NoResults

(* A round of the loop can only stop a broker with nothing loaded.         *)
LEMMA FreshPollStops ==
    ASSUME TypeOK, Fresh, ~loaded, PollRound
    PROVE  StopBroker
<1>1. ~NeedToSave(save) /\ ~NeedToUpload(save, disk)
  BY DEF Fresh, NeedToSave, NeedToUpload, IsStorageOutdated
<1>2. CanStop
  BY <1>1 DEF CanStop
<1>3. activity = "None" /\ rename = NoSession /\ ~(upload.failures > 0)
  BY DEF Fresh
<1>4. ~AutoSaveSends(FALSE)
  BY DEF AutoSaveSends, CanSave
<1> QED
  BY <1>2, <1>3, <1>4, ZenonT(30) DEF PollRound, PollNone, PollSave, AutoSaveAndStop

(* The steps that leave an unloaded document as it is.                     *)
Quiet ==
    UNCHANGED <<status, unloadRequested, save, modifyAfter, disk, upload, http, activity,
                rename, loaded, isModified>>

(* Sessions that change do not become those of a loaded document.          *)
LEMMA FreshQuiet ==
    ASSUME Quiet, NoResults(fromKit) => NoResults(fromKit'),
           \A t \in Sessions : sess'[t] = sess[t] \/ sess'[t] \in {"detached", "gone"}
    PROVE  FreshParts
<1>1. Attached' \subseteq Attached /\ \A t \in Sessions : sess'[t] = "live" => sess[t] = "live"
  BY DEF Attached
<1> QED
  BY <1>1, Zenon DEF Quiet, FreshParts, IsMarkedToDestroy

LEMMA FreshKept ==
    ASSUME Quiet, UNCHANGED <<sess, fromKit>>
    PROVE  FreshParts
<1>1. NoResults(fromKit) => NoResults(fromKit')
  BY Zenon
<1>2. \A t \in Sessions : sess'[t] = sess[t]
  BY Zenon
<1> QED
  BY <1>1, <1>2, FreshQuiet, Zenon

LEMMA FreshActions ==
    ASSUME TypeOK, Fresh, ~loaded,
           \/ \E s \in Sessions : \/ CreateNewClientSession(s) \/ CloseDocument(s)
                                  \/ RefreshForAll(s) \/ ResetAccessToken(s)
                                  \/ RemoveStaleSession(s)
           \/ RequestShutdown \/ HandleDisconnected \/ DisconnectedFromKit \/ LoadTimeout
           \/ ExitLoop \/ TerminateChild \/ \E state \in {"dead", "hung"} : KitFails(state)
           \/ PollRound
    PROVE  FreshParts
<1>0. sess \in [Sessions -> SessionStates] /\ fromKit \in Seq(Messages)
  BY DEF TypeOK, SessTypeOK, KitTypeOK
<1>a. NoResults(fromKit)
  BY DEF Fresh
<1> USE DEF stateVars, saveVars, kitVars, uploadVars, actVars, sessVars, modelVars, otherVars
<1>1. ASSUME NEW s \in Sessions, CreateNewClientSession(s)
      PROVE  FreshParts
  <2>1. Quiet /\ fromKit' = fromKit /\ sess' = [sess EXCEPT ![s] = "detached"]
    BY <1>1, Zenon DEF CreateNewClientSession, Quiet
  <2>2. \A t \in Sessions : sess'[t] = sess[t] \/ sess'[t] = "detached"
    BY <1>0, <2>1
  <2> QED
    BY <2>1, <2>2, FreshQuiet, Zenon
<1>2. ASSUME NEW s \in Sessions, CloseDocument(s)
      PROVE  FreshParts
  <2>1. Quiet /\ UNCHANGED <<sess, fromKit>>
    BY <1>2, Zenon DEF CloseDocument, Quiet
  <2> QED
    BY <2>1, FreshKept
<1>3. ASSUME NEW s \in Sessions, RefreshForAll(s)
      PROVE  FreshParts
  <2>1. Quiet /\ UNCHANGED <<sess, fromKit>>
    BY <1>3, Zenon DEF RefreshForAll, Quiet
  <2> QED
    BY <2>1, FreshKept
<1>4. ASSUME NEW s \in Sessions, ResetAccessToken(s)
      PROVE  FreshParts
  <2>1. Quiet /\ UNCHANGED <<sess, fromKit>>
    BY <1>4, Zenon DEF ResetAccessToken, Quiet
  <2> QED
    BY <2>1, FreshKept
<1>5. ASSUME NEW s \in Sessions, RemoveStaleSession(s)
      PROVE  FreshParts
  <2>1. Quiet /\ fromKit' = fromKit /\ sess' = [sess EXCEPT ![s] = "gone"]
    BY <1>5, Zenon DEF RemoveStaleSession, Quiet
  <2>2. \A t \in Sessions : sess'[t] = sess[t] \/ sess'[t] = "gone"
    BY <1>0, <2>1, Zenon
  <2> QED
    BY <2>1, <2>2, FreshQuiet, Zenon
<1>6. ASSUME RequestShutdown
      PROVE  FreshParts
  <2>1. Quiet /\ UNCHANGED <<sess, fromKit>>
    BY <1>6, Zenon DEF RequestShutdown, Quiet
  <2> QED
    BY <2>1, FreshKept
<1>7. ASSUME HandleDisconnected
      PROVE  FreshParts
  <2>1. /\ Quiet /\ fromKit # <<>> /\ fromKit' = Tail(fromKit)
        /\ sess' = [sess EXCEPT ![Head(fromKit).s] = "gone"]
    BY <1>7, Zenon DEF HandleDisconnected, Receives, Quiet
  <2>2. \A t \in Sessions : sess'[t] = sess[t] \/ sess'[t] = "gone"
    BY <1>0, <2>1
  <2>3. NoResults(fromKit')
    BY <1>0, <1>a, <2>1, NoResultsKept, Zenon
  <2> QED
    BY <2>1, <2>2, <2>3, FreshQuiet, Zenon
<1>8. ASSUME DisconnectedFromKit
      PROVE  FreshParts
  <2>1. Quiet /\ UNCHANGED <<sess, fromKit>>
    BY <1>8, Zenon DEF DisconnectedFromKit, Quiet
  <2> QED
    BY <2>1, FreshKept
<1>9. ASSUME LoadTimeout
      PROVE  FreshParts
  <2>1. Quiet /\ UNCHANGED <<sess, fromKit>>
    BY <1>9, Zenon DEF LoadTimeout, Quiet
  <2> QED
    BY <2>1, FreshKept
<1>10. ASSUME ExitLoop
       PROVE  FreshParts
  <2>1. Quiet /\ UNCHANGED <<sess, fromKit>>
    BY <1>10, Zenon DEF ExitLoop, Quiet
  <2> QED
    BY <2>1, FreshKept
<1>11. ASSUME TerminateChild
       PROVE  FreshParts
  <2>1. /\ Quiet /\ fromKit' = fromKit
        /\ sess' = [s \in Sessions |-> IF s \in Attached THEN "gone" ELSE sess[s]]
    BY <1>11, Zenon DEF TerminateChild, Quiet
  <2>2. \A t \in Sessions : sess'[t] = sess[t] \/ sess'[t] = "gone"
    BY <2>1
  <2> QED
    BY <2>1, <2>2, FreshQuiet, Zenon
<1>12. ASSUME NEW state \in {"dead", "hung"}, KitFails(state)
       PROVE  FreshParts
  <2>1. Quiet /\ UNCHANGED <<sess, fromKit>>
    BY <1>12, Zenon DEF KitFails, Quiet
  <2> QED
    BY <2>1, FreshKept
<1>13. ASSUME PollRound
       PROVE  FreshParts
  <2>1. StopBroker
    BY <1>13, FreshPollStops
  <2>2. UNCHANGED <<unloadRequested, otherVars>>
    BY <1>13, Zenon DEF PollRound
  <2>3. Quiet /\ UNCHANGED <<sess, fromKit>>
    BY <2>1, <2>2, Zenon DEF StopBroker, Quiet
  <2> QED
    BY <2>3, FreshKept
<1> QED
  BY <1>1, <1>2, <1>3, <1>4, <1>5, <1>6, <1>7, <1>8, <1>9, <1>10, <1>11, <1>12, <1>13, Zenon

(* A session is added to a document that is not loaded, or rejected.       *)
LEMMA FreshAddSession ==
    ASSUME TypeOK, Fresh, ~loaded, NEW s \in Sessions, AddSession(s)
    PROVE  FreshParts
<1>0. /\ sess \in [Sessions -> SessionStates] /\ fromKit \in Seq(Messages)
      /\ save \in SaveType /\ upload \in UploadType /\ disk \in DiskType
  BY DEF TypeOK, SessTypeOK, KitTypeOK, SaveTypeOK, UploadTypeOK
<1>1. /\ UNCHANGED <<loaded, http, isModified, modifyAfter, unloadRequested, activity, rename>>
      /\ sess[s] = "detached"
  BY DEF AddSession, actVars
<1>2. /\ save'.active = save.active /\ save'.saved = save.saved
      /\ save'.failures = save.failures
  <2>1. save' = save \/ save' = [save EXCEPT !.time = 0]
    BY SMTT(30) DEF AddSession
  <2> QED
    BY <1>0, <2>1, SMTT(30) DEF SaveType
<1>3. upload'.failures = upload.failures
  <2>1. upload' = upload \/ upload' = [upload EXCEPT !.time = 0]
    BY SMTT(30) DEF AddSession
  <2> QED
    BY <1>0, <2>1, SMTT(30) DEF UploadType
<1>4. disk'.uploading = disk.uploading
  <2>1. disk' = disk \/ disk' = [disk EXCEPT !.doc = [ver |-> 0, mtime |-> 0]]
    BY SMTT(30) DEF AddSession
  <2> QED
    BY <1>0, <2>1, SMTT(30) DEF DiskType
<1>5. NoResults(fromKit')
  <2>1. fromKit' = fromKit \/ fromKit' = fromKit \o KitReplies("status", <<s>>)
    BY Zenon DEF AddSession
  <2>2. /\ KitReplies("status", <<s>>) \in Seq(Messages)
        /\ NoResults(KitReplies("status", <<s>>))
    <3>1. <<s>> \in Seq(Sessions)
      OBVIOUS
    <3> QED
      BY <3>1, KitRepliesTyped, RepliesAreNoResults, Zenon
  <2>3. NoResults(fromKit)
    BY DEF Fresh
  <2> QED
    BY <1>0, <2>1, <2>2, <2>3, NoResultsKept, Zenon
<1>6. \A t \in Sessions : sess'[t] = "live" => sess[t] = "live"
  BY <1>0, SMTT(30) DEF AddSession
<1>7. IsMarkedToDestroy' => Attached' = {} \/ (IsMarkedToDestroy /\ Attached' \subseteq Attached)
  <2>1. CASE sess' = [sess EXCEPT ![s] = "rejected"] /\ status' = MarkedToDestroyIf(Attached = {})
    <3>1. Attached' \subseteq Attached
      BY <1>0, <2>1, Zenon DEF Attached
    <3> QED
      BY <2>1, <3>1 DEF MarkedToDestroyIf, IsMarkedToDestroy
  <2>2. CASE ~IsMarkedToDestroy /\ status' \in {"Loading", status}
    BY <2>2 DEF IsMarkedToDestroy
  <2> QED
    BY <2>1, <2>2, ZenonT(30) DEF AddSession
<1> QED
  BY <1>1, <1>2, <1>3, <1>4, <1>5, <1>6, <1>7, Zenon DEF FreshParts

(* A session leaves a document that is not loaded: nothing is saved, and   *)
(* only with the last session is the document marked to destroy.           *)
LEMMA FreshOnDisconnect ==
    ASSUME TypeOK, Fresh, ~loaded, NEW s \in Sessions, OnDisconnect(s)
    PROVE  FreshParts
<1> DEFINE last == LastEditableSession(s)
           force == AlwaysSaveOnExit \/ IsPossiblyModified
           few == Cardinality(ActiveSessions) <= 1
<1>0. fromKit \in Seq(Messages)
  BY DEF TypeOK, KitTypeOK
<1>1. ~AutoSaveSends(force) /\ ~AutoSaveReturns(force) /\ ~save.active
  BY DEF Fresh, AutoSaveSends, AutoSaveReturns, CanSave
<1>2. ~save.active /\ ~unloadRequested /\ http = NoUpload
  BY DEF Fresh
<1>3. /\ UNCHANGED <<saveVars, disk, actVars>>
      /\ DisconnectSessions({s}, fromKit)
  BY <1>1, ZenonT(30) DEF OnDisconnect
<1>4. /\ unloadRequested' = (unloadRequested \/ (few /\ (save'.active \/ http # NoUpload)))
      /\ status' = MarkedToDestroyIf(
                         \/ ~(last /\ (save.active \/ AutoSaveReturns(force))) /\ unloadRequested
                         \/ few /\ ~save'.active /\ http = NoUpload /\ Attached' = {})
      /\ UNCHANGED <<uploadVars, otherVars>>
  BY ZenonT(30) DEF OnDisconnect
<1> HIDE DEF last, force, few
<1>5. /\ NoResults(fromKit')
      /\ Attached' \subseteq Attached
      /\ \A t \in Sessions : sess'[t] = "live" => sess[t] = "live"
  BY <1>0, <1>3, DisconnectingIsNoResult, Zenon DEF Fresh
<1>6. save' = save
  BY <1>3 DEF saveVars
<1>7. unloadRequested' = unloadRequested
  <2>1. unloadRequested' = FALSE /\ unloadRequested = FALSE
    BY <1>2, <1>4, <1>6 DEF TypeOK, StateTypeOK
  <2> QED
    BY <2>1, Zenon
<1>8. IsMarkedToDestroy' => Attached' = {} \/ (IsMarkedToDestroy /\ Attached' \subseteq Attached)
  BY <1>2, <1>4, <1>5, Zenon DEF MarkedToDestroyIf, IsMarkedToDestroy
<1>9. /\ UNCHANGED <<loaded, http, isModified, modifyAfter, activity, rename>>
      /\ UNCHANGED <<upload, disk>>
  BY <1>3, <1>4, Zenon DEF saveVars, uploadVars, actVars, otherVars
<1> QED
  BY <1>5, <1>6, <1>7, <1>8, <1>9, Zenon DEF FreshParts

(* The first view of a document makes it loaded; the answer to one that    *)
(* has left changes nothing.                                               *)
LEMMA FreshHandleStatus ==
    ASSUME TypeOK, Fresh, ~loaded, HandleStatus
    PROVE  Fresh'
<1> SUFFICES ASSUME ~loaded' PROVE Fresh'
  BY Zenon DEF Fresh
<1> DEFINE m == Head(fromKit).s
<1>0. sess \in [Sessions -> SessionStates] /\ fromKit \in Seq(Messages)
  BY DEF TypeOK, SessTypeOK, KitTypeOK
<1>1. /\ fromKit # <<>> /\ fromKit' = Tail(fromKit)
      /\ loaded' = (loaded \/ m \in Attached)
      /\ sess' = IF sess[m] = "loading" THEN [sess EXCEPT ![m] = "live"] ELSE sess
      /\ status' = SetLoaded(m)
  BY Zenon DEF HandleStatus, Receives
<1>2. UNCHANGED <<unloadRequested, saveVars, disk, uploadVars, actVars, isModified>>
  BY Zenon DEF HandleStatus
<1>3. m \notin Attached
  BY <1>1, Zenon
<1> HIDE DEF m
<1>4. sess' = sess
  <2>1. CASE m \in Sessions
    BY <1>1, <1>3, <2>1 DEF Attached
  <2>2. CASE m \notin Sessions
    <3>1. [sess EXCEPT ![m] = "live"] = sess
      BY <1>0, <2>2
    <3> QED
      BY <1>1, <3>1
  <2> QED
    BY <2>1, <2>2
<1>5. status' = status
  BY <1>1, <1>3, Zenon DEF SetLoaded
<1>6. NoResults(fromKit')
  BY <1>0, <1>1, NoResultsKept, Zenon DEF Fresh
<1>7. loaded' = loaded
  <2>1. loaded \in BOOLEAN
    BY DEF TypeOK, OtherTypeOK
  <2> QED
    BY <1>1, <1>3, <2>1
<1>8. FreshParts
  <2>1. Quiet
    BY <1>2, <1>5, <1>7, Zenon DEF Quiet, saveVars, uploadVars, actVars
  <2> QED
    BY <1>4, <1>6, <2>1, FreshQuiet, Zenon
<1> QED
  BY <1>8, FreshFrame

(* The initial document is not loaded.                                     *)
LEMMA FreshInit == Init => Fresh
<1> SUFFICES ASSUME Init PROVE Fresh
  OBVIOUS
<1>1. /\ save = [active |-> FALSE, failures |-> 0, saved |-> FALSE, time |-> NoTime]
      /\ upload = [active |-> FALSE, failures |-> 0, time |-> NoTime]
      /\ disk = [doc |-> NoFile, upload |-> NoFile, uploading |-> NoFile]
  BY Zenon DEF Init
<1>2. NoResults(fromKit)
  <2>1. fromKit = <<>>
    BY Zenon DEF Init
  <2> QED
    BY <2>1 DEF NoResults
<1>3. Attached = {} /\ \A s \in Sessions : sess[s] # "live"
  <2>1. sess = [s \in Sessions |-> "none"]
    BY Zenon DEF Init
  <2> QED
    BY <2>1 DEF Attached
<1>4. /\ save.active = FALSE /\ save.saved = FALSE /\ save.failures = 0
      /\ upload.failures = 0 /\ ~Exists(disk.uploading)
  BY <1>1, Zenon DEF Exists, NoFile
<1>5. /\ http = NoUpload /\ ~isModified /\ ~modifyAfter /\ ~unloadRequested
      /\ activity = "None" /\ rename = NoSession
  BY Zenon DEF Init
<1> QED
  BY <1>2, <1>3, <1>4, <1>5, Zenon DEF Fresh

(* A document that is loaded stays so.                                     *)
LEMMA LoadedStays ==
    ASSUME TypeOK, loaded, [Next]_vars
    PROVE  loaded'
<1> USE DEF stateVars, saveVars, kitVars, uploadVars, actVars, sessVars, modelVars, otherVars
<1>0. CASE UNCHANGED vars
  BY <1>0, Zenon DEF vars
<1>1. ASSUME NEW s \in Sessions, CreateNewClientSession(s) PROVE loaded'
  BY <1>1, Zenon DEF CreateNewClientSession
<1>2. ASSUME NEW s \in Sessions, AddSession(s) PROVE loaded'
  BY <1>2, Zenon DEF AddSession
<1>3. ASSUME NEW s \in Sessions, Edit(s) PROVE loaded'
  BY <1>3, Zenon DEF Edit
<1>4. ASSUME NEW s \in Sessions, ManualSave(s) PROVE loaded'
  BY <1>4, Zenon DEF ManualSave
<1>5. ASSUME NEW s \in Sessions, NEW kind \in {"file", "saveas"}, ClientUpload(s, kind) PROVE loaded'
  BY <1>5, Zenon DEF ClientUpload
<1>6. ASSUME NEW s \in Sessions, HandleRenameFileCommand(s) PROVE loaded'
  BY <1>6, Zenon DEF HandleRenameFileCommand
<1>7. ASSUME NEW s \in Sessions, SwitchMode(s) PROVE loaded'
  BY <1>7, Zenon DEF SwitchMode
<1>8. ASSUME NEW s \in Sessions, CloseDocument(s) PROVE loaded'
  BY <1>8, Zenon DEF CloseDocument
<1>9. ASSUME NEW s \in Sessions, RefreshForAll(s) PROVE loaded'
  BY <1>9, Zenon DEF RefreshForAll
<1>10. ASSUME NEW s \in Sessions, ResetAccessToken(s) PROVE loaded'
  BY <1>10, Zenon DEF ResetAccessToken
<1>11. ASSUME NEW s \in Sessions, OnDisconnect(s) PROVE loaded'
  BY <1>11, ZenonT(30) DEF OnDisconnect
<1>12. ASSUME NEW s \in Sessions, RemoveStaleSession(s) PROVE loaded'
  BY <1>12, Zenon DEF RemoveStaleSession
<1>13. ASSUME RequestShutdown PROVE loaded'
  BY <1>13, Zenon DEF RequestShutdown
<1>14. ASSUME HandleStatus PROVE loaded'
  BY <1>14, ZenonT(30) DEF HandleStatus
<1>15. ASSUME HandleModifiedStatus PROVE loaded'
  BY <1>15, ZenonT(30) DEF HandleModifiedStatus
<1>16. ASSUME NEW elapsed \in BOOLEAN, HandleSaveResponse(elapsed) PROVE loaded'
  BY <1>16, ZenonT(30) DEF HandleSaveResponse
<1>17. ASSUME PollRound PROVE loaded'
  BY <1>17, Zenon DEF PollRound
<1>18. ASSUME HandleDisconnected PROVE loaded'
  BY <1>18, Zenon DEF HandleDisconnected
<1>19. ASSUME NEW state \in {"dead", "hung"}, KitFails(state) PROVE loaded'
  BY <1>19, Zenon DEF KitFails
<1>20. ASSUME DisconnectedFromKit PROVE loaded'
  BY <1>20, Zenon DEF DisconnectedFromKit
<1>21. ASSUME NEW result \in UploadResults, HandleUploadToStorageResponse(result) PROVE loaded'
  BY <1>21, ZenonT(30) DEF HandleUploadToStorageResponse
<1>22. ASSUME LoadTimeout PROVE loaded'
  BY <1>22, Zenon DEF LoadTimeout
<1>23. ASSUME ExitLoop PROVE loaded'
  BY <1>23, Zenon DEF ExitLoop
<1>24. ASSUME TerminateChild PROVE loaded'
  BY <1>24, Zenon DEF TerminateChild
<1> QED
  BY <1>0, <1>1, <1>2, <1>3, <1>4, <1>5, <1>6, <1>7, <1>8, <1>9, <1>10, <1>11, <1>12, <1>13,
     <1>14, <1>15, <1>16, <1>17, <1>18, <1>19, <1>20, <1>21, <1>22, <1>23, <1>24, ZenonT(60) DEF Next

(* Every step keeps Fresh.                                                 *)
LEMMA FreshNext ==
    ASSUME TypeOK, Fresh, [Next]_vars
    PROVE  Fresh'
<1>1. CASE loaded
  BY <1>1, LoadedStays, Zenon DEF Fresh
<1>2. CASE ~loaded /\ UNCHANGED vars
  <2>1. Quiet /\ UNCHANGED <<sess, fromKit>>
    BY <1>2, Zenon DEF vars, stateVars, saveVars, kitVars, uploadVars, actVars, sessVars,
                       otherVars, Quiet
  <2> QED
    BY <2>1, FreshKept, FreshFrame
<1>3. CASE ~loaded /\ Next
  <2>1. /\ \A s \in Sessions : ~Edit(s) /\ ~ManualSave(s) /\ ~SwitchMode(s)
                               /\ ~HandleRenameFileCommand(s)
                               /\ ~ClientUpload(s, "file") /\ ~ClientUpload(s, "saveas")
        /\ \A result : ~HandleUploadToStorageResponse(result)
    BY <1>3, NeedLoaded, Zenon
  <2>2. ~HandleModifiedStatus /\ \A elapsed \in BOOLEAN : ~HandleSaveResponse(elapsed)
    BY <1>3, NoResultReceived, Zenon DEF HandleModifiedStatus, HandleSaveResponse
  <2>3. ASSUME NEW s \in Sessions, AddSession(s) PROVE Fresh'
    BY <1>3, <2>3, FreshAddSession, FreshFrame
  <2>4. ASSUME NEW s \in Sessions, OnDisconnect(s) PROVE Fresh'
    BY <1>3, <2>4, FreshOnDisconnect, FreshFrame
  <2>5. CASE HandleStatus
    BY <1>3, <2>5, FreshHandleStatus
  <2>6. ASSUME \/ \E s \in Sessions : \/ CreateNewClientSession(s) \/ CloseDocument(s)
                                      \/ RefreshForAll(s) \/ ResetAccessToken(s)
                                      \/ RemoveStaleSession(s)
               \/ RequestShutdown \/ HandleDisconnected \/ DisconnectedFromKit \/ LoadTimeout
               \/ ExitLoop \/ TerminateChild \/ \E state \in {"dead", "hung"} : KitFails(state)
               \/ PollRound
        PROVE  Fresh'
    BY <1>3, <2>6, FreshActions, FreshFrame, Zenon
  <2> QED
    BY <1>3, <2>1, <2>2, <2>3, <2>4, <2>5, <2>6, ZenonT(30) DEF Next
<1> QED
  BY <1>1, <1>2, <1>3

(* An upload that is checked may only mark the document.                   *)
LEMMA CheckingMarks ==
    ASSUME NEW s, NEW justSaved, NEW elapsed, NEW sv, NEW dk, NEW q,
           CheckAndUploadToStorage(s, justSaved, elapsed, sv, dk, q)
    PROVE  status' = status \/ status' = "Destroying"
<1>1. status' \in {status, "Destroying", MarkedToDestroyIf(unloadRequested /\ ClosedSessions # {})}
  BY ZenonT(30) DEF CheckAndUploadToStorage
<1> QED
  BY <1>1 DEF MarkedToDestroyIf

(* No step makes a document that is marked to destroy live again.          *)
LEMMA MarkedStays ==
    ASSUME TypeOK, Fresh, IsMarkedToDestroy, [Next]_vars
    PROVE  IsMarkedToDestroy'
<1> USE DEF IsMarkedToDestroy, stateVars, saveVars, kitVars, uploadVars, actVars, sessVars,
            modelVars, otherVars, MarkedToDestroyIf
<1>0. CASE UNCHANGED vars
  BY <1>0, Zenon DEF vars
<1>1. ASSUME NEW s \in Sessions, CreateNewClientSession(s) PROVE IsMarkedToDestroy'
  BY <1>1, Zenon DEF CreateNewClientSession
<1>2. ASSUME NEW s \in Sessions, AddSession(s) PROVE IsMarkedToDestroy'
  BY <1>2, ZenonT(30) DEF AddSession
<1>3. ASSUME NEW s \in Sessions, Edit(s) PROVE IsMarkedToDestroy'
  BY <1>3, Zenon DEF Edit
<1>4. ASSUME NEW s \in Sessions, ManualSave(s) PROVE IsMarkedToDestroy'
  BY <1>4, Zenon DEF ManualSave
<1>5. ASSUME NEW s \in Sessions, NEW kind \in {"file", "saveas"}, ClientUpload(s, kind)
      PROVE  IsMarkedToDestroy'
  BY <1>5, Zenon DEF ClientUpload
<1>6. ASSUME NEW s \in Sessions, HandleRenameFileCommand(s) PROVE IsMarkedToDestroy'
  BY <1>6, Zenon DEF HandleRenameFileCommand
<1>7. ASSUME NEW s \in Sessions, SwitchMode(s) PROVE IsMarkedToDestroy'
  BY <1>7, Zenon DEF SwitchMode
<1>8. ASSUME NEW s \in Sessions, CloseDocument(s) PROVE IsMarkedToDestroy'
  BY <1>8, Zenon DEF CloseDocument
<1>9. ASSUME NEW s \in Sessions, RefreshForAll(s) PROVE IsMarkedToDestroy'
  BY <1>9, Zenon DEF RefreshForAll
<1>10. ASSUME NEW s \in Sessions, ResetAccessToken(s) PROVE IsMarkedToDestroy'
  BY <1>10, Zenon DEF ResetAccessToken
<1>11. ASSUME NEW s \in Sessions, OnDisconnect(s) PROVE IsMarkedToDestroy'
  BY <1>11, ZenonT(30) DEF OnDisconnect
<1>12. ASSUME NEW s \in Sessions, RemoveStaleSession(s) PROVE IsMarkedToDestroy'
  BY <1>12, Zenon DEF RemoveStaleSession
<1>13. ASSUME RequestShutdown PROVE IsMarkedToDestroy'
  BY <1>13, Zenon DEF RequestShutdown
<1>14. ASSUME HandleStatus PROVE IsMarkedToDestroy'
  <2>1. status' = SetLoaded(Head(fromKit).s)
    BY <1>14, ZenonT(30) DEF HandleStatus
  <2>2. ~loaded => Attached = {}
    BY Zenon DEF Fresh
  <2> QED
    BY <2>1, <2>2 DEF SetLoaded
<1>15. ASSUME HandleModifiedStatus PROVE IsMarkedToDestroy'
  BY <1>15, ZenonT(30) DEF HandleModifiedStatus
<1>16. ASSUME NEW elapsed \in BOOLEAN, HandleSaveResponse(elapsed) PROVE IsMarkedToDestroy'
  <2>1. \/ UNCHANGED status
        \/ \E s, justSaved, sv, dk, q : CheckAndUploadToStorage(s, justSaved, elapsed, sv, dk, q)
    BY <1>16, ZenonT(30) DEF HandleSaveResponse
  <2> QED
    BY <2>1, CheckingMarks, Zenon
<1>17. ASSUME PollRound PROVE IsMarkedToDestroy'
  <2>1. \/ UNCHANGED status
        \/ \E s : CheckAndUploadToStorage(s, FALSE, TRUE, save, disk, fromKit)
    BY <1>17, ZenonT(30) DEF PollRound, PollNone, PollSave, AutoSaveAndStop, PollSaves,
                             PollUploads, StopBroker
  <2> QED
    BY <2>1, CheckingMarks, Zenon
<1>18. ASSUME HandleDisconnected PROVE IsMarkedToDestroy'
  BY <1>18, Zenon DEF HandleDisconnected
<1>19. ASSUME NEW state \in {"dead", "hung"}, KitFails(state) PROVE IsMarkedToDestroy'
  BY <1>19, Zenon DEF KitFails
<1>20. ASSUME DisconnectedFromKit PROVE IsMarkedToDestroy'
  BY <1>20, Zenon DEF DisconnectedFromKit
<1>21. ASSUME NEW result \in UploadResults, HandleUploadToStorageResponse(result)
       PROVE  IsMarkedToDestroy'
  BY <1>21, ZenonT(30) DEF HandleUploadToStorageResponse, UploadSucceeded, UploadFailed
<1>22. ASSUME LoadTimeout PROVE IsMarkedToDestroy'
  BY <1>22, Zenon DEF LoadTimeout
<1>23. ASSUME ExitLoop PROVE IsMarkedToDestroy'
  BY <1>23, Zenon DEF ExitLoop
<1>24. ASSUME TerminateChild PROVE IsMarkedToDestroy'
  BY <1>24, Zenon DEF TerminateChild
<1> QED
  BY <1>0, <1>1, <1>2, <1>3, <1>4, <1>5, <1>6, <1>7, <1>8, <1>9, <1>10, <1>11, <1>12, <1>13,
     <1>14, <1>15, <1>16, <1>17, <1>18, <1>19, <1>20, <1>21, <1>22, <1>23, <1>24, ZenonT(60) DEF Next

(* A document marked to destroy is never live again, although a "status:"  *)
(* of the Kit may still arrive: before the document is loaded it is marked *)
(* only once its last session is gone, and a view that has left does not   *)
(* load it.                                                                *)
THEOREM StatusSafety == Spec => StatusNeverRegresses
<1>1. TypeOK /\ Fresh /\ [Next]_vars => Fresh'
  BY FreshNext
<1>2. TypeOK /\ Fresh /\ [Next]_vars => [IsMarkedToDestroy => IsMarkedToDestroy']_vars
  BY MarkedStays
<1> QED
  BY <1>1, <1>2, FreshInit, TypeCorrect, PTL DEF Spec, StatusNeverRegresses
============================================================================
