-------------------------- MODULE DocBrokerStored --------------------------
(***************************************************************************)
(* Proof that a broker with nothing pending has every edit in storage, and *)
(* hears of the edits that only the Kit can tell of.  The invariant        *)
(* follows an edit from the Kit's document (KitInv), whose modification is *)
(* reported (ReportInv), through the files on disk (DiskInv) to storage    *)
(* (StoreInv).  Each action has one of the effects below on what the       *)
(* invariant mentions.                                                     *)
(***************************************************************************)
EXTENDS DocBrokerProofs

(* The messages of q of one type: there is none, or the last of them has a *)
(* certain argument.                                                       *)
None(q, type) == \A i \in DOMAIN q : q[i].type # type
Last(q, type, arg) ==
    \E i \in DOMAIN q :
        /\ q[i].type = type /\ q[i].arg = arg
        /\ \A j \in DOMAIN q : i < j => q[j].type # type
Same(q, r, type, arg) ==
    (None(r, type) <=> None(q, type)) /\ (Last(r, type, arg) <=> Last(q, type, arg))

(* The answers to saves: none, or the last of them reports a failure.      *)
NoAnswer(q) == None(q, "saved")
LastFailed(q) == Last(q, "saved", "failed")
SameAnswers(q, r) == (NoAnswer(r) <=> NoAnswer(q)) /\ (LastFailed(r) <=> LastFailed(q))
SameReports(q, r) == SameAnswers(q, r) /\ Same(q, r, "modified", "true")

(* The broker has heard, or is going to hear from q, that the document is  *)
(* modified.                                                               *)
Reported(q) == Last(q, "modified", "true") \/ (None(q, "modified") /\ isModified)

(* The file that the Kit wrote last.                                       *)
Newest(dk) ==
    IF Exists(dk.upload) THEN dk.upload
    ELSE IF Exists(dk.uploading) THEN dk.uploading ELSE dk.doc

(* Before the first session, there is nothing.                             *)
Unused ==
    status = "None" =>
        /\ Attached = {} /\ http = NoUpload
        /\ disk = [doc |-> NoFile, upload |-> NoFile, uploading |-> NoFile]
        /\ kit.saves = 0 /\ kit.ver = 0 /\ edits = 0 /\ store = 0

(* The Kit has every edit, unless it is gone and edits since the last save *)
(* request may not have reached it; what it has not saved came after that  *)
(* request, or that save has failed, when every save was answered.  Edits  *)
(* that no token tells of are at least in the Kit.                         *)
KitInv ==
    /\ kit.ver # edits => kit.state # "up" /\ (modifyAfter \/ untold \/ lostSave)
    /\ kit.modified /\ ~modifyAfter /\ ~untold /\ ~lostSave
          => LastFailed(fromKit) \/ (NoAnswer(fromKit) /\ save.failures > 0)
    /\ untold /\ kit.state = "up" => kit.modified

(* The Kit's modifications are reported.                                   *)
ReportInv == kit.modified /\ ~lostStatus => Reported(fromKit)

(* A file waits for the answer to its save; files are written in order;    *)
(* and the newest has what the Kit has saved.                              *)
DiskInv ==
    /\ Exists(disk.upload) => lostSave \/ ~NoAnswer(fromKit)
    /\ disk.doc \in {NoFile, [ver |-> 0, mtime |-> 0]}
    /\ Exists(disk.doc) => ~Exists(disk.upload) /\ ~Exists(disk.uploading)
    /\ disk.upload.mtime <= kit.saves /\ disk.uploading.mtime <= kit.saves
    /\ Exists(disk.upload) => disk.uploading.mtime < disk.upload.mtime
    /\ disk.upload.mtime = 0 => disk.upload.ver = 0
    /\ ~kit.modified => Newest(disk).ver = kit.ver

(* Storage never has a newer file than .uploading, nor is one on its way;  *)
(* and when it has that file, it has its contents, unless there was a      *)
(* conflict or uploads overlapped.                                         *)
StoreInv ==
    /\ Exists(disk.uploading) => uploaded <= disk.uploading.mtime
    /\ http.kind = "file" =>
          /\ Exists(disk.uploading)
          /\ uploaded <= http.file.mtime /\ http.file.mtime <= disk.uploading.mtime
          /\ http.file.mtime = disk.uploading.mtime => http.file.ver = disk.uploading.ver
    /\ ~Exists(disk.uploading) => uploaded \in {NoTime, 0}
    /\ ~overlapped /\ ~changed =>
          /\ Exists(disk.uploading) /\ disk.uploading.mtime = uploaded
                => store = disk.uploading.ver
          /\ ~Exists(disk.uploading) => store = 0

SInv == IInv /\ Unused /\ KitInv /\ ReportInv /\ DiskInv /\ StoreInv

----------------------------------------------------------------------------
(* The queue of the Kit's messages.                                        *)

(* Messages of other types change nothing of one type.                     *)
LEMMA OthersAppended ==
    ASSUME NEW type, NEW arg, NEW q \in Seq(Messages), NEW r \in Seq(Messages), None(r, type)
    PROVE  Same(q, q \o r, type, arg)
<1> DEFINE p == q \o r
<1>1. /\ DOMAIN q = 1..Len(q) /\ DOMAIN r = 1..Len(r) /\ DOMAIN p = 1..(Len(q) + Len(r))
      /\ Len(q) \in Nat /\ Len(r) \in Nat
  OBVIOUS
<1>2. \A i \in DOMAIN q : i \in DOMAIN p /\ p[i] = q[i]
  OBVIOUS
<1>3. \A i \in DOMAIN p : i > Len(q) => p[i].type # type
  <2> SUFFICES ASSUME NEW i \in DOMAIN p, i > Len(q) PROVE p[i].type # type
    OBVIOUS
  <2>1. i - Len(q) \in DOMAIN r /\ p[i] = r[i - Len(q)]
    BY <1>1
  <2> QED
    BY <2>1 DEF None
<1>4. \A i \in DOMAIN p : i \in DOMAIN q \/ i > Len(q)
  BY <1>1
<1> HIDE DEF p
<1>5. None(p, type) <=> None(q, type)
  BY <1>2, <1>3, <1>4 DEF None
<1>6. Last(q, type, arg) => Last(p, type, arg)
  BY <1>2, <1>3, <1>4, SMTT(30) DEF Last
<1>7. Last(p, type, arg) => Last(q, type, arg)
  BY <1>2, <1>3, <1>4, SMTT(30) DEF Last
<1> QED
  BY <1>5, <1>6, <1>7 DEF Same, p

(* Nor does it to take such a message from the queue.                      *)
LEMMA OtherTaken ==
    ASSUME NEW type, NEW arg, NEW q \in Seq(Messages), q # <<>>, Head(q).type # type
    PROVE  Same(q, Tail(q), type, arg)
<1> DEFINE p == Tail(q)
<1>1. /\ DOMAIN q = 1..Len(q) /\ DOMAIN p = 1..(Len(q) - 1)
      /\ Len(q) \in Nat
  OBVIOUS
<1>2. \A i \in DOMAIN p : i + 1 \in DOMAIN q /\ p[i] = q[i + 1]
  OBVIOUS
<1>3. \A i \in DOMAIN q : q[i].type = type => i - 1 \in DOMAIN p /\ q[i] = p[i - 1]
  <2> SUFFICES ASSUME NEW i \in DOMAIN q, q[i].type = type
               PROVE  i - 1 \in DOMAIN p /\ q[i] = p[i - 1]
    OBVIOUS
  <2>1. i # 1
    OBVIOUS
  <2> QED
    BY <1>1, <1>2, <2>1
<1>4. DOMAIN p \subseteq Int /\ DOMAIN q \subseteq Int
  BY <1>1
<1> HIDE DEF p
<1>5. None(p, type) <=> None(q, type)
  BY <1>2, <1>3 DEF None
<1>6. Last(q, type, arg) => Last(p, type, arg)
  <2> SUFFICES ASSUME NEW i \in DOMAIN q, q[i].type = type, q[i].arg = arg,
                      \A j \in DOMAIN q : i < j => q[j].type # type
               PROVE  Last(p, type, arg)
    BY DEF Last
  <2>1. i - 1 \in DOMAIN p /\ p[i - 1] = q[i]
    BY <1>3
  <2>2. \A j \in DOMAIN p : i - 1 < j => p[j].type # type
    BY <1>2, <1>4
  <2> QED
    BY <2>1, <2>2 DEF Last
<1>7. Last(p, type, arg) => Last(q, type, arg)
  <2> SUFFICES ASSUME NEW i \in DOMAIN p, p[i].type = type, p[i].arg = arg,
                      \A j \in DOMAIN p : i < j => p[j].type # type
               PROVE  Last(q, type, arg)
    BY DEF Last
  <2>1. i + 1 \in DOMAIN q /\ q[i + 1] = p[i]
    BY <1>2
  <2>2. \A j \in DOMAIN q : i + 1 < j => q[j].type # type
    BY <1>3, <1>4
  <2> QED
    BY <2>1, <2>2 DEF Last
<1> QED
  BY <1>5, <1>6, <1>7 DEF Same, p

(* A message is appended, and is the last of its type.                     *)
LEMMA OneAppended ==
    ASSUME NEW type, NEW arg, NEW q \in Seq(Messages), NEW m \in Messages, m.type = type
    PROVE  /\ ~None(Append(q, m), type)
           /\ m.arg = arg => Last(Append(q, m), type, arg)
<1> DEFINE p == Append(q, m)
           n == Len(q) + 1
<1>1. n \in DOMAIN p /\ p[n] = m /\ (\A j \in DOMAIN p : ~(n < j))
  OBVIOUS
<1> HIDE DEF p, n
<1> QED
  BY <1>1, SMTT(30) DEF None, Last, p

(* Of two messages, one is of the type.                                    *)
LEMMA TwoAppended ==
    ASSUME NEW type, NEW q \in Seq(Messages), NEW a \in Messages, NEW b \in Messages,
           a.type = type \/ b.type = type
    PROVE  ~None(q \o <<a, b>>, type)
<1> DEFINE p == q \o <<a, b>>
           n == Len(q) + 1
<1>1. n \in DOMAIN p /\ n + 1 \in DOMAIN p /\ p[n] = a /\ p[n + 1] = b
  OBVIOUS
<1> HIDE DEF p, n
<1> QED
  BY <1>1 DEF None, p

(* The message that is taken was the last of its type, or that remains.    *)
LEMMA OneTaken ==
    ASSUME NEW type, NEW arg, NEW q \in Seq(Messages), q # <<>>, Head(q).type = type
    PROVE  /\ ~None(q, type)
           /\ Last(q, type, arg) => \/ Last(Tail(q), type, arg)
                                    \/ None(Tail(q), type) /\ Head(q).arg = arg
<1> DEFINE p == Tail(q)
<1>1. /\ DOMAIN q = 1..Len(q) /\ DOMAIN p = 1..(Len(q) - 1)
      /\ Len(q) \in Nat /\ 1 \in DOMAIN q /\ Head(q) = q[1]
  OBVIOUS
<1>2. \A i \in DOMAIN p : i + 1 \in DOMAIN q /\ p[i] = q[i + 1]
  OBVIOUS
<1>3. \A i \in DOMAIN q : i # 1 => i - 1 \in DOMAIN p /\ q[i] = p[i - 1]
  BY <1>1, <1>2
<1>4. DOMAIN p \subseteq Int /\ DOMAIN q \subseteq Int /\ \A i \in DOMAIN p : 1 < i + 1
  BY <1>1
<1> HIDE DEF p
<1>5. ~None(q, type)
  BY <1>1 DEF None
<1>6. ASSUME NEW i \in DOMAIN q, q[i].type = type, q[i].arg = arg,
             \A j \in DOMAIN q : i < j => q[j].type # type
      PROVE  \/ Last(p, type, arg)
             \/ None(p, type) /\ Head(q).arg = arg
  <2>1. CASE i = 1
    <3>1. \A j \in DOMAIN p : p[j].type # type
      BY <1>2, <1>4, <1>6, <2>1
    <3> QED
      BY <1>1, <1>6, <2>1, <3>1 DEF None
  <2>2. CASE i # 1
    <3>1. i - 1 \in DOMAIN p /\ p[i - 1] = q[i]
      BY <1>3, <2>2
    <3>2. \A j \in DOMAIN p : i - 1 < j => p[j].type # type
      BY <1>2, <1>4, <1>6
    <3> QED
      BY <1>6, <3>1, <3>2 DEF Last
  <2> QED
    BY <2>1, <2>2
<1> QED
  BY <1>5, <1>6 DEF Last, p

(* The answers and the reports, when other messages are appended or taken. *)
LEMMA OthersChangeNothing ==
    /\ \A q \in Seq(Messages), r \in Seq(Messages) :
          /\ NoAnswer(r) => SameAnswers(q, q \o r)
          /\ NoAnswer(r) /\ None(r, "modified") => SameReports(q, q \o r)
    /\ \A q \in Seq(Messages) :
          /\ q # <<>> /\ Head(q).type # "saved" => SameAnswers(q, Tail(q))
          /\ q # <<>> /\ Head(q).type \notin {"saved", "modified"} => SameReports(q, Tail(q))
<1>1. \A q \in Seq(Messages), r \in Seq(Messages) :
        /\ NoAnswer(r) => SameAnswers(q, q \o r)
        /\ NoAnswer(r) /\ None(r, "modified") => SameReports(q, q \o r)
  BY OthersAppended, Zenon DEF SameReports, SameAnswers, Same, NoAnswer, LastFailed
<1>2. \A q \in Seq(Messages) :
        /\ q # <<>> /\ Head(q).type # "saved" => SameAnswers(q, Tail(q))
        /\ q # <<>> /\ Head(q).type \notin {"saved", "modified"} => SameReports(q, Tail(q))
  BY OtherTaken, Zenon DEF SameReports, SameAnswers, Same, NoAnswer, LastFailed
<1> QED
  BY <1>1, <1>2

(* The answers, when one is appended, alone or with another message, or    *)
(* taken.                                                                  *)
LEMMA AnswersChange ==
    /\ \A q \in Seq(Messages), m \in Messages :
          m.type = "saved" => /\ ~NoAnswer(Append(q, m))
                              /\ m.arg = "failed" => LastFailed(Append(q, m))
    /\ \A q \in Seq(Messages), a, b \in Messages :
          a.type = "saved" \/ b.type = "saved" => ~NoAnswer(q \o <<a, b>>)
    /\ \A q \in Seq(Messages) :
          q # <<>> /\ Head(q).type = "saved" =>
             /\ ~NoAnswer(q)
             /\ LastFailed(q) => \/ LastFailed(Tail(q))
                                 \/ NoAnswer(Tail(q)) /\ Head(q).arg = "failed"
<1>1. \A q \in Seq(Messages), m \in Messages :
        m.type = "saved" => /\ ~NoAnswer(Append(q, m))
                            /\ m.arg = "failed" => LastFailed(Append(q, m))
  BY OneAppended, Zenon DEF NoAnswer, LastFailed
<1>2. \A q \in Seq(Messages), a, b \in Messages :
        a.type = "saved" \/ b.type = "saved" => ~NoAnswer(q \o <<a, b>>)
  BY TwoAppended, Zenon DEF NoAnswer
<1>3. \A q \in Seq(Messages) :
        q # <<>> /\ Head(q).type = "saved" =>
           /\ ~NoAnswer(q)
           /\ LastFailed(q) => \/ LastFailed(Tail(q))
                               \/ NoAnswer(Tail(q)) /\ Head(q).arg = "failed"
  BY OneTaken, Zenon DEF NoAnswer, LastFailed
<1> QED
  BY <1>1, <1>2, <1>3

----------------------------------------------------------------------------
(* The effects of the actions.                                             *)

(* The Kit's document and its saves stay as they are; the Kit may fail.    *)
KitKept ==
    /\ kit'.ver = kit.ver /\ kit'.modified = kit.modified /\ kit'.saves = kit.saves
    /\ kit'.state = "up" => kit.state = "up"

(* An upload, if one starts, is of the .uploading file.                    *)
HttpStep ==
    /\ overlapped => overlapped'
    /\ \/ http' = http
       \/ http'.kind = "file" => Exists(disk'.uploading) /\ http'.file = disk'.uploading

(* What was reported stays so, unless a report is lost.                    *)
ReportKept == ~lostStatus' => ~lostStatus /\ (Reported(fromKit) => Reported(fromKit)')

(* Nothing is saved or stored.                                             *)
Calm ==
    /\ status' = "None" => status = "None" /\ Attached' = {} /\ http' = http
    /\ KitKept /\ HttpStep /\ SameAnswers(fromKit, fromKit') /\ ReportKept
    /\ save.failures > 0 => save'.failures > 0
    /\ UNCHANGED <<edits, modifyAfter, untold, lostSave, disk, store, uploaded, changed>>

(* An edit, of which the Kit may not hear; or input that is not forwarded. *)
Editing ==
    /\ status' # "None"
    /\ modifyAfter => modifyAfter'
    /\ untold => untold'
    /\ \/ /\ edits' = edits + 1 /\ (modifyAfter' \/ untold')
          /\ \/ kit.state = "up" /\ kit' = [kit EXCEPT !.ver = @ + 1, !.modified = TRUE]
             \/ kit.state # "up" /\ kit' = kit
       \/ edits' = edits /\ kit' = kit /\ untold' = untold
    /\ SameAnswers(fromKit, fromKit')
    /\ kit'.modified /\ ~lostStatus' => Reported(fromKit)'
    /\ UNCHANGED <<save, lostSave, disk, store, uploaded, changed, http, overlapped>>

(* A save request, of which the Kit may not hear.                          *)
Saving ==
    /\ status' # "None"
    /\ ~modifyAfter' /\ ~untold'
    /\ kit'.modified => ReportKept
    /\ \/ lostSave' /\ UNCHANGED kitVars
       \/ /\ kit.state = "up" /\ lostSave' = lostSave
          /\ ~NoAnswer(fromKit')
          /\ \/ /\ kit' = kit /\ (kit.modified => LastFailed(fromKit'))
                /\ disk' = [disk EXCEPT !.doc = NoFile,
                                        !.upload = IF Exists(disk.doc) THEN disk.doc ELSE @]
             \/ /\ kit' = [kit EXCEPT !.modified = FALSE, !.saves = @ + 1]
                /\ disk' = [disk EXCEPT !.doc = NoFile,
                                        !.upload = [ver |-> kit.ver, mtime |-> kit.saves + 1]]
    /\ UNCHANGED <<edits, store, uploaded, changed, http, overlapped>>

(* The answer to a save is handled.                                        *)
Answered ==
    /\ status' # "None"
    /\ KitKept /\ HttpStep /\ ReportKept
    /\ LastFailed(fromKit) => LastFailed(fromKit') \/ (NoAnswer(fromKit') /\ save'.failures > 0)
    /\ ~NoAnswer(fromKit)
    /\ disk' = IF Exists(disk.upload)
               THEN [disk EXCEPT !.uploading = disk.upload, !.upload = NoFile]
               ELSE disk
    /\ UNCHANGED <<edits, modifyAfter, untold, lostSave, store, uploaded, changed>>

(* The answer to a save finds no session.                                  *)
AnswerLost ==
    /\ lostSave' /\ ReportKept
    /\ UNCHANGED <<status, sess, kit, http, overlapped, disk, edits, modifyAfter, untold, store,
                   uploaded, changed>>

(* The document is downloaded.                                             *)
Downloaded ==
    /\ status = "None" /\ status' # "None"
    /\ disk' = [disk EXCEPT !.doc = [ver |-> 0, mtime |-> 0]]
    /\ uploaded' = 0
    /\ SameAnswers(fromKit, fromKit') /\ ReportKept
    /\ save'.failures = save.failures
    /\ UNCHANGED <<kit, http, overlapped, edits, modifyAfter, untold, lostSave, store, changed>>

(* Someone else has changed the document in storage.                       *)
Conflicting ==
    /\ status' # "None" /\ changed'
    /\ SameAnswers(fromKit, fromKit') /\ ReportKept
    /\ UNCHANGED <<save, kit, http, overlapped, disk, edits, modifyAfter, untold, lostSave,
                   uploaded>>

(* Storage answers.                                                        *)
Stored ==
    /\ status' # "None"
    /\ HttpStep
    /\ http # NoUpload
    /\ \/ /\ http.kind = "file" => store' = http.file.ver /\ uploaded' = http.file.mtime
          /\ http.kind # "file" => UNCHANGED <<store, uploaded>>
          /\ ~overlapped /\ http.kind # "file" => changed' = changed
       \/ /\ uploaded' = uploaded
          /\ \/ store' = store
             \/ store' = http.file.ver /\ http.kind = "file"
             \/ changed'
          /\ changed => changed'
    /\ SameAnswers(fromKit, fromKit') /\ ReportKept
    /\ save'.failures = save.failures
    /\ UNCHANGED <<kit, disk, edits, modifyAfter, untold, lostSave>>

(* A report that is kept is there for what the Kit still has to save.      *)
LEMMA KeepsReport ==
    ASSUME ReportInv, ReportKept, kit'.modified => kit.modified
    PROVE  ReportInv'
  BY Zenon DEF ReportInv, ReportKept

(* A step with none of the effects on saving and storing.                  *)
LEMMA CalmStep ==
    ASSUME SInv, IInv', Calm
    PROVE  SInv'
<1>0. TypeOK
  BY DEF SInv, IInv
<1>1. Unused'
  BY SMTT(30) DEF SInv, Unused, Calm, KitKept
<1>2. KitInv'
  BY SMTT(30) DEF SInv, KitInv, Calm, KitKept, SameAnswers
<1>3. DiskInv'
  BY SMTT(30) DEF SInv, DiskInv, Calm, KitKept, SameAnswers
<1>4. StoreInv'
  <2>1. uploaded \in Int /\ disk.uploading.mtime \in Int
    BY <1>0 DEF TypeOK, ModelTypeOK, KitTypeOK, DiskType, Files, Times, NoTime
  <2> QED
    BY <2>1, SMTT(30) DEF SInv, StoreInv, Calm, HttpStep
<1>5. ReportInv'
  BY KeepsReport, Zenon DEF SInv, Calm, KitKept
<1> QED
  BY <1>1, <1>2, <1>3, <1>4, <1>5 DEF SInv

(* Files and saves have numbers that can be compared.                      *)
LEMMA Numbers ==
    ASSUME TypeOK
    PROVE  /\ disk \in DiskType /\ kit \in KitType /\ http \in HttpType
           /\ disk.upload.mtime \in Int /\ disk.upload.mtime >= NoTime
           /\ disk.uploading.mtime \in Int /\ disk.uploading.mtime >= NoTime
           /\ http.file.mtime \in Int
           /\ uploaded \in Int /\ uploaded >= NoTime
           /\ kit.saves \in Nat /\ kit.ver \in Nat /\ edits \in Nat
           /\ save.failures \in Nat /\ NoTime \in Int
<1>1. /\ disk \in DiskType /\ kit \in KitType /\ http \in HttpType /\ uploaded \in Times
      /\ edits \in 0..MaxEdits /\ save \in SaveType
  BY DEF TypeOK, KitTypeOK, UploadTypeOK, ModelTypeOK, SaveTypeOK
<1> QED
  BY <1>1, ConstantsAssumption DEF DiskType, KitType, HttpType, SaveType, Files, Times, NoTime

(* An edit: the broker knows that it is not saved.                         *)
LEMMA EditingStep ==
    ASSUME SInv, IInv', Editing
    PROVE  SInv'
<1>0. TypeOK
  BY DEF SInv, IInv
<1>1. Unused'
  BY DEF Unused, Editing
<1>2. /\ kit'.ver # edits' => kit'.state # "up"
      /\ kit'.saves = kit.saves
      /\ kit'.modified \/ (kit'.modified = kit.modified /\ kit'.ver = kit.ver)
  <2>1. kit \in KitType /\ kit.ver \in Nat /\ edits \in Nat
    BY <1>0, Numbers
  <2>2. kit.ver # edits => kit.state # "up"
    BY DEF SInv, KitInv
  <2>3. CASE /\ edits' = edits + 1 /\ kit.state = "up"
             /\ kit' = [kit EXCEPT !.ver = @ + 1, !.modified = TRUE]
    BY <2>1, <2>2, <2>3, SMTT(30) DEF KitType
  <2> QED
    BY <2>1, <2>2, <2>3 DEF Editing
<1>3. KitInv'
  <2>1. kit'.ver # edits' => modifyAfter' \/ untold' \/ lostSave'
    BY <1>2, SMTT(30) DEF SInv, KitInv, Editing
  <2>2. untold' /\ kit'.state = "up" => kit'.modified
    <3>1. untold /\ kit.state = "up" => kit.modified
      BY DEF SInv, KitInv
    <3>2. CASE kit' = [kit EXCEPT !.ver = @ + 1, !.modified = TRUE]
      BY <1>0, <3>2, Numbers, SMTT(30) DEF KitType
    <3>3. CASE kit' = kit /\ (kit.state # "up" \/ untold' = untold)
      BY <3>1, <3>3, Zenon
    <3> QED
      BY <3>2, <3>3, Zenon DEF Editing
  <2>3. ASSUME kit'.modified, ~modifyAfter', ~untold', ~lostSave'
        PROVE  LastFailed(fromKit') \/ (NoAnswer(fromKit') /\ save'.failures > 0)
    <3>1. kit' = kit /\ ~modifyAfter /\ ~untold /\ ~lostSave /\ save' = save
      BY <2>3, SMTT(30) DEF Editing
    <3>2. LastFailed(fromKit) \/ (NoAnswer(fromKit) /\ save.failures > 0)
      BY <2>3, <3>1, Zenon DEF SInv, KitInv
    <3>3. SameAnswers(fromKit, fromKit')
      BY DEF Editing
    <3> QED
      BY <3>1, <3>2, <3>3, Zenon DEF SameAnswers
  <2> QED
    BY <1>2, <2>1, <2>2, <2>3, Zenon DEF KitInv
<1>4. DiskInv'
  BY <1>2, SMTT(30) DEF SInv, DiskInv, Editing, SameAnswers
<1>5. StoreInv'
  BY SMTT(30) DEF SInv, StoreInv, Editing
<1>6. ReportInv'
  BY Zenon DEF ReportInv, Editing
<1> QED
  BY <1>1, <1>3, <1>4, <1>5, <1>6 DEF SInv

(* A save: the newest file has what the Kit saved, or the answer to the    *)
(* save will report a failure, or there will be no answer.                 *)
LEMMA SavingSInv ==
    ASSUME SInv, IInv', Saving
    PROVE  SInv'
<1>0. TypeOK
  BY DEF SInv, IInv
<1>1. Unused'
  BY DEF Unused, Saving
<1>5. ReportInv'
  <2>1. kit'.modified => kit.modified
    <3>1. CASE kit' = [kit EXCEPT !.modified = FALSE, !.saves = @ + 1]
      BY <1>0, <3>1, Numbers, SMTT(30) DEF KitType
    <3>2. CASE kit' = kit
      BY <3>2, Zenon
    <3> QED
      BY <3>1, <3>2, Zenon DEF Saving, kitVars
  <2>2. CASE kit'.modified
    BY <2>1, <2>2, KeepsReport, Zenon DEF SInv, Saving
  <2> QED
    BY <2>2 DEF ReportInv
<1> DEFINE Kept == kit' = kit /\ (kit.modified => LastFailed(fromKit'))
                   /\ disk' = [disk EXCEPT !.doc = NoFile,
                                           !.upload = IF Exists(disk.doc) THEN disk.doc ELSE @]
           Wrote == kit' = [kit EXCEPT !.modified = FALSE, !.saves = @ + 1]
                   /\ disk' = [disk EXCEPT !.doc = NoFile,
                                           !.upload = [ver |-> kit.ver, mtime |-> kit.saves + 1]]
<1>2. CASE lostSave' /\ UNCHANGED kitVars
  <2>1. KitInv'
    BY <1>2, SMTT(30) DEF SInv, KitInv, Saving, kitVars
  <2>2. DiskInv' /\ StoreInv'
    BY <1>2, SMTT(30) DEF SInv, DiskInv, StoreInv, Saving, kitVars
  <2> QED
    BY <1>1, <1>5, <2>1, <2>2 DEF SInv
<1>3. CASE kit.state = "up" /\ lostSave' = lostSave /\ ~NoAnswer(fromKit') /\ Kept
  <2>1. KitInv'
    BY <1>3, SMTT(30) DEF SInv, KitInv, Saving
  <2>2. /\ disk'.doc = NoFile /\ disk'.uploading = disk.uploading
        /\ disk'.upload = IF Exists(disk.doc) THEN disk.doc ELSE disk.upload
    BY <1>0, <1>3, Numbers, SMTT(30) DEF DiskType
  <2>3. DiskInv'
    BY <1>0, <1>3, <2>2, Numbers, SMTT(30) DEF SInv, DiskInv, Newest, Exists, NoFile, NoTime
  <2>4. StoreInv'
    BY <2>2, SMTT(30) DEF SInv, StoreInv, Saving
  <2> QED
    BY <1>1, <1>5, <2>1, <2>3, <2>4 DEF SInv
<1>4. CASE kit.state = "up" /\ lostSave' = lostSave /\ ~NoAnswer(fromKit') /\ Wrote
  <2>1. /\ disk'.doc = NoFile /\ disk'.uploading = disk.uploading
        /\ disk'.upload = [ver |-> kit.ver, mtime |-> kit.saves + 1]
        /\ kit'.ver = kit.ver /\ kit'.state = kit.state /\ kit'.saves = kit.saves + 1
        /\ kit'.modified = FALSE
    BY <1>0, <1>4, Numbers, SMTT(30) DEF DiskType, KitType
  <2>2. KitInv'
    <3>1. kit.ver = edits
      BY <1>4 DEF SInv, KitInv
    <3> QED
      BY <2>1, <3>1 DEF KitInv, Saving
  <2>3. DiskInv'
    BY <1>0, <1>4, <2>1, Numbers, SMTT(30) DEF SInv, DiskInv, Newest, Exists, NoFile, NoTime
  <2>4. StoreInv'
    BY <2>1, SMTT(30) DEF SInv, StoreInv, Saving
  <2> QED
    BY <1>1, <1>5, <2>2, <2>3, <2>4 DEF SInv
<1> QED
  BY <1>2, <1>3, <1>4 DEF Saving

(* The answer to a save: the file becomes the one to upload.               *)
LEMMA AnsweredStep ==
    ASSUME SInv, IInv', Answered
    PROVE  SInv'
<1>0. TypeOK
  BY DEF SInv, IInv
<1>1. Unused'
  BY DEF Unused, Answered
<1>2. KitInv' /\ ReportInv'
  <2>1. ReportInv'
    BY KeepsReport, Zenon DEF SInv, Answered, KitKept
  <2> QED
    BY <2>1, SMTT(30) DEF SInv, KitInv, Answered, KitKept
<1>3. CASE ~Exists(disk.upload)
  <2>1. disk' = disk
    BY <1>3 DEF Answered
  <2>2. DiskInv'
    BY <1>3, <2>1, SMTT(30) DEF SInv, DiskInv, Answered, KitKept
  <2>3. StoreInv'
    <3>1. uploaded \in Int /\ disk.uploading.mtime \in Int
      BY <1>0, Numbers
    <3>2. HttpStep /\ UNCHANGED <<store, uploaded, changed>>
      BY DEF Answered
    <3> QED
      BY <2>1, <3>1, <3>2, SMTT(30) DEF SInv, StoreInv, HttpStep
  <2> QED
    BY <1>1, <1>2, <2>2, <2>3 DEF SInv
<1>4. CASE Exists(disk.upload)
  <2>1. disk'.doc = disk.doc /\ disk'.upload = NoFile /\ disk'.uploading = disk.upload
    BY <1>0, <1>4, Numbers, SMTT(30) DEF Answered, DiskType
  <2>2. DiskInv'
    BY <1>0, <1>4, <2>1, Numbers, SMTT(30)
       DEF SInv, DiskInv, Answered, KitKept, Newest, Exists, NoFile, NoTime
  <2>3. /\ Exists(disk'.uploading) /\ uploaded' <= disk'.uploading.mtime
        /\ http.kind = "file" => http.file.mtime < disk'.uploading.mtime
    BY <1>0, <1>4, <2>1, Numbers, SMTT(30)
       DEF SInv, DiskInv, StoreInv, Answered, Exists, NoTime
  <2>4. http'.kind = "file" =>
          /\ Exists(disk'.uploading)
          /\ uploaded' <= http'.file.mtime /\ http'.file.mtime <= disk'.uploading.mtime
          /\ http'.file.mtime = disk'.uploading.mtime => http'.file.ver = disk'.uploading.ver
    BY <1>0, <2>1, <2>3, Numbers, SMTT(30) DEF SInv, StoreInv, Answered, HttpStep
  <2>5. ASSUME ~overlapped', ~changed', disk'.uploading.mtime = uploaded'
        PROVE  store' = disk'.uploading.ver
    <3>1. ~Exists(disk.uploading)
      BY <1>0, <1>4, <2>1, <2>5, Numbers, SMTT(30) DEF SInv, DiskInv, StoreInv, Answered
    <3>2. store = 0 /\ disk.upload.ver = 0
      BY <1>4, <2>1, <2>5, <3>1, SMTT(30) DEF SInv, DiskInv, StoreInv, Answered, HttpStep, Exists
    <3> QED
      BY <2>1, <3>2 DEF Answered
  <2>6. StoreInv'
    BY <2>3, <2>4, <2>5 DEF StoreInv
  <2> QED
    BY <1>1, <1>2, <2>2, <2>6 DEF SInv
<1> QED
  BY <1>3, <1>4

(* The answer to a save that is dropped.                                   *)
LEMMA AnswerLostStep ==
    ASSUME SInv, IInv', AnswerLost
    PROVE  SInv'
<1>1. Unused'
  BY DEF SInv, Unused, AnswerLost, Attached
<1>2. KitInv' /\ ReportInv'
  <2>1. ReportInv'
    BY KeepsReport, Zenon DEF SInv, AnswerLost
  <2> QED
    BY <2>1, SMTT(30) DEF SInv, KitInv, AnswerLost
<1>3. DiskInv' /\ StoreInv'
  BY Zenon DEF SInv, DiskInv, StoreInv, AnswerLost
<1> QED
  BY <1>1, <1>2, <1>3 DEF SInv

(* The download of the document, which makes what is on disk what is in    *)
(* storage.                                                                *)
LEMMA DownloadedStep ==
    ASSUME SInv, IInv', Downloaded
    PROVE  SInv'
<1>0. TypeOK
  BY DEF SInv, IInv
<1>1. Unused'
  BY DEF Unused, Downloaded
<1>2. KitInv' /\ ReportInv'
  <2>1. ReportInv'
    BY KeepsReport, Zenon DEF SInv, Downloaded
  <2> QED
    BY <2>1, SMTT(30) DEF SInv, KitInv, Downloaded, SameAnswers
<1>3. /\ disk' = [doc |-> [ver |-> 0, mtime |-> 0], upload |-> NoFile, uploading |-> NoFile]
      /\ kit.saves = 0 /\ kit.ver = 0 /\ store = 0 /\ http = NoUpload
  BY SMTT(30) DEF SInv, Unused, Downloaded
<1>4. DiskInv'
  BY <1>3, SMTT(30) DEF DiskInv, Downloaded, Newest, Exists, NoFile, NoTime
<1>5. StoreInv'
  BY <1>3, SMTT(30) DEF StoreInv, Downloaded, Exists, NoFile, NoTime, NoUpload
<1> QED
  BY <1>1, <1>2, <1>4, <1>5 DEF SInv

(* A conflict with storage.                                                *)
LEMMA ConflictingStep ==
    ASSUME SInv, IInv', Conflicting
    PROVE  SInv'
<1>1. Unused'
  BY DEF Unused, Conflicting
<1>2. KitInv' /\ ReportInv'
  <2>1. ReportInv'
    BY KeepsReport, Zenon DEF SInv, Conflicting
  <2> QED
    BY <2>1, SMTT(30) DEF SInv, KitInv, Conflicting, SameAnswers
<1>3. DiskInv'
  BY Zenon DEF SInv, DiskInv, Conflicting, SameAnswers
<1>4. StoreInv'
  BY Zenon DEF SInv, StoreInv, Conflicting
<1> QED
  BY <1>1, <1>2, <1>3, <1>4 DEF SInv

(* Storage answers: if it has the file with the time of .uploading then it *)
(* has that file, even if it reported a failure.                           *)
LEMMA StoredStep ==
    ASSUME SInv, IInv', Stored
    PROVE  SInv'
<1>0. TypeOK
  BY DEF SInv, IInv
<1>1. Unused'
  BY DEF Unused, Stored
<1>2. KitInv' /\ ReportInv'
  <2>1. ReportInv'
    BY KeepsReport, Zenon DEF SInv, Stored
  <2> QED
    BY <2>1, SMTT(30) DEF SInv, KitInv, Stored, SameAnswers
<1>3. DiskInv'
  BY Zenon DEF SInv, DiskInv, Stored, SameAnswers
<1>4. /\ Exists(disk.uploading) => uploaded' <= disk.uploading.mtime
      /\ http.kind = "file" => Exists(disk.uploading) /\ uploaded' <= http.file.mtime
      /\ ~Exists(disk.uploading) => uploaded' \in {NoTime, 0}
  BY <1>0, Numbers, SMTT(30) DEF SInv, StoreInv, Stored
<1>5. http'.kind = "file" =>
          /\ Exists(disk.uploading)
          /\ uploaded' <= http'.file.mtime /\ http'.file.mtime <= disk.uploading.mtime
          /\ http'.file.mtime = disk.uploading.mtime => http'.file.ver = disk.uploading.ver
  BY <1>0, <1>4, Numbers, SMTT(30) DEF SInv, StoreInv, Stored, HttpStep
<1>6. ASSUME ~overlapped', ~changed', Exists(disk.uploading), disk.uploading.mtime = uploaded'
      PROVE  store' = disk.uploading.ver
  <2>1. CASE http.kind = "file" /\ store' = http.file.ver
    BY <1>0, <1>4, <1>6, <2>1, Numbers, SMTT(30) DEF SInv, StoreInv, Stored
  <2>2. CASE store' = store /\ uploaded' = uploaded /\ ~changed
    BY <1>6, <2>2, Zenon DEF SInv, StoreInv, Stored, HttpStep
  <2> QED
    BY <1>6, <2>1, <2>2, SMTT(30) DEF Stored, HttpStep
<1>7. ASSUME ~overlapped', ~changed', ~Exists(disk.uploading)
      PROVE  store' = 0
  BY <1>7, SMTT(30) DEF SInv, StoreInv, Stored, HttpStep
<1>8. StoreInv'
  <2>1. disk' = disk
    BY DEF Stored
  <2> QED
    BY <1>4, <1>5, <1>6, <1>7, <2>1, Zenon DEF StoreInv
<1> QED
  BY <1>1, <1>2, <1>3, <1>8 DEF SInv

----------------------------------------------------------------------------
(* The effects of the operators that the actions are made of.              *)

(* What is appended to the queue by a Kit that answers no save.            *)
LEMMA RepliesAnswerNothing ==
    ASSUME NEW kind \in {"status", "disconnected"}, NEW views
    PROVE  NoAnswer(KitReplies(kind, views)) /\ None(KitReplies(kind, views), "modified")
  BY SMTT(30) DEF NoAnswer, None, KitReplies

(* Sessions that are disconnected change no answer and no report.          *)
LEMMA DisconnectingAnswersNothing ==
    ASSUME TypeOK, NEW S \in SUBSET Sessions, NEW q \in Seq(Messages), DisconnectSessions(S, q)
    PROVE  SameReports(q, fromKit')
<1> DEFINE views == {s \in S : sess[s] \in {"loading", "live"}}
<1>1. PICK order \in [1..Cardinality(views) -> views] :
         fromKit' = q \o KitReplies("disconnected", order)
  BY Zenon DEF DisconnectSessions
<1>3. order \in Seq(Sessions)
  <2>1. views \in SUBSET Sessions
    OBVIOUS
  <2> HIDE DEF views
  <2> QED
    BY <1>1, <2>1, OrderIsSequence
<1>4. KitReplies("disconnected", order) \in Seq(Messages)
  BY <1>3, KitRepliesTyped
<1>5. /\ NoAnswer(KitReplies("disconnected", order))
      /\ None(KitReplies("disconnected", order), "modified")
  BY RepliesAnswerNothing
<1> QED
  BY <1>1, <1>4, <1>5, OthersChangeNothing, Zenon

(* Without a new report, what was reported stays so.                       *)
LEMMA SameReport ==
    ASSUME SameReports(fromKit, fromKit'), UNCHANGED <<isModified, lostStatus>>
    PROVE  ReportKept /\ SameAnswers(fromKit, fromKit')
  BY Zenon DEF SameReports, Same, ReportKept, Reported

(* The queue and the flag are as they were.                                *)
LEMMA NoReport ==
    ASSUME UNCHANGED <<fromKit, isModified, lostStatus>>
    PROVE  ReportKept /\ SameReports(fromKit, fromKit') /\ SameAnswers(fromKit, fromKit')
  BY Zenon DEF SameReports, SameAnswers, Same, ReportKept, Reported

(* The sessions that handlers choose are attached.                         *)
LEMMA ChosenAttached ==
    WriteableSession \subseteq Attached /\ SavingSession \subseteq Attached
<1>1. WriteableSession \subseteq Attached
  BY DEF WriteableSession
<1> QED
  BY <1>1 DEF SavingSession

(* sendUnoSave() saves, if the Kit hears of it.                            *)
LEMMA SendingSaves ==
    ASSUME SInv, NEW s \in Attached, NEW d \in BOOLEAN, NEW act, SendUnoSave(s, d, act),
           status' # "None",
           UNCHANGED <<edits, store, uploaded, changed, http, overlapped, isModified, lostStatus>>
    PROVE  Saving
<1> DEFINE Saved(result) == [type |-> "saved", s |-> s, arg |-> result]
           Renamed(doc) == [disk EXCEPT !.doc = NoFile,
                                        !.upload = IF Exists(doc) THEN doc ELSE @]
<1>0. TypeOK /\ fromKit \in Seq(Messages) /\ s \in Sessions
  BY DEF SInv, IInv, TypeOK, KitTypeOK, Attached
<1>1. ~modifyAfter' /\ ~untold' /\ lostSave' = (lostSave \/ ~KitHas(s)) /\ KitSave(s, d)
  BY DEF SendUnoSave
<1>2. CASE ~KitHas(s)
  <2>1. lostSave' /\ UNCHANGED kitVars
    BY <1>1, <1>2, Zenon DEF KitSave
  <2>2. ReportKept
    BY <2>1, NoReport DEF kitVars
  <2> QED
    BY <1>1, <2>1, <2>2, Zenon DEF Saving
<1>3. CASE KitHas(s)
  <2>1. lostSave' = lostSave /\ kit.state = "up"
    BY <1>0, <1>1, <1>3 DEF KitHas, TypeOK, SaveTypeOK
  <2>2. /\ Saved("success") \in Messages /\ Saved("unmodified") \in Messages
        /\ Saved("failed") \in Messages /\ ModifiedStatus("false") \in Messages
    BY <1>0, Zenon DEF Messages, ModifiedStatus, SessionOrNone
  <2>3. CASE /\ ~kit.modified /\ kit' = kit
             /\ disk' = Renamed(disk.doc)
             /\ fromKit' = Append(fromKit, Saved("unmodified"))
    <3>1. ~NoAnswer(fromKit')
      BY <1>0, <2>2, <2>3, AnswersChange
    <3> QED
      BY <1>1, <2>1, <2>3, <3>1, SMTT(30) DEF Saving
  <2>4. CASE /\ kit' = kit
             /\ disk' = Renamed(disk.doc)
             /\ fromKit' = Append(fromKit, Saved("failed"))
    <3>1. ~NoAnswer(fromKit') /\ LastFailed(fromKit')
      BY <1>0, <2>2, <2>4, AnswersChange
    <3>2. ReportKept
      <4> DEFINE r == <<Saved("failed")>>
      <4>1. r \in Seq(Messages) /\ None(r, "modified") /\ fromKit' = fromKit \o r
        BY <1>0, <2>2, <2>4 DEF None
      <4> HIDE DEF r
      <4>2. Same(fromKit, fromKit', "modified", "true")
        BY <1>0, <4>1, OthersAppended, Zenon
      <4> QED
        BY <4>2, Zenon DEF Same, ReportKept, Reported
    <3> QED
      BY <1>1, <2>1, <2>4, <3>1, <3>2, SMTT(30) DEF Saving
  <2>5. CASE /\ kit' = [kit EXCEPT !.modified = FALSE, !.saves = @ + 1]
             /\ disk' = Renamed([ver |-> kit.ver, mtime |-> kit.saves + 1])
             /\ \/ fromKit' = fromKit \o <<Saved("success"), ModifiedStatus("false")>>
                \/ fromKit' = fromKit \o <<ModifiedStatus("false"), Saved("success")>>
    <3>1. ~NoAnswer(fromKit')
      BY <1>0, <2>2, <2>5, AnswersChange, Zenon
    <3>2. Exists([ver |-> kit.ver, mtime |-> kit.saves + 1])
      BY <1>0, Numbers DEF Exists, NoTime
    <3> QED
      BY <1>1, <2>1, <2>5, <3>1, <3>2, SMTT(30) DEF Saving
  <2>6. \/ /\ ~kit.modified /\ kit' = kit
           /\ disk' = Renamed(disk.doc)
           /\ fromKit' = Append(fromKit, Saved("unmodified"))
        \/ /\ kit' = kit
           /\ disk' = Renamed(disk.doc)
           /\ fromKit' = Append(fromKit, Saved("failed"))
        \/ /\ kit' = [kit EXCEPT !.modified = FALSE, !.saves = @ + 1]
           /\ disk' = Renamed([ver |-> kit.ver, mtime |-> kit.saves + 1])
           /\ \/ fromKit' = fromKit \o <<Saved("success"), ModifiedStatus("false")>>
              \/ fromKit' = fromKit \o <<ModifiedStatus("false"), Saved("success")>>
    BY <1>1, <1>3, ZenonT(30) DEF KitSave
  <2> QED
    BY <2>3, <2>4, <2>5, <2>6, Zenon
<1> QED
  BY <1>2, <1>3

(* autoSave().                                                             *)
LEMMA AutoSaveSaves ==
    ASSUME SInv, AutoSave, status' \in {status, "Destroying"},
           UNCHANGED <<edits, store, uploaded, changed, http, overlapped, isModified, lostStatus>>
    PROVE  Saving
<1>1. PICK s \in SavingSession : SendUnoSave(s, TRUE, activity)
  BY Zenon DEF AutoSave
<1>2. s \in Attached
  BY ChosenAttached
<1>3. status' # "None"
  BY <1>2 DEF SInv, Unused
<1> QED
  BY <1>1, <1>2, <1>3, SendingSaves, Zenon

(* What an attempt to upload the files of c makes of the upload in flight. *)
HttpFrom(c) ==
    /\ overlapped => overlapped'
    /\ \/ http' = c.http
       \/ http'.kind = "file" => Exists(c.disk.uploading) /\ http'.file = c.disk.uploading

(* uploadToStorageInternal() and what calls it upload the .uploading file. *)
LEMMA UploadsUploading ==
    ASSUME NEW c, NEW s, NEW kind, NEW force, NEW elapsed,
           \/ NoUploadStarts(c) \/ RenameInStorage(c)
           \/ UploadToStorageInternal(s, kind, force, c) \/ UploadToStorage(s, force, elapsed, c)
    PROVE  HttpFrom(c)
<1>1. ASSUME NoUploadStarts(c)
      PROVE  HttpFrom(c)
  BY <1>1 DEF NoUploadStarts, HttpFrom
<1>2. ASSUME NEW t, NEW k, NEW f, UploadToStorageInternal(t, k, f, c)
      PROVE  HttpFrom(c)
  <2>1. \/ NoUploadStarts(c)
        \/ http' = c.http /\ (overlapped => overlapped')
        \/ /\ ~(k # "saveas" /\ ~Exists(c.disk.uploading))
           /\ http' = [kind |-> k, file |-> c.disk.uploading]
           /\ overlapped' = overlapped
    BY <1>2, ZenonT(30) DEF UploadToStorageInternal, UploadLocalFileToStorageAsync
  <2> QED
    BY <1>1, <2>1, SMTT(30) DEF HttpFrom
<1>3. CASE RenameInStorage(c)
  <2>1. \/ UploadToStorageInternal(rename, "rename", FALSE, c)
        \/ http' = c.http /\ overlapped' = overlapped
    BY <1>3, ZenonT(30) DEF RenameInStorage
  <2>2. CASE http' = c.http /\ overlapped' = overlapped
    BY <2>2, Zenon DEF HttpFrom
  <2> QED
    BY <1>2, <2>1, <2>2, Zenon
<1>4. CASE UploadToStorage(s, force, elapsed, c)
  <2>1. UploadToStorageInternal(s, "file", force, c) \/ NoUploadStarts(c)
    BY <1>4, ZenonT(30) DEF UploadToStorage
  <2> QED
    BY <1>1, <1>2, <2>1
<1> QED
  BY <1>1, <1>2, <1>3, <1>4

(* checkAndUploadToStorage() uploads at most the .uploading file, and      *)
(* leaves the answers q to come as they are.                               *)
LEMMA CheckingUploads ==
    ASSUME TypeOK, NEW s, NEW justSaved, NEW elapsed, NEW sv, NEW dk,
           NEW q \in Seq(Messages),
           CheckAndUploadToStorage(s, justSaved, elapsed, sv, dk, q)
    PROVE  /\ overlapped => overlapped'
           /\ \/ http' = http
              \/ http'.kind = "file" => Exists(dk.uploading) /\ http'.file = dk.uploading
           /\ SameReports(q, fromKit')
           /\ status' \in {status, "Destroying"}
<1> DEFINE act == IF activity = "Save" THEN "None" ELSE activity
           c == Context(sv, dk, http, upload, act)
           d == [c EXCEPT !.activity = "None"]
<1>1. \/ RenameInStorage(c) \/ NoUploadStarts(d) \/ NoUploadStarts(c)
      \/ UploadToStorage(s, FALSE, elapsed, c)
  BY ZenonT(30) DEF CheckAndUploadToStorage
<1>2. HttpFrom(c) \/ HttpFrom(d)
  <2> HIDE DEF c, d
  <2> QED
    BY <1>1, UploadsUploading, Zenon
<1>3. /\ c.http = http /\ c.disk.uploading = dk.uploading
      /\ d.http = http /\ d.disk.uploading = dk.uploading
  BY SMTT(30) DEF Context
<1>4. SameReports(q, fromKit')
  <2>1. fromKit' = q \/ DisconnectSessions(ClosedSessions, q)
    BY ZenonT(30) DEF CheckAndUploadToStorage
  <2>2. CASE fromKit' = q
    BY <2>2 DEF SameReports, SameAnswers, Same
  <2> QED
    BY <2>1, <2>2, DisconnectingAnswersNothing, ChosenSessions, Zenon
<1>5. status' \in {status, "Destroying"}
  BY ZenonT(30) DEF CheckAndUploadToStorage, MarkedToDestroyIf
<1> HIDE DEF c, d
<1> QED
  BY <1>2, <1>3, <1>4, <1>5, ZenonT(30) DEF HttpFrom

----------------------------------------------------------------------------
(* Every action has one of the effects.                                    *)

(* What makes a step calm: the Kit is as it was or fails, a message that   *)
(* is no answer may be taken, and no session is attached.                  *)
CalmParts ==
    /\ status' \in {status, "Live", "Destroying"}
    /\ UNCHANGED kit \/ \E state \in {"dead", "hung"} : kit' = [kit EXCEPT !.state = state]
    /\ \/ UNCHANGED <<fromKit, isModified, lostStatus>>
       \/ /\ fromKit # <<>> /\ Head(fromKit).type \notin {"saved", "modified"}
          /\ fromKit' = Tail(fromKit)
          /\ UNCHANGED <<isModified, lostStatus>>
       \/ HandleModifiedStatus
    /\ Attached' \subseteq Attached
    /\ UNCHANGED <<saveVars, disk, uploadVars, edits, storeVars, changed>>

(* A ModifiedStatus is taken: what it reports is what isModified says.     *)
LEMMA ModifiedStatusTaken ==
    ASSUME fromKit \in Seq(Messages), HandleModifiedStatus
    PROVE  SameAnswers(fromKit, fromKit') /\ ReportKept
<1>1. fromKit # <<>> /\ Head(fromKit).type = "modified" /\ fromKit' = Tail(fromKit)
  BY DEF HandleModifiedStatus, Receives
<1>2. SameAnswers(fromKit, fromKit')
  BY <1>1, OthersChangeNothing, SMTT(30)
<1>3. ASSUME ~lostStatus', Reported(fromKit)
      PROVE  ~lostStatus /\ Reported(fromKit)'
  <2>1. ~lostStatus /\ (isModified' <=> Head(fromKit).arg = "true")
    <3>1. /\ lostStatus' = (lostStatus \/ Attached = {})
          /\ isModified' = IF Attached # {} THEN Head(fromKit).arg = "true" ELSE isModified
      BY Zenon DEF HandleModifiedStatus
    <3>2. ~lostStatus /\ Attached # {}
      BY <1>3, <3>1, Zenon
    <3>3. isModified' = (Head(fromKit).arg = "true")
      BY <3>1, <3>2, Zenon
    <3> QED
      BY <3>2, <3>3, Zenon
  <2>2. /\ ~None(fromKit, "modified")
        /\ Last(fromKit, "modified", "true") =>
             \/ Last(fromKit', "modified", "true")
             \/ None(fromKit', "modified") /\ Head(fromKit).arg = "true"
    BY <1>1, OneTaken, Zenon
  <2> QED
    BY <1>3, <2>1, <2>2, Zenon DEF Reported
<1>4. lostStatus => lostStatus'
  BY Zenon DEF HandleModifiedStatus
<1> QED
  BY <1>2, <1>3, <1>4, Zenon DEF ReportKept

(* Such a step is calm.                                                    *)
LEMMA CalmFrame ==
    ASSUME SInv, CalmParts
    PROVE  Calm
<1>0. /\ TypeOK /\ fromKit \in Seq(Messages) /\ sess \in [Sessions -> SessionStates]
      /\ kit \in KitType
  BY DEF SInv, IInv, TypeOK, KitTypeOK, SessTypeOK
<1>1. status' = "None" => status = "None" /\ Attached' = {}
  BY DEF SInv, Unused, CalmParts
<1>2. KitKept
  BY <1>0, SMTT(30) DEF KitKept, KitType, CalmParts
<1>3. SameAnswers(fromKit, fromKit') /\ ReportKept
  <2>1. CASE UNCHANGED <<fromKit, isModified, lostStatus>>
    BY <2>1, NoReport
  <2>2. CASE /\ fromKit # <<>> /\ Head(fromKit).type \notin {"saved", "modified"}
             /\ fromKit' = Tail(fromKit)
             /\ UNCHANGED <<isModified, lostStatus>>
    <3>1. SameReports(fromKit, fromKit')
      BY <1>0, <2>2, OthersChangeNothing, Zenon
    <3> QED
      BY <2>2, <3>1, SameReport
  <2>3. CASE HandleModifiedStatus
    BY <1>0, <2>3, ModifiedStatusTaken
  <2> QED
    BY <2>1, <2>2, <2>3 DEF CalmParts
<1>4. UNCHANGED <<saveVars, disk, uploadVars, edits, storeVars, changed>>
  BY DEF CalmParts
<1> QED
  BY <1>1, <1>2, <1>3, <1>4, Zenon DEF Calm, HttpStep, saveVars, uploadVars, storeVars

(* The steps that start nothing.                                           *)
LEMMA CalmActions ==
    ASSUME SInv,
           \/ \E s \in Sessions : \/ CreateNewClientSession(s) \/ CloseDocument(s)
                                  \/ RefreshForAll(s) \/ ResetAccessToken(s)
                                  \/ RemoveStaleSession(s)
           \/ RequestShutdown \/ HandleDisconnected \/ HandleModifiedStatus
           \/ DisconnectedFromKit \/ LoadTimeout \/ ExitLoop \/ TerminateChild
           \/ HandleStatus \/ \E state \in {"dead", "hung"} : KitFails(state)
    PROVE  Calm
<1>0. sess \in [Sessions -> SessionStates]
  BY DEF SInv, IInv, TypeOK, SessTypeOK
<1> USE DEF stateVars, kitVars, sessVars, modelVars, otherVars
<1>1. ASSUME NEW s \in Sessions, CreateNewClientSession(s)
      PROVE  CalmParts
  <2>1. Attached' \subseteq Attached
    BY <1>0, <1>1, Zenon DEF CreateNewClientSession, Attached
  <2> QED
    BY <1>1, <2>1, SMTT(30) DEF CreateNewClientSession, CalmParts
<1>2. ASSUME NEW s \in Sessions, CloseDocument(s)
      PROVE  CalmParts
  BY <1>2, SMTT(30) DEF CloseDocument, CalmParts, Attached
<1>3. ASSUME NEW s \in Sessions, RefreshForAll(s)
      PROVE  CalmParts
  BY <1>3, SMTT(30) DEF RefreshForAll, CalmParts, Attached
<1>4. ASSUME NEW s \in Sessions, ResetAccessToken(s)
      PROVE  CalmParts
  BY <1>4, SMTT(30) DEF ResetAccessToken, CalmParts, Attached
<1>5. ASSUME NEW s \in Sessions, RemoveStaleSession(s)
      PROVE  CalmParts
  <2>1. Attached' \subseteq Attached
    BY <1>0, <1>5, Zenon DEF RemoveStaleSession, Attached
  <2> QED
    BY <1>5, <2>1, SMTT(30) DEF RemoveStaleSession, CalmParts
<1>6. ASSUME RequestShutdown
      PROVE  CalmParts
  BY <1>6, SMTT(30) DEF RequestShutdown, CalmParts, Attached
<1>7. ASSUME HandleDisconnected
      PROVE  CalmParts
  <2>1. Attached' \subseteq Attached
    BY <1>0, <1>7, Zenon DEF HandleDisconnected, Attached
  <2> QED
    BY <1>7, <2>1, SMTT(30) DEF HandleDisconnected, Receives, CalmParts
<1>8. ASSUME HandleModifiedStatus
      PROVE  CalmParts
  BY <1>8, SMTT(30) DEF HandleModifiedStatus, Receives, CalmParts, Attached
<1>9. ASSUME DisconnectedFromKit
      PROVE  CalmParts
  BY <1>9, SMTT(30) DEF DisconnectedFromKit, CalmParts, Attached
<1>10. ASSUME LoadTimeout
      PROVE  CalmParts
  BY <1>10, SMTT(30) DEF LoadTimeout, CalmParts, Attached
<1>11. ASSUME ExitLoop
      PROVE  CalmParts
  BY <1>11, SMTT(30) DEF ExitLoop, CalmParts, Attached
<1>12. ASSUME TerminateChild
      PROVE  CalmParts
  <2>1. Attached' \subseteq Attached
    BY <1>0, <1>12, SMTT(30) DEF TerminateChild, Attached
  <2> QED
    BY <1>12, <2>1, SMTT(30) DEF TerminateChild, CalmParts
<1>13. ASSUME HandleStatus
      PROVE  CalmParts
  <2>1. Attached' \subseteq Attached
    BY <1>0, <1>13, Zenon DEF HandleStatus, Attached
  <2> QED
    BY <1>13, <2>1, SMTT(30) DEF HandleStatus, Receives, SetLoaded, CalmParts
<1>14. ASSUME NEW state \in {"dead", "hung"}, KitFails(state)
       PROVE  CalmParts
  BY <1>14, SMTT(30) DEF KitFails, CalmParts, Attached
<1>15. CalmParts
  BY <1>1, <1>2, <1>3, <1>4, <1>5, <1>6, <1>7, <1>8, <1>9, <1>10,
     <1>11, <1>12, <1>13, <1>14
<1> QED
  BY <1>15, CalmFrame

(* A client types.                                                         *)
LEMMA EditEdits ==
    ASSUME SInv, NEW s \in Sessions, Edit(s)
    PROVE  Editing
<1> DEFINE m == ModifiedStatus("true")
<1>0. TypeOK /\ fromKit \in Seq(Messages)
  BY DEF SInv, IInv, TypeOK, KitTypeOK
<1>1. status' # "None"
  BY Zenon DEF SInv, Unused, Edit, stateVars, HandlesInput, Attached
<1>2. UNCHANGED <<save, lostSave, disk, store, uploaded, changed, http, overlapped,
                  isModified, lostStatus>>
  BY DEF Edit, KitEdit, kitVars, uploadVars, storeVars, otherVars
<1>3. PICK told \in BOOLEAN :
        /\ modifyAfter' = (modifyAfter \/ told)
        /\ \/ edits' = edits + 1 /\ untold' = (untold \/ ~told) /\ KitEdit
           \/ UNCHANGED <<edits, untold, kitVars>>
  <2>1. (IF "drag" \in Commands THEN BOOLEAN ELSE {TRUE}) \subseteq BOOLEAN
    BY Zenon
  <2> QED
    BY <2>1, ZenonT(30) DEF Edit
<1>4. \/ kit.state = "up" /\ kit' = [kit EXCEPT !.ver = @ + 1, !.modified = TRUE]
      \/ kit' = kit
  BY <1>3, Zenon DEF KitEdit, kitVars
<1>5. \/ fromKit' = fromKit /\ (kit'.modified => kit.modified)
      \/ fromKit' = Append(fromKit, m)
  <2>1. CASE KitEdit
    BY <2>1, SMTT(30) DEF KitEdit
  <2> QED
    BY <1>3, <2>1, Zenon DEF kitVars
<1>6. m \in Messages /\ m.type = "modified" /\ m.arg = "true"
  BY DEF ModifiedStatus, Messages, SessionOrNone
<1> HIDE DEF m
<1>7. SameAnswers(fromKit, fromKit')
  <2>1. <<m>> \in Seq(Messages) /\ NoAnswer(<<m>>) /\ Append(fromKit, m) = fromKit \o <<m>>
    BY <1>0, <1>6 DEF NoAnswer, None
  <2>2. CASE fromKit' = fromKit
    BY <2>2 DEF SameAnswers
  <2> QED
    BY <1>0, <1>5, <2>1, <2>2, OthersChangeNothing, Zenon
<1>8. kit'.modified /\ ~lostStatus' => Reported(fromKit)'
  <2>1. CASE fromKit' = fromKit /\ (kit'.modified => kit.modified)
    BY <1>2, <2>1, Zenon DEF SInv, ReportInv, Reported
  <2>2. CASE fromKit' = Append(fromKit, m)
    BY <1>0, <1>6, <2>2, OneAppended, Zenon DEF Reported
  <2> QED
    BY <1>5, <2>1, <2>2
<1>9. \/ /\ edits' = edits + 1 /\ (modifyAfter' \/ untold')
         /\ \/ kit.state = "up" /\ kit' = [kit EXCEPT !.ver = @ + 1, !.modified = TRUE]
            \/ kit.state # "up" /\ kit' = kit
      \/ edits' = edits /\ kit' = kit /\ untold' = untold
  <2>1. KitEdit => \/ kit.state = "up" /\ kit' = [kit EXCEPT !.ver = @ + 1, !.modified = TRUE]
                   \/ kit.state # "up" /\ kit' = kit
    BY Zenon DEF KitEdit
  <2>2. UNCHANGED kitVars => kit' = kit
    BY DEF kitVars
  <2> QED
    BY <1>3, <2>1, <2>2, Zenon
<1>10. (modifyAfter => modifyAfter') /\ (untold => untold')
  <2>1. modifyAfter => modifyAfter'
    <3>1. modifyAfter' = (modifyAfter \/ told)
      BY <1>3
    <3> QED
      BY <3>1, Zenon
  <2>2. untold' = (untold \/ ~told) \/ untold' = untold
    BY <1>3, Zenon
  <2>3. untold => untold'
    BY <2>2, Zenon
  <2> QED
    BY <2>1, <2>3
<1> QED
  BY <1>1, <1>2, <1>7, <1>8, <1>9, <1>10, Zenon DEF Editing

(* startRenameFileCommand() saves, or does nothing that matters here.      *)
LEMMA RenamingSaves ==
    ASSUME SInv, NEW s, StartRenameFileCommand(s),
           UNCHANGED <<status, sess, uploadVars, edits, storeVars, changed, isModified, lostStatus>>
    PROVE  Saving \/ Calm
<1>1. UNCHANGED <<store, uploaded, http, overlapped>>
  BY DEF storeVars, uploadVars
<1>2. CASE s \in Attached
  <2>1. SendUnoSave(s, TRUE, "Rename")
    BY <1>2, Zenon DEF StartRenameFileCommand
  <2>2. status' # "None"
    BY <1>2 DEF SInv, Unused
  <2> QED
    BY <1>1, <1>2, <2>1, <2>2, SendingSaves, Zenon
<1>3. CASE s \notin Attached
  <2>1. UNCHANGED <<saveVars, kitVars>>
    BY <1>3, ZenonT(30) DEF StartRenameFileCommand
  <2>2. CalmParts
    BY <2>1 DEF CalmParts, kitVars, Attached
  <2> QED
    BY <2>2, CalmFrame
<1> QED
  BY <1>2, <1>3

(* The commands that save.                                                 *)
LEMMA SavingCommands ==
    ASSUME SInv, NEW s \in Sessions,
           ManualSave(s) \/ HandleRenameFileCommand(s) \/ SwitchMode(s)
    PROVE  Saving \/ Calm
<1>1. /\ s \in Attached
      /\ UNCHANGED <<status, sess, uploadVars, edits, storeVars, changed, isModified, lostStatus>>
  BY Zenon DEF ManualSave, HandleRenameFileCommand, SwitchMode, HandlesInput, Attached, stateVars,
         sessVars, modelVars, otherVars
<1>2. status' # "None" /\ UNCHANGED <<store, uploaded, http, overlapped>>
  BY <1>1 DEF SInv, Unused, storeVars, uploadVars
<1>3. CASE UNCHANGED <<saveVars, kitVars>>
  <2>1. CalmParts
    BY <1>1, <1>3 DEF CalmParts, kitVars, Attached
  <2> QED
    BY <2>1, CalmFrame
<1>4. CASE ManualSave(s)
  <2>1. PICK d \in BOOLEAN : SendUnoSave(s, d, activity)
    BY <1>4 DEF ManualSave
  <2> QED
    BY <1>1, <1>2, <2>1, SendingSaves
<1>5. CASE HandleRenameFileCommand(s)
  <2>1. StartRenameFileCommand(s) \/ UNCHANGED <<saveVars, kitVars>>
    BY <1>5, Zenon DEF HandleRenameFileCommand
  <2> QED
    BY <1>1, <1>3, <2>1, RenamingSaves
<1>6. CASE SwitchMode(s)
  <2>1. SendUnoSave(s, TRUE, "SwitchingToOffline") \/ UNCHANGED <<saveVars, kitVars>>
    BY <1>6, ZenonT(30) DEF SwitchMode
  <2> QED
    BY <1>1, <1>2, <1>3, <2>1, SendingSaves, Zenon
<1> QED
  BY <1>4, <1>5, <1>6

(* A session is added.                                                     *)
LEMMA AddingSession ==
    ASSUME SInv, NEW s \in Sessions, AddSession(s)
    PROVE  Calm \/ Downloaded \/ Conflicting
<1>0. /\ TypeOK /\ fromKit \in Seq(Messages) /\ sess \in [Sessions -> SessionStates]
      /\ save \in SaveType
  BY DEF SInv, IInv, TypeOK, KitTypeOK, SessTypeOK, SaveTypeOK
<1>1. /\ UNCHANGED <<modifyAfter, untold, lostSave, kit, http, overlapped, edits, isModified,
                     lostStatus>>
      /\ sess[s] = "detached"
  BY DEF AddSession
<1>2. SameAnswers(fromKit, fromKit') /\ ReportKept
  <2>1. fromKit' = fromKit \/ fromKit' = fromKit \o KitReplies("status", <<s>>)
    BY Zenon DEF AddSession
  <2>2. /\ KitReplies("status", <<s>>) \in Seq(Messages)
        /\ NoAnswer(KitReplies("status", <<s>>)) /\ None(KitReplies("status", <<s>>), "modified")
    <3>1. <<s>> \in Seq(Sessions)
      OBVIOUS
    <3> QED
      BY <3>1, KitRepliesTyped, RepliesAnswerNothing, Zenon
  <2>3. CASE fromKit' = fromKit
    BY <1>1, <2>3, NoReport
  <2>4. CASE fromKit' = fromKit \o KitReplies("status", <<s>>)
    <3>1. SameReports(fromKit, fromKit')
      BY <1>0, <2>2, <2>4, OthersChangeNothing, Zenon
    <3> QED
      BY <1>1, <3>1, SameReport
  <2> QED
    BY <2>1, <2>3, <2>4, Zenon
<1>3. KitKept
  BY <1>1 DEF KitKept
<1>4. CASE /\ sess' = [sess EXCEPT ![s] = "rejected"]
           /\ status' = MarkedToDestroyIf(Attached = {})
           /\ UNCHANGED <<save, storeVars, disk, changed>>
  <2>1. Attached' \subseteq Attached
    BY <1>0, <1>4, SMTT(30) DEF Attached
  <2>2. status' = "None" => status = "None" /\ Attached' = {}
    BY <1>4, <2>1, Zenon DEF MarkedToDestroyIf, SInv, Unused
  <2> QED
    BY <1>1, <1>2, <1>3, <1>4, <2>2, Zenon DEF Calm, HttpStep, storeVars
<1>5. CASE /\ status = "None" /\ status' = "Loading"
           /\ disk' = [disk EXCEPT !.doc = [ver |-> 0, mtime |-> 0]]
           /\ save' = [save EXCEPT !.time = 0]
           /\ uploaded' = 0
           /\ UNCHANGED <<changed, store>>
  <2>1. save'.failures = save.failures
    BY <1>0, <1>5 DEF SaveType
  <2> QED
    BY <1>1, <1>2, <1>5, <2>1 DEF Downloaded
<1>6. CASE /\ status # "None"
           /\ UNCHANGED <<changed, store>> \/ changed' = TRUE
           /\ UNCHANGED <<status, disk, save, uploaded>>
  BY <1>1, <1>2, <1>3, <1>6, Zenon DEF Calm, HttpStep, Conflicting
<1>7. \/ /\ sess' = [sess EXCEPT ![s] = "rejected"]
         /\ status' = MarkedToDestroyIf(Attached = {})
         /\ UNCHANGED <<save, storeVars, disk, changed>>
      \/ /\ status = "None" /\ status' = "Loading"
         /\ disk' = [disk EXCEPT !.doc = [ver |-> 0, mtime |-> 0]]
         /\ save' = [save EXCEPT !.time = 0]
         /\ uploaded' = 0
         /\ UNCHANGED <<changed, store>>
      \/ /\ status # "None"
         /\ UNCHANGED <<changed, store>> \/ changed' = TRUE
         /\ UNCHANGED <<status, disk, save, uploaded>>
  BY ZenonT(30) DEF AddSession
<1> QED
  BY <1>4, <1>5, <1>6, <1>7, Zenon

(* A client's own upload.                                                  *)
LEMMA ClientUploading ==
    ASSUME SInv, NEW s \in Sessions, NEW kind, ClientUpload(s, kind)
    PROVE  Calm
<1> DEFINE c == Context(save, disk, http, upload, activity)
<1>1. /\ s \in Attached
      /\ UNCHANGED <<status, save, modifyAfter, untold, lostSave, kit, fromKit, disk, edits, store,
                     uploaded, changed, isModified, lostStatus>>
  BY Zenon DEF ClientUpload, HandlesInput, Attached, stateVars, saveVars, kitVars, modelVars,
         storeVars, otherVars
<1>2. HttpFrom(c)
  <2>1. \/ UploadToStorage(s, TRUE, FALSE, c)
        \/ UploadToStorageInternal(s, "saveas", FALSE, c)
    BY ZenonT(30) DEF ClientUpload
  <2> HIDE DEF c
  <2> QED
    BY <2>1, UploadsUploading, Zenon
<1>3. c.http = http /\ c.disk.uploading = disk.uploading
  BY DEF Context
<1>4. HttpStep
  BY <1>1, <1>2, <1>3, Zenon DEF HttpFrom, HttpStep
<1>5. status' # "None"
  BY <1>1, Zenon DEF SInv, Unused
<1>6. KitKept /\ SameAnswers(fromKit, fromKit') /\ ReportKept
  BY <1>1, NoReport DEF KitKept
<1> HIDE DEF c
<1> QED
  BY <1>1, <1>4, <1>5, <1>6 DEF Calm

(* A session leaves, after a save or without.                              *)
LEMMA Disconnecting ==
    ASSUME SInv, NEW s \in Sessions, OnDisconnect(s)
    PROVE  Saving \/ Calm
<1> DEFINE last == LastEditableSession(s)
           force == AlwaysSaveOnExit \/ IsPossiblyModified
           saves == last /\ ~save.active /\ AutoSaveSends(force)
<1>0. /\ TypeOK /\ fromKit \in Seq(Messages) /\ sess \in [Sessions -> SessionStates]
      /\ kit \in KitType
  BY Zenon DEF SInv, IInv, TypeOK, KitTypeOK, SessTypeOK
<1>1. UNCHANGED <<http, overlapped, edits, store, uploaded, changed, isModified, lostStatus>>
  BY DEF OnDisconnect, uploadVars, modelVars, storeVars, otherVars
<1>2. status' \in {status, "Destroying"}
  BY SMTT(30) DEF OnDisconnect, MarkedToDestroyIf
<1>3. CASE saves
  <2>1. AutoSave
    BY <1>3, SMTT(30) DEF OnDisconnect
  <2> HIDE DEF saves
  <2> QED
    BY <1>1, <1>2, <2>1, AutoSaveSaves
<1>4. CASE ~saves
  <2>1. /\ UNCHANGED <<save, modifyAfter, untold, lostSave, disk>>
        /\ kit' = kit \/ kit' = [kit EXCEPT !.state = "dead"]
        /\ UNCHANGED <<sess, fromKit>> \/ DisconnectSessions({s}, fromKit)
    BY <1>4, Zenon DEF OnDisconnect, saveVars
  <2> HIDE DEF saves
  <2>2. SameAnswers(fromKit, fromKit') /\ ReportKept
    <3>1. CASE UNCHANGED <<sess, fromKit>>
      BY <1>1, <3>1, NoReport
    <3>2. CASE DisconnectSessions({s}, fromKit)
      <4>1. SameReports(fromKit, fromKit')
        BY <1>0, <3>2, DisconnectingAnswersNothing, Zenon
      <4> QED
        BY <1>1, <4>1, SameReport
    <3> QED
      BY <2>1, <3>1, <3>2
  <2>3. Attached' \subseteq Attached
    <3>1. CASE UNCHANGED <<sess, fromKit>>
      BY <3>1 DEF Attached
    <3>2. CASE DisconnectSessions({s}, fromKit)
      BY <1>0, <3>2, Zenon DEF DisconnectSessions, Attached
    <3> QED
      BY <2>1, <3>1, <3>2
  <2>4. status' = "None" => status = "None" /\ Attached' = {}
    BY <1>2, <2>3, Zenon DEF SInv, Unused
  <2>5. KitKept
    BY <1>0, <2>1, SMTT(30) DEF KitKept, KitType
  <2> QED
    BY <1>1, <2>1, <2>2, <2>4, <2>5 DEF Calm, HttpStep
<1> QED
  BY <1>3, <1>4

(* A request that fails has failed.                                        *)
LEMMA FailureCounts ==
    ASSUME NEW sv \in SaveType
    PROVE  WithResult(sv, FALSE).failures > 0
<1>1. sv.failures \in 0..LimStoreFailures /\ LimStoreFailures \in Nat \ {0}
  BY ConstantsAssumption, Zenon DEF SaveType
<1>2. WithResult(sv, FALSE).failures = IF sv.failures < LimStoreFailures
                                       THEN sv.failures + 1 ELSE sv.failures
  BY DEF WithResult, SaveType
<1>3. (IF sv.failures < LimStoreFailures THEN sv.failures + 1 ELSE sv.failures) > 0
  BY <1>1
<1> QED
  BY <1>2, <1>3, Zenon

(* The response to a save.                                                 *)
LEMMA HandlingSaveResponse ==
    ASSUME SInv, NEW elapsed \in BOOLEAN, HandleSaveResponse(elapsed)
    PROVE  Answered \/ AnswerLost
<1> DEFINE m == Head(fromKit)
           ok == m.arg # "failed"
           sv == [WithResult(save, ok) EXCEPT !.saved = @ \/ m.arg = "success"]
           dk == IF Exists(disk.upload)
                 THEN [disk EXCEPT !.uploading = disk.upload, !.upload = NoFile]
                 ELSE disk
<1>0. TypeOK /\ fromKit \in Seq(Messages) /\ save \in SaveType
  BY DEF SInv, IInv, TypeOK, KitTypeOK, SaveTypeOK
<1>1. fromKit # <<>> /\ m.type = "saved" /\ Tail(fromKit) \in Seq(Messages)
  <2>1. fromKit # <<>> /\ m.type = "saved"
    BY DEF HandleSaveResponse, Receives
  <2> QED
    BY <1>0, <2>1
<1>2. UNCHANGED <<modifyAfter, untold, kit, edits, store, uploaded, changed, isModified,
                  lostStatus>>
  BY SMTT(30) DEF HandleSaveResponse, storeVars, otherVars
<1>5. Same(fromKit, Tail(fromKit), "modified", "true")
  BY <1>0, <1>1, OtherTaken, SMTT(30)
<1>3. CASE m.s \in Attached
  <2>1. /\ save' = sv /\ disk' = dk /\ lostSave' = lostSave
        /\ CheckAndUploadToStorage(m.s, ok, elapsed, sv, dk, Tail(fromKit))
    BY <1>3, SMTT(30) DEF HandleSaveResponse
  <2>2. m.arg = "failed" => sv.failures > 0
    <3>1. WithResult(save, FALSE) \in SaveType /\ WithResult(save, FALSE).failures > 0
      BY <1>0, WithResultSave, FailureCounts, Zenon
    <3>2. [WithResult(save, FALSE) EXCEPT !.saved = @ \/ m.arg = "success"].failures
             = WithResult(save, FALSE).failures
      BY <3>1 DEF SaveType
    <3> SUFFICES ASSUME m.arg = "failed" PROVE sv.failures > 0
      OBVIOUS
    <3>3. ok = FALSE
      OBVIOUS
    <3> QED
      BY <3>1, <3>2, <3>3, Zenon
  <2> HIDE DEF sv, dk, ok
  <2>3. /\ overlapped => overlapped'
        /\ \/ http' = http
           \/ http'.kind = "file" => Exists(dk.uploading) /\ http'.file = dk.uploading
        /\ SameReports(Tail(fromKit), fromKit')
        /\ status' \in {status, "Destroying"}
    BY <1>0, <1>1, <2>1, CheckingUploads, ZenonT(30)
  <2>4. HttpStep
    BY <2>1, <2>3, Zenon DEF HttpStep
  <2>5. status' # "None"
    BY <1>3, <2>3, Zenon DEF SInv, Unused
  <2>6. /\ ~NoAnswer(fromKit)
        /\ LastFailed(fromKit) => \/ LastFailed(fromKit')
                                  \/ NoAnswer(fromKit') /\ save'.failures > 0
    <3>1. /\ ~NoAnswer(fromKit)
          /\ LastFailed(fromKit) => \/ LastFailed(Tail(fromKit))
                                    \/ NoAnswer(Tail(fromKit)) /\ m.arg = "failed"
      BY <1>0, <1>1, AnswersChange, Zenon
    <3> QED
      BY <2>1, <2>2, <2>3, <3>1, Zenon DEF SameReports, SameAnswers
  <2>7. disk' = IF Exists(disk.upload)
                THEN [disk EXCEPT !.uploading = disk.upload, !.upload = NoFile]
                ELSE disk
    BY <2>1 DEF dk
  <2>8. KitKept
    BY <1>2, Zenon DEF KitKept
  <2>9. ReportKept
    <3>1. Same(Tail(fromKit), fromKit', "modified", "true")
      BY <2>3, Zenon DEF SameReports
    <3> QED
      BY <1>2, <1>5, <3>1, Zenon DEF Same, ReportKept, Reported
  <2> QED
    BY <1>2, <2>1, <2>4, <2>5, <2>6, <2>7, <2>8, <2>9, Zenon DEF Answered
<1>4. CASE m.s \notin Attached
  <2>1. /\ lostSave'
        /\ fromKit' = Tail(fromKit)
        /\ UNCHANGED <<status, sess, http, overlapped, disk>>
    BY <1>4, ZenonT(30) DEF HandleSaveResponse, uploadVars
  <2>2. ReportKept
    BY <1>2, <1>5, <2>1, Zenon DEF Same, ReportKept, Reported
  <2> QED
    BY <1>2, <2>1, <2>2 DEF AnswerLost
<1> QED
  BY <1>3, <1>4, Zenon

(* Storage answers.                                                        *)
LEMMA HandlingUploadResponse ==
    ASSUME SInv, NEW result, HandleUploadToStorageResponse(result)
    PROVE  Stored
<1>0. TypeOK /\ UploadAccounted /\ fromKit \in Seq(Messages)
  BY DEF SInv, IInv, TypeOK, KitTypeOK
<1>1. /\ http # NoUpload /\ store' \in StoreAfter(result)
      /\ UNCHANGED <<kit, disk, edits, modifyAfter, untold, lostSave, isModified, lostStatus>>
  BY Zenon DEF HandleUploadToStorageResponse
<1>2. status # "None"
  BY <1>1, Zenon DEF SInv, Unused
<1>3. CASE result = "OK"
  <2> DEFINE plain == IsPlainUpload
             sv == IF plain THEN [save EXCEPT !.time = request.mtime] ELSE save
             ok == WithResult(upload, TRUE)
             up == IF plain THEN [ok EXCEPT !.time = request.mtime] ELSE ok
             switching == plain /\ activity = "SwitchingToOffline"
             renamed == request.kind = "rename"
             act == IF switching \/ renamed THEN "None" ELSE activity
             c == Context(sv, disk, NoUpload, up, act)
  <2>1. UploadSucceeded
    BY <1>3, SMTT(30) DEF HandleUploadToStorageResponse
  <2>2. /\ save' = sv
        /\ changed' = (changed /\ ~plain)
        /\ uploaded' = IF http.kind = "file" THEN http.file.mtime ELSE uploaded
        /\ status' = MarkedToDestroyIf(switching \/ unloadRequested)
        /\ DisconnectSessions(ClosedSessions, fromKit)
    BY <2>1, ZenonT(30) DEF UploadSucceeded
  <2>3. \/ RenameInStorage(c) \/ NoUploadStarts(c)
        \/ http' = NoUpload /\ UNCHANGED overlapped
    BY <2>1, ZenonT(30) DEF UploadSucceeded
  <2>4. c.disk.uploading = disk.uploading /\ c.http = NoUpload
    BY SMTT(30) DEF Context
  <2>5. save'.failures = save.failures
    BY <1>0, <2>2, SMTT(30) DEF TypeOK, SaveTypeOK, SaveType
  <2>6. status' # "None"
    BY <1>2, <2>2 DEF MarkedToDestroyIf
  <2> HIDE DEF c, act, up, ok, sv, switching
  <2>7. HttpStep
    <3>1. CASE RenameInStorage(c) \/ NoUploadStarts(c)
      <4>1. HttpFrom(c)
        BY <3>1, UploadsUploading, Zenon
      <4> QED
        BY <1>1, <2>4, <4>1, SMTT(30) DEF HttpFrom, HttpStep, NoUpload
    <3>2. CASE http' = NoUpload /\ UNCHANGED overlapped
      BY <3>2 DEF HttpStep, NoUpload
    <3> QED
      BY <2>3, <3>1, <3>2
  <2>8. SameAnswers(fromKit, fromKit') /\ ReportKept
    <3>1. SameReports(fromKit, fromKit')
      BY <1>0, <2>2, DisconnectingAnswersNothing, ChosenSessions, Zenon
    <3> QED
      BY <1>1, <3>1, SameReport
  <2>9. store' = IF http.kind = "file" THEN http.file.ver ELSE store
    BY <1>1, <1>3, SMTT(30) DEF StoreAfter
  <2>10. ~overlapped /\ http.kind # "file" => changed' = changed
    <3>1. changed \in BOOLEAN
      BY <1>0 DEF TypeOK, OtherTypeOK
    <3> QED
      BY <1>0, <1>1, <2>2, <3>1, ZenonT(30) DEF UploadAccounted, IsPlainUpload
  <2> QED
    BY <1>1, <2>2, <2>5, <2>6, <2>7, <2>8, <2>9, <2>10, Zenon DEF Stored
<1>4. CASE result # "OK"
  <2>1. UploadFailed(result)
    BY <1>4, SMTT(30) DEF HandleUploadToStorageResponse
  <2>2. /\ http' = NoUpload
        /\ changed' = (changed \/ result = "CONFLICT")
        /\ UNCHANGED <<save, overlapped, status, fromKit, uploaded>>
    BY <2>1, Zenon DEF UploadFailed
  <2>3. \/ store' = store
        \/ store' = http.file.ver /\ http.kind = "file"
        \/ result = "CONFLICT"
    BY <1>1, <1>4, SMTT(30) DEF StoreAfter
  <2>4. HttpStep
    BY <2>2, Zenon DEF HttpStep, NoUpload
  <2>5. SameAnswers(fromKit, fromKit') /\ ReportKept
    BY <1>1, <2>2, NoReport
  <2>6. (changed => changed') /\ (result = "CONFLICT" => changed')
    BY <2>2, Zenon
  <2> QED
    BY <1>1, <1>2, <2>2, <2>3, <2>4, <2>5, <2>6, ZenonT(30) DEF Stored
<1> QED
  BY <1>3, <1>4

(* A round of the poll loop.                                               *)
LEMMA Polls ==
    ASSUME SInv, PollRound
    PROVE  Saving \/ Calm
<1>0. TypeOK /\ fromKit \in Seq(Messages) /\ save \in SaveType
  BY Zenon DEF SInv, IInv, TypeOK, KitTypeOK, SaveTypeOK
<1>1. UNCHANGED <<edits, storeVars, changed, isModified, lostStatus>>
  BY SMTT(30) DEF PollRound, otherVars
<1>2. CASE StopBroker
  <2>1. CalmParts
    BY <1>1, <1>2 DEF StopBroker, CalmParts, kitVars, Attached
  <2> QED
    BY <2>1, CalmFrame
<1>3. CASE PollSaves
  <2>1. AutoSave /\ status' = status /\ UNCHANGED <<http, overlapped, store, uploaded>>
    BY <1>1, <1>3, Zenon DEF PollSaves, uploadVars, storeVars
  <2> QED
    BY <1>1, <2>1, AutoSaveSaves, Zenon
<1>4. CASE PollUploads
  <2>1. PICK s \in WriteableSession :
          CheckAndUploadToStorage(s, FALSE, TRUE, save, disk, fromKit)
    BY <1>4, ZenonT(30) DEF PollUploads
  <2>2. /\ overlapped => overlapped'
        /\ \/ http' = http
           \/ http'.kind = "file" => Exists(disk.uploading) /\ http'.file = disk.uploading
        /\ SameReports(fromKit, fromKit')
        /\ status' \in {status, "Destroying"}
    BY <1>0, <2>1, CheckingUploads, ZenonT(30)
  <2>3. UNCHANGED <<save, modifyAfter, untold, lostSave, kit, disk>>
    BY <1>4, Zenon DEF PollUploads, saveVars
  <2>4. status' # "None"
    BY <2>1, <2>2, ChosenAttached, Zenon DEF SInv, Unused
  <2>5. HttpStep /\ KitKept
    BY <2>2, <2>3, Zenon DEF HttpStep, KitKept
  <2>6. SameAnswers(fromKit, fromKit') /\ ReportKept
    BY <1>1, <2>2, SameReport
  <2> QED
    BY <1>1, <2>2, <2>3, <2>4, <2>5, <2>6, Zenon DEF Calm, storeVars
<1>5. CASE /\ StartRenameFileCommand(rename)
           /\ UNCHANGED <<stop, status, uploadVars, sess, phase>>
  BY <1>1, <1>5, RenamingSaves
<1>6. CASE PollSave
  <2>1. /\ save' = WithResult(save, FALSE)
        /\ UNCHANGED <<status, modifyAfter, untold, lostSave, kit, disk, fromKit, http,
                       overlapped, sess>>
    BY <1>6, Zenon DEF PollSave, kitVars, uploadVars
  <2>2. save'.failures > 0
    BY <1>0, <2>1, FailureCounts, Zenon
  <2>3. status' = "None" => status = "None" /\ Attached' = {}
    BY <2>1, Zenon DEF SInv, Unused, Attached
  <2>4. KitKept /\ HttpStep
    BY <2>1, Zenon DEF KitKept, HttpStep
  <2>5. SameAnswers(fromKit, fromKit') /\ ReportKept
    BY <1>1, <2>1, NoReport
  <2> QED
    BY <1>1, <2>1, <2>2, <2>3, <2>4, <2>5, Zenon DEF Calm, storeVars
<1>7. \/ StopBroker \/ PollSaves \/ PollUploads \/ PollSave
      \/ /\ StartRenameFileCommand(rename)
         /\ UNCHANGED <<stop, status, uploadVars, sess, phase>>
  BY ZenonT(30) DEF PollRound, PollNone, AutoSaveAndStop
<1> QED
  BY <1>2, <1>3, <1>4, <1>5, <1>6, <1>7

----------------------------------------------------------------------------

(* The initial state satisfies the invariant.                              *)
LEMMA InitSInv == Init => SInv
<1> SUFFICES ASSUME Init PROVE SInv
  OBVIOUS
<1>1. Unused
  BY Zenon DEF Init, Unused, Attached
<1>2. /\ kit.ver = 0 /\ ~kit.modified /\ kit.saves = 0 /\ edits = 0
      /\ disk.doc = NoFile /\ disk.upload = NoFile /\ disk.uploading = NoFile
      /\ http.kind = "none" /\ uploaded = NoTime /\ store = 0 /\ ~untold
  <2>1. /\ kit = [state |-> "up", ver |-> 0, modified |-> FALSE, saves |-> 0]
        /\ disk = [doc |-> NoFile, upload |-> NoFile, uploading |-> NoFile]
        /\ http = NoUpload /\ edits = 0 /\ uploaded = NoTime /\ store = 0 /\ ~untold
    BY Zenon DEF Init
  <2> QED
    BY <2>1, Zenon DEF NoUpload
<1>3. ~Exists(NoFile) /\ NoFile.ver = 0 /\ NoFile.mtime = -1
  BY Zenon DEF Exists, NoFile, NoTime
<1>4. KitInv /\ ReportInv
  BY <1>2, Zenon DEF KitInv, ReportInv
<1>5. DiskInv
  BY <1>2, <1>3 DEF DiskInv, Newest
<1>6. StoreInv
  BY <1>2, <1>3, Zenon DEF StoreInv
<1> QED
  BY <1>1, <1>4, <1>5, <1>6, InitIInv DEF SInv

(* Every step keeps the invariant, as it has one of the effects.           *)
LEMMA NextSInv == SInv /\ [Next]_vars => SInv'
<1> SUFFICES ASSUME SInv, [Next]_vars PROVE SInv'
  OBVIOUS
<1>0. IInv'
  BY NextIInv DEF SInv
<1>1. CASE UNCHANGED vars
  <2>1. CalmParts
    BY <1>1 DEF CalmParts, vars, stateVars, kitVars, sessVars, modelVars, otherVars, Attached
  <2> QED
    BY <1>0, <2>1, CalmFrame, CalmStep
<1>2. ASSUME NEW s \in Sessions,
             \/ AddSession(s) \/ Edit(s) \/ ManualSave(s) \/ ClientUpload(s, "file")
             \/ ClientUpload(s, "saveas") \/ HandleRenameFileCommand(s) \/ SwitchMode(s)
             \/ OnDisconnect(s)
      PROVE  Calm \/ Saving \/ Editing \/ Downloaded \/ Conflicting
  BY <1>2, AddingSession, EditEdits, SavingCommands, ClientUploading, Disconnecting, ZenonT(30)
<1>3. ASSUME NEW elapsed \in BOOLEAN, HandleSaveResponse(elapsed)
      PROVE  Answered \/ AnswerLost
  BY <1>3, HandlingSaveResponse
<1>4. ASSUME NEW result \in UploadResults, HandleUploadToStorageResponse(result)
      PROVE  Stored
  BY <1>4, HandlingUploadResponse
<1>5. CASE Next
  <2>1. \/ Calm \/ Saving \/ Editing \/ Downloaded \/ Conflicting \/ Answered \/ AnswerLost
        \/ Stored
    BY <1>2, <1>3, <1>4, <1>5, Polls, CalmActions, ZenonT(60) DEF Next
  <2> QED
    BY <1>0, <2>1, CalmStep, SavingSInv, EditingStep, DownloadedStep, ConflictingStep,
       AnsweredStep, AnswerLostStep, StoredStep, Zenon
<1> QED
  BY <1>1, <1>5

(* With nothing pending, the invariant takes every edit to storage.        *)
LEMMA CleanIsStored == SInv => CleanMeansStored
<1> SUFFICES ASSUME SInv, NothingPending, AllSavesAnswered, ~overlapped, ~untold
             PROVE  store = edits
  BY DEF CleanMeansStored
<1>0. TypeOK /\ UploadAccounted
  BY DEF SInv, IInv
<1>1. NoAnswer(fromKit) /\ ~lostSave /\ ~LastFailed(fromKit)
  BY Zenon DEF AllSavesAnswered, NoAnswer, LastFailed, None, Last
<1>2. ~modifyAfter /\ save.failures = 0 /\ ~changed /\ ~IsStorageOutdated(upload, disk)
  BY DEF NothingPending
<1>3. kit.ver = edits /\ ~kit.modified
  BY <1>1, <1>2 DEF SInv, KitInv
<1>4. ~Exists(disk.upload) /\ Newest(disk).ver = edits
  BY <1>1, <1>3, Zenon DEF SInv, DiskInv
<1>5. CASE Exists(disk.uploading)
  <2>1. disk.uploading.mtime = uploaded
    BY <1>0, <1>2, <1>5, Zenon DEF IsStorageOutdated, UploadAccounted
  <2> QED
    BY <1>2, <1>4, <1>5, <2>1, Zenon DEF SInv, StoreInv, Newest
<1>6. CASE ~Exists(disk.uploading)
  <2>1. disk.doc.ver = edits /\ disk.doc.ver = 0
    BY <1>4, <1>6 DEF Newest, SInv, DiskInv, NoFile
  <2> QED
    BY <1>2, <1>6, <2>1, Zenon DEF SInv, StoreInv
<1> QED
  BY <1>5, <1>6

(* What the Kit has reported is flagged, or on its way.                    *)
LEMMA ReportIsThere == SInv => UntoldIsReported
  BY Zenon DEF SInv, KitInv, ReportInv, Reported, Last, UntoldIsReported

(* Whenever the broker believes that it has nothing to save and nothing to *)
(* upload, every save request was answered, no upload was requested during *)
(* another one and every edit since the last save request came in a        *)
(* message whose token tells of a modification, storage has every edit     *)
(* that was forwarded: for any clients, faults, answers of storage and     *)
(* limits.                                                                 *)
THEOREM CleanSafety == Spec => []CleanMeansStored
  BY InitSInv, NextSInv, CleanIsStored, PTL DEF Spec

(* The edits that no token tells of: while the Kit lives and no            *)
(* ModifiedStatus was lost, the document is flagged as modified, or a      *)
(* message on its way says so, until the next save request; handlers of    *)
(* saves, uploads and sessions do not lose that.                           *)
THEOREM ReportSafety == Spec => []UntoldIsReported
  BY InitSInv, NextSInv, ReportIsThere, PTL DEF Spec
============================================================================
