------------------------- MODULE FileTransferProofs -------------------------
(***************************************************************************)
(* Proofs about FileTransfer for any number of workers, users, files and   *)
(* contents: types, that no notification that is owed gets lost, that      *)
(* what is downloaded is whole, and that FileTransfer implements           *)
(* FileStore, for files uploaded as an honest client uploads them.         *)
(***************************************************************************)
EXTENDS FileTransfer, TLAPS

(* What a worker knows of the file it is at work on: it has a row, clients *)
(* tried to upload it with this content, its message is for this receiver, *)
(* and a hash that was found in the row, or was put there before success   *)
(* was answered, is never taken away again.                                *)
JobInv ==
  \A w \in Workers :
    LET f == job[w].file IN
    /\ step[w] \notin {"idle", "createFile"} => f \in files
    /\ step[w] \in {"check", "open", "write", "update", "answer"} =>
         job[w].content \in tried[f]
    /\ step[w] \in {"reply", "register"} => job[w].to = to[f]
    /\ \/ step[w] \in {"getMsg", "delMsg", "getSender"}
       \/ step[w] = "answer" /\ job[w].ok
       => hash[f] # NoContent
    /\ step[w] \in {"load", "give"} /\ job[w].hash # NoContent =>
         job[w].hash \in tried[f] /\ hash[f] # NoContent

(* A hash in the table is one a client sent; what is owed has a row, and   *)
(* who was notified was notified of a file with a hash.                    *)
HashInv == /\ \A f \in Files : hash[f] # NoContent => hash[f] \in tried[f]
           /\ owed \subseteq files
           /\ \A f \in notified : hash[f] # NoContent

(* The types of tables, pools and jobs.                                    *)
TypeInv == TypeOK /\ JobInv /\ HashInv

(* A client that keeps to the rule has one upload at a time, of one        *)
(* content.                                                                *)
OneUpload ==
  \A f \in Files \ Contested :
    /\ \A x, y \in tried[f] : x = y
    /\ \A v, w \in Workers :
         /\ job[v].file = f /\ job[w].file = f
         /\ {step[v], step[w]} \subseteq {"check", "open", "write", "update", "answer"}
         => v = w

(* What an ordinary file is on disk, by where its upload is.  It is never  *)
(* opened again once there is something.                                   *)
DiskInv ==
  \A f \in Ordinary :
    /\ disk[f] \in tried[f] \cup {NoContent, Empty}
    /\ disk[f] = Empty => \E w \in Workers : job[w].file = f /\ step[w] = "write"
    /\ hash[f] # NoContent => disk[f] = hash[f]
    /\ \A w \in Workers : job[w].file = f =>
         /\ step[w] = "open" => disk[f] = NoContent
         /\ step[w] = "write" => disk[f] = Empty
         /\ step[w] = "update" => disk[f] = job[w].content

(* The inductive invariant.                                                *)
IInv == TypeInv /\ OneUpload /\ DiskInv /\ DownloadIsWhole
-----------------------------------------------------------------------------
(* Every step leaves a worker with a job of the right type.                *)
LEMMA JobsNext ==
  ASSUME TypeInv, Next
  PROVE  job' \in [Workers -> Jobs]
<1> USE DEF TypeInv
<1>1. NoJob \in Jobs
  BY DEF NoJob, Jobs, OnDisk
<1>2. ASSUME NEW w \in Workers, Return(w) PROVE job' \in [Workers -> Jobs]
  BY <1>1, <1>2 DEF TypeOK, Return
<1>3. ASSUME NEW w \in Workers, NEW t \in Users, SendFileMessage(w, t)
      PROVE  job' \in [Workers -> Jobs]
  BY <1>3 DEF SendFileMessage, Start, TypeOK, NoJob, Jobs, OnDisk
<1>4. ASSUME NEW w \in Workers, NEW f \in Files, CreateFile(w, f) \/ Download(w, f)
      PROVE  job' \in [Workers -> Jobs]
  <2>1. CASE CreateFile(w, f)
    BY <2>1 DEF CreateFile, TypeOK, Jobs
  <2>2. CASE Download(w, f)
    BY <2>2 DEF Download, Start, TypeOK, NoJob, Jobs, OnDisk
  <2> QED
    BY <1>4, <2>1, <2>2
<1>5. ASSUME NEW w \in Workers, NEW f \in Files, NEW x \in Contents, Upload(w, f, x)
      PROVE  job' \in [Workers -> Jobs]
  BY <1>5 DEF Upload, Start, TypeOK, NoJob, Jobs, OnDisk
<1>6. ASSUME NEW w \in Workers, WriteFile(w)
      PROVE  job' \in [Workers -> Jobs]
  <2>1. \E b \in BOOLEAN : job' = [job EXCEPT ![w].ok = b]
    BY <1>6 DEF WriteFile
  <2> QED
    BY <2>1 DEF TypeOK, Jobs
<1>7. ASSUME NEW w \in Workers, UpdateFile(w)
      PROVE  job' \in [Workers -> Jobs]
  <2>1. job' = job \/ \E b \in BOOLEAN : job' = [job EXCEPT ![w].ok = b]
    BY <1>7 DEF UpdateFile
  <2> QED
    BY <2>1 DEF TypeOK, Jobs
<1>8. ASSUME NEW w \in Workers, GetFileMsg(w)
      PROVE  job' \in [Workers -> Jobs]
  <2>1. job[w].file \in Files
    BY <1>8 DEF GetFileMsg, JobInv, TypeOK
  <2>2. Return(w) \/ job' = [job EXCEPT ![w].to = pool[job[w].file]]
    BY <1>8 DEF GetFileMsg
  <2> QED
    BY <1>2, <2>1, <2>2 DEF TypeOK, Jobs
<1>9. ASSUME NEW w \in Workers, LoadIntoProto(w)
      PROVE  job' \in [Workers -> Jobs]
  <2>1. job[w].file \in Files
    BY <1>9 DEF LoadIntoProto, JobInv, TypeOK
  <2>2. Return(w) \/ \E x \in {disk[job[w].file], Torn} : job' = [job EXCEPT ![w].content = x]
    BY <1>9 DEF LoadIntoProto
  <2> QED
    BY <1>2, <2>1, <2>2 DEF TypeOK, Jobs, OnDisk
<1>10. CASE Restart
  BY <1>1, <1>10 DEF Restart
<1>11. ASSUME job' = job PROVE job' \in [Workers -> Jobs]
  BY <1>11 DEF TypeOK
<1>12. ASSUME NEW w \in Workers,
              \/ CreateFileFails(w) \/ ReplyMessage(w) \/ SetFileMsg(w)
              \/ CheckDiskExistence(w) \/ OpenFile(w) \/ AnswerUpload(w)
              \/ DelFileMsg(w) \/ Forward(w) \/ AnswerDownload(w) \/ ReplyFails(w)
       PROVE  Return(w) \/ job' = job
  BY <1>12 DEF CreateFileFails, ReplyMessage, SetFileMsg, CheckDiskExistence, OpenFile,
               AnswerUpload, DelFileMsg, Forward, AnswerDownload, ReplyFails
<1>13. ASSUME NEW t \in Users, SetupChannel(t) PROVE job' = job
  BY <1>13 DEF SetupChannel
<1> QED
  BY <1>2, <1>3, <1>4, <1>5, <1>6, <1>7, <1>8, <1>9, <1>10, <1>11, <1>12, <1>13 DEF Next

(* The types; only the steps named below change more than step and job.    *)
LEMMA TypeOKNext ==
  ASSUME TypeInv, Next
  PROVE  TypeOK'
<1> USE DEF TypeInv, TypeOK, tables, client, history
<1>1. job' \in [Workers -> Jobs]
  BY JobsNext
<1>2. step' \in [Workers -> Steps]
  <2>1. ASSUME NEW w \in Workers, NEW l \in Steps, Goto(w, l)
        PROVE  step' \in [Workers -> Steps]
    BY <2>1 DEF Goto
  <2>2. CASE \E w \in Workers, l \in Steps : Goto(w, l)
    BY <2>1, <2>2
  <2>3. CASE \A w \in Workers : \A l \in Steps : ~Goto(w, l)
    BY <2>3 DEF Next, Start, Return, Steps, SendFileMessage, CreateFile, CreateFileFails,
                ReplyMessage, SetFileMsg, Upload, CheckDiskExistence, OpenFile, WriteFile,
                UpdateFile, AnswerUpload, GetFileMsg, DelFileMsg, Forward, Download,
                LoadIntoProto, AnswerDownload, ReplyFails, SetupChannel, Restart
  <2> QED
    BY <2>2, <2>3
<1>3. ASSUME NEW w \in Workers, NEW f \in Files, CreateFile(w, f)
      PROVE  TypeOK'
  BY <1>1, <1>2, <1>3 DEF CreateFile, Jobs
<1>4. ASSUME NEW w \in Workers, CreateFileFails(w) \/ ReplyMessage(w) \/ SetFileMsg(w)
      PROVE  TypeOK'
  <2>1. CASE CreateFileFails(w)
    BY <1>1, <1>2, <2>1 DEF CreateFileFails
  <2>2. CASE ReplyMessage(w)
    BY <1>1, <1>2, <2>2 DEF ReplyMessage, JobInv
  <2>3. CASE SetFileMsg(w)
    <3>1. job[w].to \in Users \cup {NoUser}
      BY DEF Jobs
    <3> QED
      BY <1>1, <1>2, <2>3, <3>1 DEF SetFileMsg
  <2> QED
    BY <1>4, <2>1, <2>2, <2>3
<1>5. ASSUME NEW w \in Workers, NEW f \in Files, NEW x \in Contents, Upload(w, f, x)
      PROVE  TypeOK'
  BY <1>1, <1>2, <1>5 DEF Upload
<1>6. ASSUME NEW w \in Workers, OpenFile(w)
      PROVE  TypeOK'
  BY <1>1, <1>2, <1>6 DEF OpenFile, JobInv, OnDisk
<1>7. ASSUME NEW w \in Workers, WriteFile(w)
      PROVE  TypeOK'
  BY <1>1, <1>2, <1>7 DEF WriteFile, JobInv, OnDisk
<1>8. ASSUME NEW w \in Workers, UpdateFile(w)
      PROVE  TypeOK'
  BY <1>1, <1>2, <1>8 DEF UpdateFile, JobInv
<1>9. ASSUME NEW w \in Workers, AnswerUpload(w) \/ DelFileMsg(w) \/ Forward(w)
      PROVE  TypeOK'
  BY <1>1, <1>2, <1>9 DEF AnswerUpload, DelFileMsg, Forward, JobInv
<1>10. ASSUME NEW t \in Users, SetupChannel(t)
       PROVE  TypeOK'
  BY <1>1, <1>2, <1>10 DEF SetupChannel
<1>11. CASE Restart
  <2>1. {job[w].file : w \in {v \in Workers : step[v] = "write"}} \subseteq Files
    BY DEF JobInv
  <2> QED
    BY <1>1, <1>2, <1>11, <2>1 DEF Restart
<1>12. CASE UNCHANGED <<files, hash, disk, pool, online, told, tried, to, owed, saved,
                        notified, spoilt>>
  BY <1>1, <1>2, <1>12
<1> QED
  BY <1>3, <1>4, <1>5, <1>6, <1>7, <1>8, <1>9, <1>10, <1>11, <1>12
  DEF Next, SendFileMessage, CheckDiskExistence, GetFileMsg, Download, LoadIntoProto,
      AnswerDownload, ReplyFails

(* JobInv, step by step.                                                   *)
LEMMA JobInvNext ==
  ASSUME TypeInv, Next
  PROVE  JobInv'
<1> USE FileAssumption DEF TypeInv, TypeOK, JobInv, Goto, tables, client, history
<1>1. ASSUME NEW w \in Workers, NEW t \in Users, SendFileMessage(w, t)
      PROVE  JobInv'
  BY <1>1 DEF SendFileMessage, Start, NoJob
<1>2. ASSUME NEW w \in Workers, NEW f \in Files, CreateFile(w, f) \/ Download(w, f)
      PROVE  JobInv'
  <2>1. CASE CreateFile(w, f)
    BY <2>1 DEF CreateFile, Jobs
  <2>2. CASE Download(w, f)
    BY <2>2 DEF Download, Start, NoJob, HashInv
  <2> QED
    BY <1>2, <2>1, <2>2
<1>3. ASSUME NEW w \in Workers, CreateFileFails(w) \/ ReplyMessage(w) \/ SetFileMsg(w)
      PROVE  JobInv'
  BY <1>3 DEF CreateFileFails, ReplyMessage, SetFileMsg, Return, NoJob
<1>4. ASSUME NEW w \in Workers, NEW f \in Files, NEW x \in Contents, Upload(w, f, x)
      PROVE  JobInv'
  BY <1>4 DEF Upload, Start, NoJob
<1>5. ASSUME NEW w \in Workers, CheckDiskExistence(w) \/ OpenFile(w)
      PROVE  JobInv'
  BY <1>5 DEF CheckDiskExistence, OpenFile
<1>6. ASSUME NEW w \in Workers, WriteFile(w)
      PROVE  JobInv'
  <2>1. PICK b \in BOOLEAN : job' = [job EXCEPT ![w].ok = b]
    BY <1>6 DEF WriteFile
  <2>2. /\ job'[w].file = job[w].file /\ job'[w].content = job[w].content
        /\ \A v \in Workers : v # w => job'[v] = job[v]
    BY <2>1 DEF Jobs
  <2>3. /\ step[w] = "write" /\ step' = [step EXCEPT ![w] = "update"]
        /\ UNCHANGED <<files, hash, tried, to>>
    BY <1>6 DEF WriteFile
  <2> QED
    BY <2>2, <2>3
<1>7. ASSUME NEW w \in Workers, UpdateFile(w)
      PROVE  JobInv'
  BY <1>7 DEF UpdateFile, Jobs
<1>8. ASSUME NEW w \in Workers, AnswerUpload(w)
      PROVE  JobInv'
  BY <1>8 DEF AnswerUpload, Return, NoJob
<1>9. ASSUME NEW w \in Workers, GetFileMsg(w) \/ DelFileMsg(w) \/ Forward(w)
      PROVE  JobInv'
  BY <1>9 DEF GetFileMsg, DelFileMsg, Forward, Return, NoJob, Jobs
<1>10. ASSUME NEW w \in Workers, LoadIntoProto(w)
       PROVE  JobInv'
  BY <1>10 DEF LoadIntoProto, Return, NoJob, Jobs
<1>11. ASSUME NEW w \in Workers, AnswerDownload(w) \/ ReplyFails(w)
       PROVE  JobInv'
  BY <1>11 DEF AnswerDownload, ReplyFails, Return, NoJob
<1>12. CASE Restart
  BY <1>12 DEF Restart, NoJob
<1>13. ASSUME NEW t \in Users, SetupChannel(t) PROVE JobInv'
  BY <1>13 DEF SetupChannel
<1> QED
  BY <1>1, <1>2, <1>3, <1>4, <1>5, <1>6, <1>7, <1>8, <1>9, <1>10, <1>11, <1>12, <1>13
  DEF Next

(* A hash is put into the table by an upload; who is notified is notified  *)
(* by one that had success.                                                *)
LEMMA HashInvNext ==
  ASSUME TypeInv, Next
  PROVE  HashInv'
<1> USE DEF TypeInv, TypeOK, HashInv, tables, client, history
<1>1. ASSUME NEW w \in Workers, NEW f \in Files, CreateFile(w, f)
      PROVE  HashInv'
  BY <1>1 DEF CreateFile
<1>2. ASSUME NEW w \in Workers, CreateFileFails(w) \/ ReplyMessage(w)
      PROVE  HashInv'
  BY <1>2 DEF CreateFileFails, ReplyMessage, JobInv
<1>3. ASSUME NEW w \in Workers, NEW f \in Files, NEW x \in Contents, Upload(w, f, x)
      PROVE  HashInv'
  BY <1>3 DEF Upload
<1>4. ASSUME NEW w \in Workers, UpdateFile(w)
      PROVE  HashInv'
  BY <1>4, FileAssumption DEF UpdateFile, JobInv
<1>5. ASSUME NEW w \in Workers, Forward(w)
      PROVE  HashInv'
  BY <1>5 DEF Forward, JobInv
<1>6. CASE Restart
  BY <1>6 DEF Restart
<1>7. CASE UNCHANGED <<files, hash, tried, owed, notified>>
  BY <1>7
<1> QED
  BY <1>1, <1>2, <1>3, <1>4, <1>5, <1>6, <1>7
  DEF Next, SendFileMessage, SetFileMsg, CheckDiskExistence, OpenFile, WriteFile,
      AnswerUpload, GetFileMsg, DelFileMsg, Download, LoadIntoProto, AnswerDownload,
      ReplyFails, SetupChannel

(* TypeInv holds of an empty table and an empty directory.                 *)
LEMMA TypeInit == Init => TypeInv
  BY FileAssumption DEF Init, TypeInv, TypeOK, JobInv, HashInv, NoJob, Jobs, OnDisk, Steps

(* TypeInv, all steps together.                                            *)
LEMMA TypeNext == TypeInv /\ [Next]_vars => TypeInv'
<1>1. CASE Next
  BY <1>1, TypeOKNext, JobInvNext, HashInvNext DEF TypeInv
<1>2. CASE UNCHANGED vars
  BY <1>2 DEF vars, TypeInv, TypeOK, JobInv, HashInv
<1> QED
  BY <1>1, <1>2
-----------------------------------------------------------------------------
(* Only a client's Upload makes a file tried or a worker upload it.        *)
LEMMA OneUploadNext == TypeInv /\ OneUpload /\ [Next]_vars => OneUpload'
<1> DEFINE Uploads(v, f) ==
      job[v].file = f /\ step[v] \in {"check", "open", "write", "update", "answer"}
<1> SUFFICES ASSUME TypeInv, OneUpload, [Next]_vars PROVE OneUpload'
  OBVIOUS
<1>1. ASSUME NEW w \in Workers, NEW f \in Files, NEW x \in Contents, Upload(w, f, x)
      PROVE  OneUpload'
  <2>1. /\ step[w] = "idle" /\ step' = [step EXCEPT ![w] = "check"]
        /\ tried' = [tried EXCEPT ![f] = @ \cup {x}]
        /\ job'[w].file = f /\ \A v \in Workers : v # w => job'[v] = job[v]
    BY <1>1 DEF Upload, Start, Goto, NoJob, TypeInv, TypeOK
  <2>2. f \notin Contested => tried[f] \subseteq {x} /\ \A v \in Workers : ~Uploads(v, f)
    BY <1>1 DEF Upload, ClientMayUpload, Uploading
  <2>3. ASSUME NEW g \in Files \ Contested, NEW y \in tried'[g], NEW z \in tried'[g]
        PROVE  y = z
    BY <2>1, <2>2 DEF OneUpload, TypeInv, TypeOK
  <2>4. ASSUME NEW g \in Files \ Contested, NEW u \in Workers, NEW v \in Workers,
               Uploads(u, g)', Uploads(v, g)'
        PROVE  u = v
    BY <2>1, <2>2, <2>4 DEF OneUpload, TypeInv, TypeOK
  <2> QED
    BY <2>3, <2>4 DEF OneUpload
<1>2. ASSUME tried' = tried,
             \A v \in Workers, f \in Files : Uploads(v, f)' => Uploads(v, f)
      PROVE  OneUpload'
  BY <1>2 DEF OneUpload
<1>3. ASSUME NEW w \in Workers, Return(w), tried' = tried
      PROVE  OneUpload'
  BY <1>2, <1>3 DEF Return, Goto, TypeInv, TypeOK
<1>4. ASSUME NEW w \in Workers, NEW t \in Users, SendFileMessage(w, t)
      PROVE  OneUpload'
  BY <1>2, <1>4 DEF SendFileMessage, Start, Goto, client, TypeInv, TypeOK
<1>5. ASSUME NEW w \in Workers, NEW f \in Files, CreateFile(w, f) \/ Download(w, f)
      PROVE  OneUpload'
  BY <1>2, <1>5 DEF CreateFile, Download, Start, Goto, client, TypeInv, TypeOK
<1>6. ASSUME NEW w \in Workers, CreateFileFails(w) \/ ReplyMessage(w) \/ SetFileMsg(w)
      PROVE  OneUpload'
  BY <1>2, <1>3, <1>6 DEF CreateFileFails, ReplyMessage, SetFileMsg, Goto, client, TypeInv, TypeOK
<1>7. ASSUME NEW w \in Workers, CheckDiskExistence(w) \/ OpenFile(w)
      PROVE  OneUpload'
  BY <1>2, <1>7 DEF CheckDiskExistence, OpenFile, Goto, client, TypeInv, TypeOK
<1>8. ASSUME NEW w \in Workers, WriteFile(w) \/ UpdateFile(w)
      PROVE  OneUpload'
  <2>1. /\ step[w] \in {"write", "update"}
        /\ \E l \in {"update", "answer"} : step' = [step EXCEPT ![w] = l]
        /\ tried' = tried
    BY <1>8 DEF WriteFile, UpdateFile, Goto, client
  <2>2. job' = job \/ \E b \in BOOLEAN : job' = [job EXCEPT ![w].ok = b]
    BY <1>8 DEF WriteFile, UpdateFile
  <2>3. \A v \in Workers : job'[v].file = job[v].file
    BY <2>2 DEF TypeInv, TypeOK, Jobs
  <2> QED
    BY <1>2, <2>1, <2>3 DEF TypeInv, TypeOK
<1>9. ASSUME NEW w \in Workers, AnswerUpload(w) \/ GetFileMsg(w) \/ DelFileMsg(w) \/ Forward(w)
      PROVE  OneUpload'
  BY <1>2, <1>3, <1>9
  DEF AnswerUpload, GetFileMsg, DelFileMsg, Forward, Goto, tables, client, history, TypeInv, TypeOK
<1>10. ASSUME NEW w \in Workers, LoadIntoProto(w) \/ AnswerDownload(w) \/ ReplyFails(w)
      PROVE  OneUpload'
  BY <1>2, <1>3, <1>10
  DEF LoadIntoProto, AnswerDownload, ReplyFails, Goto, client, TypeInv, TypeOK
<1>11. ASSUME NEW t \in Users, SetupChannel(t) PROVE OneUpload'
  BY <1>11 DEF SetupChannel, client, OneUpload
<1>12. CASE Restart
  BY <1>2, <1>12 DEF Restart
<1>13. CASE UNCHANGED vars
  BY <1>13 DEF vars, OneUpload
<1> QED
  BY <1>1, <1>4, <1>5, <1>6, <1>7, <1>8, <1>9, <1>10, <1>11, <1>12, <1>13 DEF Next

(* An ordinary file goes from nothing over Empty to the one content that   *)
(* was tried, and only then the row gets that content: the one upload of   *)
(* the file is at the step that says so.                                   *)
LEMMA DiskNext == TypeInv /\ OneUpload /\ DiskInv /\ [Next]_vars => DiskInv'
<1> SUFFICES ASSUME TypeInv, OneUpload, DiskInv, [Next]_vars PROVE DiskInv'
  OBVIOUS
<1> USE DEF TypeInv, DiskInv, Ordinary, Goto, tables, client, history
<1>1. ASSUME NEW w \in Workers, NEW t \in Users, SendFileMessage(w, t)
      PROVE  DiskInv'
  BY <1>1 DEF SendFileMessage, Start, TypeOK
<1>2. ASSUME NEW w \in Workers, NEW f \in Files, CreateFile(w, f) \/ Download(w, f)
      PROVE  DiskInv'
  BY <1>2 DEF CreateFile, Download, Start, TypeOK
<1>3. ASSUME NEW w \in Workers, CreateFileFails(w) \/ ReplyMessage(w) \/ SetFileMsg(w)
      PROVE  DiskInv'
  BY <1>3 DEF CreateFileFails, ReplyMessage, SetFileMsg, Return, TypeOK
<1>4. ASSUME NEW w \in Workers, NEW f \in Files, NEW x \in Contents, Upload(w, f, x)
      PROVE  DiskInv'
  BY <1>4 DEF Upload, Start, TypeOK
<1>5. ASSUME NEW w \in Workers, CheckDiskExistence(w)
      PROVE  DiskInv'
  <2> DEFINE f == job[w].file
  <2>1. /\ step[w] = "check" /\ f \in Files /\ job[w].content \in tried[f]
        /\ step' = [step EXCEPT ![w] = IF disk[f] = NoContent THEN "open" ELSE "update"]
        /\ UNCHANGED <<hash, disk, job, tried, spoilt>>
    BY <1>5 DEF CheckDiskExistence, JobInv, TypeOK
  <2>2. f \in Ordinary /\ disk[f] # NoContent => disk[f] = job[w].content
    BY <2>1 DEF OneUpload, TypeOK
  <2> QED
    BY <2>1, <2>2 DEF TypeOK
<1>6. ASSUME NEW w \in Workers, OpenFile(w)
      PROVE  DiskInv'
  <2> DEFINE f == job[w].file
  <2>1. /\ step[w] = "open" /\ f \in Files
        /\ UNCHANGED <<hash, job, tried>>
    BY <1>6 DEF OpenFile, JobInv, TypeOK
  <2>2. f \in Ordinary => \A v \in Workers :
          job[v].file = f /\ step[v] \in {"open", "write", "update"} => v = w
    BY <2>1 DEF OneUpload
  <2>3. CASE /\ disk' = [disk EXCEPT ![f] = Empty]
             /\ step' = [step EXCEPT ![w] = "write"] /\ UNCHANGED spoilt
    BY <2>1, <2>2, <2>3, FileAssumption DEF TypeOK
  <2>4. CASE /\ UNCHANGED disk /\ step' = [step EXCEPT ![w] = "update"]
             /\ spoilt' = spoilt \cup {f}
    BY <2>1, <2>4 DEF TypeOK
  <2> QED
    BY <1>6, <2>3, <2>4 DEF OpenFile
<1>7. ASSUME NEW w \in Workers, WriteFile(w)
      PROVE  DiskInv'
  <2> DEFINE f == job[w].file
             x == job[w].content
  <2>1. /\ step[w] = "write" /\ f \in Files /\ x \in tried[f]
        /\ step' = [step EXCEPT ![w] = "update"]
        /\ UNCHANGED <<hash, tried>>
    BY <1>7 DEF WriteFile, JobInv, TypeOK
  <2>2. \A v \in Workers : job'[v].file = job[v].file /\ job'[v].content = job[v].content
    <3>1. \E b \in BOOLEAN : job' = [job EXCEPT ![w].ok = b]
      BY <1>7 DEF WriteFile
    <3> QED
      BY <3>1 DEF TypeOK, Jobs
  <2>3. f \in Ordinary => \A v \in Workers :
          job[v].file = f /\ step[v] \in {"open", "write", "update"} => v = w
    BY <2>1 DEF OneUpload
  <2>4. CASE f \in Ordinary'
    <3>1. disk[f] = Empty /\ disk' = [disk EXCEPT ![f] = x] /\ UNCHANGED spoilt
      BY <1>7, <2>1, <2>4 DEF WriteFile
    <3> QED
      BY <2>1, <2>2, <2>3, <2>4, <3>1, FileAssumption DEF TypeOK, HashInv
  <2>5. CASE f \notin Ordinary'
    <3>1. \A g \in Ordinary' : g # f /\ g \in Ordinary /\ disk'[g] = disk[g]
      BY <1>7, <2>5 DEF WriteFile, TypeOK
    <3> QED
      BY <2>1, <2>2, <3>1 DEF TypeOK
  <2> QED
    BY <2>4, <2>5
<1>8. ASSUME NEW w \in Workers, UpdateFile(w)
      PROVE  DiskInv'
  <2> DEFINE f == job[w].file
  <2>1. /\ step[w] = "update" /\ f \in Files
        /\ step' = [step EXCEPT ![w] = "answer"]
        /\ hash' = hash \/ hash' = [hash EXCEPT ![f] = job[w].content]
        /\ UNCHANGED <<disk, tried, spoilt>>
    BY <1>8 DEF UpdateFile, JobInv, TypeOK
  <2>2. \A v \in Workers : job'[v].file = job[v].file /\ job'[v].content = job[v].content
    <3>1. job' = job \/ \E b \in BOOLEAN : job' = [job EXCEPT ![w].ok = b]
      BY <1>8 DEF UpdateFile
    <3> QED
      BY <3>1 DEF TypeOK, Jobs
  <2> QED
    BY <2>1, <2>2 DEF TypeOK
<1>9. ASSUME NEW w \in Workers, AnswerUpload(w) \/ GetFileMsg(w) \/ DelFileMsg(w) \/ Forward(w)
      PROVE  DiskInv'
  BY <1>9 DEF AnswerUpload, GetFileMsg, DelFileMsg, Forward, Return, TypeOK, Jobs
<1>10. ASSUME NEW w \in Workers, LoadIntoProto(w) \/ AnswerDownload(w) \/ ReplyFails(w)
       PROVE  DiskInv'
  BY <1>10 DEF LoadIntoProto, AnswerDownload, ReplyFails, Return, TypeOK
<1>11. ASSUME NEW t \in Users, SetupChannel(t) PROVE DiskInv'
  BY <1>11 DEF SetupChannel
<1>12. CASE Restart
  BY <1>12 DEF Restart, TypeOK
<1>13. CASE UNCHANGED vars
  BY <1>13 DEF vars
<1> QED
  BY <1>1, <1>2, <1>3, <1>4, <1>5, <1>6, <1>7, <1>8, <1>9, <1>10, <1>11, <1>12, <1>13 DEF Next

(* The row is read before the file: when it had a hash, the file was       *)
(* complete then and is not written any more.                              *)
LEMMA WholeNext ==
  TypeInv /\ OneUpload /\ DiskInv /\ DownloadIsWhole /\ [Next]_vars => DownloadIsWhole'
<1> SUFFICES ASSUME TypeInv, OneUpload, DiskInv, DownloadIsWhole, [Next]_vars
             PROVE  DownloadIsWhole'
  OBVIOUS
<1> USE DEF TypeInv, DownloadIsWhole, Ordinary, Goto, tables, client, history
<1>1. ASSUME NEW w \in Workers, LoadIntoProto(w)
      PROVE  DownloadIsWhole'
  <2> DEFINE f == job[w].file
  <2>1. CASE Return(w)
    BY <1>1, <2>1 DEF LoadIntoProto, Return, TypeOK
  <2>2. ASSUME NEW x, job' = [job EXCEPT ![w].content = x],
               \/ x = disk[f]
               \/ x = Torn /\ \E v \in Workers : step[v] = "write" /\ job[v].file = f
        PROVE  DownloadIsWhole'
    <3>1. step[w] = "load" /\ f \in Files /\ UNCHANGED spoilt
      BY <1>1 DEF LoadIntoProto, JobInv, TypeOK
    <3>2. \A v \in Workers : v # w => job'[v] = job[v] /\ step'[v] = step[v]
      BY <1>1, <2>2 DEF LoadIntoProto, Return, TypeOK
    <3>3. job'[w].file = f /\ job'[w].hash = job[w].hash /\ job'[w].content = x
      BY <2>2 DEF TypeOK, Jobs
    <3>4. ASSUME f \in Ordinary, job[w].hash # NoContent PROVE x = job[w].hash
      <4>1. job[w].hash \in tried[f] /\ hash[f] # NoContent /\ hash[f] \in tried[f]
        BY <3>1, <3>4 DEF JobInv, HashInv, TypeOK
      <4>2. disk[f] = job[w].hash /\ disk[f] # Empty
        BY <3>1, <3>4, <4>1, FileAssumption DEF DiskInv, OneUpload, TypeOK
      <4> QED
        BY <2>2, <3>1, <3>4, <4>2 DEF DiskInv
    <3> QED
      BY <3>1, <3>2, <3>3, <3>4
  <2> QED
    BY <1>1, <2>1, <2>2 DEF LoadIntoProto
<1>2. ASSUME NEW w \in Workers, NEW t \in Users, SendFileMessage(w, t)
      PROVE  DownloadIsWhole'
  BY <1>2 DEF SendFileMessage, Start, TypeOK
<1>3. ASSUME NEW w \in Workers, NEW f \in Files, CreateFile(w, f) \/ Download(w, f)
      PROVE  DownloadIsWhole'
  BY <1>3 DEF CreateFile, Download, Start, TypeOK
<1>4. ASSUME NEW w \in Workers, NEW f \in Files, NEW x \in Contents, Upload(w, f, x)
      PROVE  DownloadIsWhole'
  BY <1>4 DEF Upload, Start, TypeOK
<1>5. ASSUME NEW w \in Workers, WriteFile(w) \/ UpdateFile(w)
      PROVE  DownloadIsWhole'
  <2>1. \A v \in Workers : v # w => job'[v] = job[v]
    <3>1. job' = job \/ \E b \in BOOLEAN : job' = [job EXCEPT ![w].ok = b]
      BY <1>5 DEF WriteFile, UpdateFile
    <3> QED
      BY <3>1 DEF TypeOK
  <2> QED
    BY <1>5, <2>1 DEF WriteFile, UpdateFile, TypeOK
<1>6. ASSUME NEW w \in Workers,
             \/ CreateFileFails(w) \/ ReplyMessage(w) \/ SetFileMsg(w)
             \/ CheckDiskExistence(w) \/ OpenFile(w) \/ AnswerUpload(w)
      PROVE  DownloadIsWhole'
  BY <1>6 DEF CreateFileFails, ReplyMessage, SetFileMsg, CheckDiskExistence, OpenFile,
              AnswerUpload, Return, TypeOK
<1>7. ASSUME NEW w \in Workers,
             \/ GetFileMsg(w) \/ DelFileMsg(w) \/ Forward(w)
             \/ AnswerDownload(w) \/ ReplyFails(w)
      PROVE  DownloadIsWhole'
  BY <1>7 DEF GetFileMsg, DelFileMsg, Forward, AnswerDownload, ReplyFails, Return, TypeOK
<1>8. ASSUME NEW t \in Users, SetupChannel(t) PROVE DownloadIsWhole'
  BY <1>8 DEF SetupChannel
<1>9. CASE Restart
  BY <1>9 DEF Restart
<1>10. CASE UNCHANGED vars
  BY <1>10 DEF vars
<1> QED
  BY <1>1, <1>2, <1>3, <1>4, <1>5, <1>6, <1>7, <1>8, <1>9, <1>10 DEF Next

(* The inductive invariant holds initially.                                *)
LEMMA IInvInit == Init => IInv
<1> SUFFICES ASSUME Init PROVE IInv
  OBVIOUS
<1>1. OneUpload
  BY DEF Init, OneUpload
<1>2. DiskInv
  BY FileAssumption DEF Init, DiskInv, Ordinary
<1>3. DownloadIsWhole
  BY DEF Init, DownloadIsWhole
<1> QED
  BY <1>1, <1>2, <1>3, TypeInit DEF IInv

(* Every step keeps the inductive invariant.                               *)
LEMMA IInvNext == IInv /\ [Next]_vars => IInv'
  BY TypeNext, OneUploadNext, DiskNext, WholeNext DEF IInv
-----------------------------------------------------------------------------
(* Every variable of the file transfer keeps its type: an id a client was  *)
(* told has a row, a worker is at one of the steps of a handler of         *)
(* Server.cpp, and what files/ holds is one of the things saveToDisk can   *)
(* leave there.                                                            *)
THEOREM FileTypes == Spec => []TypeOK
<1>1. TypeInv => TypeOK
  BY DEF TypeInv
<1> QED
  BY TypeInit, TypeNext, <1>1, PTL DEF Spec

(* Whatever the interleaving of handlers and however often the process     *)
(* ends, a download of an ordinary file that finds a hash in the row gives *)
(* the content of that hash (Server.cpp, the FileDownloadRequest handler:  *)
(* queryFile, then loadIntoProto, with nothing that holds them together).  *)
THEOREM DownloadsAreWhole == Spec => []DownloadIsWhole
<1>1. IInv => DownloadIsWhole
  BY DEF IInv
<1> QED
  BY IInvInit, IInvNext, <1>1, PTL DEF Spec

(* The callback of an upload forwards the message only after the file was  *)
(* saved and its row updated, so the receiver can download it at once.     *)
THEOREM NotifiedAreServable == Spec => []NotifiedIsServable
<1>1. IInv => NotifiedIsServable
  BY DEF IInv, TypeInv, TypeOK, HashInv, DiskInv, NotifiedIsServable, Ordinary
<1> QED
  BY IInvInit, IInvNext, <1>1, PTL DEF Spec
-----------------------------------------------------------------------------
(* The message of a file moves from the worker that registers it to the    *)
(* pool, from there to a worker that forwards it, and from there to the    *)
(* receiver, and each of these takes it over before the other lets it go.  *)
LEMMA ForwardedOrWaitingNext ==
  TypeInv /\ ForwardedOrWaiting /\ [Next]_vars => ForwardedOrWaiting'
<1> SUFFICES ASSUME TypeInv, ForwardedOrWaiting, [Next]_vars
             PROVE  ForwardedOrWaiting'
  OBVIOUS
<1> USE DEF TypeInv, ForwardedOrWaiting, Goto, tables, client, history
<1>1. ASSUME NEW w \in Workers, NEW t \in Users, SendFileMessage(w, t)
      PROVE  ForwardedOrWaiting'
  BY <1>1 DEF SendFileMessage, Start, TypeOK
<1>2. ASSUME NEW w \in Workers, NEW f \in Files, CreateFile(w, f) \/ Download(w, f)
      PROVE  ForwardedOrWaiting'
  BY <1>2 DEF CreateFile, Download, Start, TypeOK, HashInv
<1>3. ASSUME NEW w \in Workers, CreateFileFails(w) \/ ReplyMessage(w)
      PROVE  ForwardedOrWaiting'
  BY <1>3 DEF CreateFileFails, ReplyMessage, Return, TypeOK
<1>4. ASSUME NEW w \in Workers, SetFileMsg(w)
      PROVE  ForwardedOrWaiting'
  <2>1. /\ step[w] = "register" /\ pool' = [pool EXCEPT ![job[w].file] = to[job[w].file]]
        /\ job[w].file \in Files
    BY <1>4 DEF SetFileMsg, JobInv, TypeOK
  <2> QED
    BY <1>4, <2>1 DEF SetFileMsg, Return, TypeOK
<1>5. ASSUME NEW w \in Workers, NEW f \in Files, NEW x \in Contents, Upload(w, f, x)
      PROVE  ForwardedOrWaiting'
  BY <1>5 DEF Upload, Start, TypeOK
<1>6. ASSUME NEW w \in Workers,
             \/ CheckDiskExistence(w) \/ OpenFile(w) \/ AnswerUpload(w)
             \/ AnswerDownload(w) \/ ReplyFails(w)
      PROVE  ForwardedOrWaiting'
  BY <1>6 DEF CheckDiskExistence, OpenFile, AnswerUpload, AnswerDownload, ReplyFails,
              Return, TypeOK
<1>7. ASSUME NEW w \in Workers, WriteFile(w) \/ UpdateFile(w) \/ LoadIntoProto(w)
      PROVE  ForwardedOrWaiting'
  <2>1. /\ step[w] \in {"write", "update", "load"}
        /\ \A v \in Workers : v # w => step'[v] = step[v] /\ job'[v] = job[v]
        /\ UNCHANGED <<pool, to, owed, notified>>
    BY <1>7 DEF WriteFile, UpdateFile, LoadIntoProto, Return, TypeOK
  <2> QED
    BY <2>1
<1>8. ASSUME NEW w \in Workers, GetFileMsg(w)
      PROVE  ForwardedOrWaiting'
  BY <1>8 DEF GetFileMsg, Return, TypeOK
<1>9. ASSUME NEW w \in Workers, DelFileMsg(w)
      PROVE  ForwardedOrWaiting'
  BY <1>9 DEF DelFileMsg, TypeOK
<1>10. ASSUME NEW w \in Workers, Forward(w)
       PROVE  ForwardedOrWaiting'
  BY <1>10 DEF Forward, Return, TypeOK
<1>11. ASSUME NEW t \in Users, SetupChannel(t) PROVE ForwardedOrWaiting'
  BY <1>11 DEF SetupChannel
<1>12. CASE Restart
  BY <1>12 DEF Restart
<1>13. CASE UNCHANGED vars
  BY <1>13 DEF vars
<1> QED
  BY <1>1, <1>2, <1>3, <1>4, <1>5, <1>6, <1>7, <1>8, <1>9, <1>10, <1>11, <1>12, <1>13 DEF Next

(* A file message whose sender was answered is never lost while the        *)
(* process runs, although nothing is held from the look up in the pool to  *)
(* the deletion (Server.cpp:409-416 in the upload's callback, Server.cpp:  *)
(* 318 in the message's).                                                  *)
THEOREM NothingOwedIsLost == Spec => []ForwardedOrWaiting
<1>1. Init => ForwardedOrWaiting
  BY DEF Init, ForwardedOrWaiting
<1> QED
  BY <1>1, TypeInit, TypeNext, ForwardedOrWaitingNext, PTL DEF Spec
-----------------------------------------------------------------------------
(* What a download gives of an ordinary file changes once, when the row is *)
(* updated by the upload that wrote the file.                              *)
LEMMA StoreNext == IInv /\ IInv' /\ [Next]_vars => [Store!Next]_Downloadable
<1> SUFFICES ASSUME IInv, IInv', [Next]_vars PROVE [Store!Next]_Downloadable
  OBVIOUS
<1> USE DEF IInv, TypeInv, Goto, tables, client, history
<1>1. ASSUME NEW w \in Workers, UpdateFile(w)
      PROVE  [Store!Next]_Downloadable
  <2> DEFINE f == job[w].file
             x == job[w].content
  <2>1. /\ step[w] = "update" /\ f \in Files /\ x \in Contents
        /\ hash' = hash \/ hash' = [hash EXCEPT ![f] = x]
        /\ UNCHANGED <<disk, spoilt>>
    BY <1>1 DEF UpdateFile, JobInv, TypeOK
  <2>2. CASE hash' = hash \/ f \notin Ordinary
    BY <2>1, <2>2 DEF Downloadable, Ordinary, TypeOK
  <2>3. CASE hash' = [hash EXCEPT ![f] = x] /\ f \in Ordinary
    <3>1. disk[f] = x
      BY <2>1, <2>3 DEF DiskInv
    <3>2. CASE hash[f] # NoContent
      BY <2>1, <2>3, <3>1, <3>2, FileAssumption DEF Downloadable, Ordinary, TypeOK
    <3>3. CASE hash[f] = NoContent
      <4>1. Store!Publish(f, x)
        BY <2>1, <2>3, <3>1, <3>3, FileAssumption
        DEF Store!Publish, Downloadable, Ordinary, TypeOK
      <4> QED
        BY <2>1, <4>1 DEF Store!Next
    <3> QED
      BY <3>2, <3>3
  <2> QED
    BY <2>1, <2>2, <2>3
<1>2. ASSUME UNCHANGED <<hash, disk, spoilt>> PROVE UNCHANGED Downloadable
  BY <1>2 DEF Downloadable, Ordinary
<1>3. ASSUME NEW w \in Workers, OpenFile(w) \/ WriteFile(w)
      PROVE  UNCHANGED Downloadable
  <2> DEFINE f == job[w].file
  <2>1. /\ f \in Files /\ step[w] \in {"open", "write"}
        /\ hash' = hash /\ spoilt \subseteq spoilt' /\ spoilt' \subseteq spoilt \cup {f}
        /\ \A g \in Files \ {f} : disk'[g] = disk[g]
    BY <1>3 DEF OpenFile, WriteFile, JobInv, TypeOK
  <2>2. f \in Ordinary => hash[f] = NoContent
    BY <2>1, FileAssumption DEF DiskInv, TypeOK
  <2> QED
    BY <2>1, <2>2 DEF Downloadable, Ordinary
<1>4. CASE Restart
  <2>1. \A f \in Ordinary \ Ordinary' : hash[f] = NoContent
    BY <1>4, FileAssumption DEF Restart, Ordinary, DiskInv, TypeOK
  <2> QED
    BY <1>4, <2>1 DEF Restart, Downloadable, Ordinary
<1>5. CASE UNCHANGED vars
  BY <1>2, <1>5 DEF vars
<1> QED
  BY <1>1, <1>2, <1>3, <1>4, <1>5
  DEF Next, SendFileMessage, CreateFile, CreateFileFails, ReplyMessage, SetFileMsg, Upload,
      CheckDiskExistence, AnswerUpload, GetFileMsg, DelFileMsg, Forward, Download,
      LoadIntoProto, AnswerDownload, ReplyFails, SetupChannel

(* The table, the directory and the handlers implement a store in which a  *)
(* file, once it can be downloaded, can be downloaded for good and with    *)
(* the same content: across further uploads, concurrent downloads and      *)
(* restarts, for files uploaded one at a time and saved without an error.  *)
THEOREM FileTransferImplementsFileStore == Spec => ImplementsFileStore
<1>1. Init => Store!Init
  BY DEF Init, Store!Init, Downloadable
<1> QED
  BY <1>1, IInvInit, IInvNext, StoreNext, PTL DEF Spec, ImplementsFileStore, Store!Spec
-----------------------------------------------------------------------------
(* With one worker the message of a file is in the pool before an upload   *)
(* of the file is handled, and the upload's callback finds it there.       *)
PooledInv ==
  /\ saved \subseteq told
  /\ \A w \in Workers :
       LET f == job[w].file IN
       /\ step[w] \in {"createFile", "reply", "register"} => job[w].to \in Users
       /\ step[w] = "reply" => f \notin told
       /\ step[w] = "register" => f \notin saved
       /\ step[w] \in {"check", "open", "write", "update", "answer"} => f \in told
       /\ step[w] \in {"getMsg", "delMsg", "getSender"} => f \in saved
  /\ \A f \in owed \ saved :
       \/ pool[f] # NoUser
       \/ \E w \in Workers : job[w].file = f /\ step[w] = "register"
  /\ \A f \in owed \cap saved :
       \/ f \in notified
       \/ \E w \in Workers :
            /\ job[w].file = f
            /\ \/ step[w] = "getSender"
               \/ step[w] \in {"getMsg", "delMsg"} /\ pool[f] # NoUser

(* Every step of that worker keeps it so.                                  *)
LEMMA PooledNext ==
  ASSUME \A v, w \in Workers : v = w, TypeInv, PooledInv, [Next]_vars
  PROVE  PooledInv'
<1> USE DEF TypeInv, TypeOK, PooledInv, Goto, tables, client, history
<1>0. NoUser \notin Users /\ NoFile \notin Files
  BY FileAssumption
<1>1. ASSUME NEW w \in Workers, NEW t \in Users, SendFileMessage(w, t) PROVE PooledInv'
  BY <1>0, <1>1 DEF SendFileMessage, Start, NoJob
<1>2. ASSUME NEW w \in Workers, NEW f \in Files, CreateFile(w, f) PROVE PooledInv'
  <2>1. job'[w].file = f /\ job'[w].to = job[w].to /\ step'[w] = "reply"
    BY <1>2 DEF CreateFile, Jobs
  <2>2. f \notin told /\ job[w].to \in Users
    BY <1>2 DEF CreateFile
  <2> QED
    BY <1>2, <2>1, <2>2 DEF CreateFile
<1>3. ASSUME NEW w \in Workers, NEW f \in Files, Download(w, f) PROVE PooledInv'
  BY <1>3 DEF Download, Start
<1>4. ASSUME NEW w \in Workers, CreateFileFails(w) \/ AnswerDownload(w) \/ ReplyFails(w)
      PROVE  PooledInv'
  BY <1>4 DEF CreateFileFails, AnswerDownload, ReplyFails, Return
<1>5. ASSUME NEW w \in Workers, ReplyMessage(w) PROVE PooledInv'
  BY <1>5 DEF ReplyMessage
<1>6. ASSUME NEW w \in Workers, SetFileMsg(w) PROVE PooledInv'
  <2>1. job[w].to # NoUser /\ step[w] = "register" /\ job[w].file \notin saved
    BY <1>0, <1>6 DEF SetFileMsg
  <2> QED
    BY <1>6, <2>1 DEF SetFileMsg, Return
<1>7. ASSUME NEW w \in Workers, NEW f \in Files, NEW x \in Contents, Upload(w, f, x)
      PROVE  PooledInv'
  <2>1. job'[w].file = f /\ step'[w] = "check" /\ f \in told
    BY <1>7 DEF Upload, Start, NoJob
  <2> QED
    BY <1>7, <2>1 DEF Upload, Start
<1>8. ASSUME NEW w \in Workers, CheckDiskExistence(w) \/ OpenFile(w) PROVE PooledInv'
  BY <1>8 DEF CheckDiskExistence, OpenFile
<1>9. ASSUME NEW w \in Workers, WriteFile(w) \/ UpdateFile(w) PROVE PooledInv'
  <2>1. /\ job'[w].file = job[w].file /\ step'[w] \in {"update", "answer"}
        /\ step[w] \in {"write", "update"} /\ UNCHANGED <<pool, told, owed, saved, notified>>
    BY <1>9 DEF WriteFile, UpdateFile, Jobs
  <2> QED
    BY <2>1
<1>10. ASSUME NEW w \in Workers, AnswerUpload(w) PROVE PooledInv'
  BY <1>10 DEF AnswerUpload, Return
<1>11. ASSUME NEW w \in Workers, GetFileMsg(w) PROVE PooledInv'
  <2>1. CASE pool[job[w].file] = NoUser
    BY <1>11, <2>1 DEF GetFileMsg, Return
  <2>2. CASE pool[job[w].file] # NoUser
    <3>1. job'[w].file = job[w].file /\ step'[w] = "delMsg" /\ step[w] = "getMsg"
      BY <1>11, <2>2 DEF GetFileMsg, Jobs
    <3> QED
      BY <1>11, <2>2, <3>1 DEF GetFileMsg
  <2> QED
    BY <2>1, <2>2
<1>12. ASSUME NEW w \in Workers, DelFileMsg(w) PROVE PooledInv'
  <2>1. /\ step[w] = "delMsg" /\ step'[w] = "getSender" /\ job[w].file \in saved
        /\ \A f \in Files : f # job[w].file => pool'[f] = pool[f]
        /\ UNCHANGED <<job, told, owed, saved, notified>>
    BY <1>12 DEF DelFileMsg
  <2>2. \A f \in owed \ saved : pool'[f] # NoUser
    BY <2>1
  <2>3. ASSUME NEW f \in owed \cap saved, f \notin notified PROVE job[w].file = f
    BY <2>3
  <2> QED
    BY <2>1, <2>2, <2>3
<1>13. ASSUME NEW w \in Workers, Forward(w) PROVE PooledInv'
  BY <1>13 DEF Forward, Return
<1>14. ASSUME NEW w \in Workers, LoadIntoProto(w) PROVE PooledInv'
  <2>1. /\ step[w] = "load" /\ step'[w] \in {"idle", "give"}
        /\ UNCHANGED <<pool, told, owed, saved, notified>>
    BY <1>14 DEF LoadIntoProto, Return
  <2> QED
    BY <2>1
<1>15. ASSUME NEW t \in Users, SetupChannel(t) PROVE PooledInv'
  BY <1>15 DEF SetupChannel
<1>16. CASE Restart
  BY <1>16 DEF Restart
<1>17. CASE UNCHANGED vars
  BY <1>17 DEF vars
<1> QED
  BY <1>1, <1>2, <1>3, <1>4, <1>5, <1>6, <1>7, <1>8, <1>9, <1>10, <1>11, <1>12, <1>13, <1>14,
     <1>15, <1>16, <1>17 DEF Next

(* With one worker a file that is received is forwarded, as Server.h:40    *)
(* says: it takes a second one to handle the upload between the answer to  *)
(* the message and the callback that puts it into the pool.                *)
THEOREM ReceivedAreForwarded ==
  (\A v, w \in Workers : v = w) => (Spec => []ReceivedIsForwarded)
<1> SUFFICES ASSUME \A v, w \in Workers : v = w PROVE Spec => []ReceivedIsForwarded
  OBVIOUS
<1>1. Init => PooledInv
  BY DEF Init, PooledInv
<1>2. PooledInv => ReceivedIsForwarded
  BY DEF PooledInv, ReceivedIsForwarded
<1>3. TypeInv /\ PooledInv /\ [Next]_vars => PooledInv'
  BY PooledNext
<1> QED
  BY <1>1, <1>2, <1>3, TypeInit, TypeNext, PTL DEF Spec
=============================================================================
