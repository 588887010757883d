---------------------------- MODULE FileTransfer ----------------------------
(***************************************************************************)
(* File messages: the files table, the directory files/, the pool of file  *)
(* messages that wait for their file, and the handlers that use them (a    *)
(* SendMessageRequest of type IMAGE or FILE, FileUploadRequest,            *)
(* FileDownloadRequest in src/Server/Server.cpp, src/file/file_storage.cpp *)
(* and the files part of src/db/db_access.cpp).                            *)
(*                                                                         *)
(* step[w], where worker w is in a handler or in its callback:             *)
(*   createFile -> reply [-> register]                                     *)
(*   check -> [open -> write ->] update -> answer                          *)
(*                       [-> getMsg -> delMsg -> getSender]                *)
(*   load -> give                                                          *)
(*                                                                         *)
(* An upload is known by its content; its name and its hash go with it, as *)
(* an honest client computes them.  The server may be killed at any time   *)
(* and started again over the same chat.db and files/.                     *)
(***************************************************************************)

CONSTANTS Workers,
          Users,
          Files,        \* the UUIDs createFile will draw
          Contents,     \* what clients upload
          Contested,    \* files of which a client sends another upload before
                        \* the last was answered, or one with other contents
          NoContent,    \* no file on disk; NULL in the hash column
          Empty,        \* the file was just truncated
          Torn,         \* neither empty nor the content of one upload
          NoUser,       \* user id 0
          NoFile

ASSUME FileAssumption == /\ {NoContent, Empty, Torn} \cap Contents = {}
                         /\ NoContent # Empty /\ NoContent # Torn /\ Empty # Torn
                         /\ NoUser \notin Users
                         /\ NoFile \notin Files

VARIABLES files,      \* the keys of the files table
          hash,       \* hash[f]: filename and hash of the row of f
          disk,       \* disk[f]: files/<f>
          pool,       \* pool[f]: the receiver in _file_msg_pool
          online,     \* the users with a sender
          step, job,  \* where worker w is, and with what
          told,       \* the files whose id a client was told
          tried,      \* tried[f]: the contents of the uploads of f so far
          to,         \* to[f]: the receiver of the message f was created for
          owed,       \* files whose message was answered by this process,
                      \* unless the receiver was found offline (history)
          saved,      \* files of which this process answered success (history)
          notified,   \* files whose message was pushed to the receiver (history)
          spoilt      \* files of which a save failed or was killed (history)

tables == <<files, hash, disk>>
vars == <<files, hash, disk, pool, online, step, job, told, tried,
          to, owed, saved, notified, spoilt>>

NoJob == [file |-> NoFile, content |-> NoContent, hash |-> NoContent,
          ok |-> FALSE, to |-> NoUser]

Init == /\ files = {}
        /\ hash = [f \in Files |-> NoContent]
        /\ disk = [f \in Files |-> NoContent]
        /\ pool = [f \in Files |-> NoUser]
        /\ online = {}
        /\ step = [w \in Workers |-> "idle"]
        /\ job = [w \in Workers |-> NoJob]
        /\ told = {}
        /\ tried = [f \in Files |-> {}]
        /\ to = [f \in Files |-> NoUser]
        /\ owed = {}
        /\ saved = {}
        /\ notified = {}
        /\ spoilt = {}

client == <<told, tried>>
history == <<to, owed, saved, notified, spoilt>>

Goto(w, l) == step' = [step EXCEPT ![w] = l]
Start(w, l, j) == step[w] = "idle" /\ Goto(w, l) /\ job' = [job EXCEPT ![w] = j]
Return(w) == Goto(w, "idle") /\ job' = [job EXCEPT ![w] = NoJob]

(* The client of an uncontested file keeps to one upload at a time of one  *)
(* content; when its connection broke it may try again.                    *)
Uploading(f) == \E w \in Workers : /\ job[w].file = f
                                   /\ step[w] \in {"check", "open", "write", "update", "answer"}
ClientMayUpload(f, x) == f \notin Contested => ~Uploading(f) /\ tried[f] \subseteq {x}
-----------------------------------------------------------------------------
(* Wrong variants of the steps, for the property in the comment.           *)

(* TypeOK: the row gets the hash of what is on disk.                       *)
UpdateFileFromDisk(w) ==
  /\ step[w] = "update"
  /\ hash' = [hash EXCEPT ![job[w].file] = disk[job[w].file]]
  /\ Goto(w, "answer")
  /\ UNCHANGED <<files, disk, pool, online, job, client, history>>

(* DownloadIsWhole: the row is updated before the file is written.         *)
OpenFileAndUpdate(w) ==
  /\ step[w] = "open"
  /\ disk' = [disk EXCEPT ![job[w].file] = Empty]
  /\ hash' = [hash EXCEPT ![job[w].file] = job[w].content]
  /\ Goto(w, "write")
  /\ UNCHANGED <<files, pool, online, job, client, history>>

(* ImplementsFileStore: an upload replaces a file that is there.           *)
CheckNothing(w) ==
  /\ step[w] = "check"
  /\ Goto(w, "open")
  /\ UNCHANGED <<tables, pool, online, job, client, history>>

(* NotifiedIsServable: the callback does not depend on success.            *)
AnswerAlwaysForwards(w) ==
  /\ step[w] = "answer"
  /\ Goto(w, "getMsg")
  /\ UNCHANGED <<tables, pool, online, job, client, history>>

(* ForwardedOrWaiting: the message is deleted before it is looked up.      *)
GetFileMsgAfterDelete(w) ==
  /\ step[w] = "getMsg"
  /\ pool' = [pool EXCEPT ![job[w].file] = NoUser]
  /\ Return(w)
  /\ UNCHANGED <<tables, online, client, history>>
-----------------------------------------------------------------------------
(* The receiver t sets up a channel (KeepAlive.tla has the details).       *)
SetupChannel(t) ==
  /\ t \notin online
  /\ online' = online \cup {t}
  /\ UNCHANGED <<tables, pool, step, job, client, history>>

(* A file message is stored by createMsgByRawMsg (DataAccess.tla), with    *)
(* the content the client sent, which is not a file id ...                 *)
SendFileMessage(w, t) ==
  /\ Start(w, "createFile", [NoJob EXCEPT !.to = t])
  /\ UNCHANGED <<tables, pool, online, client, history>>

(* ... then a row for a new file id is inserted; when exec() threw, or the *)
(* shared count of changed rows was another worker's, the client is        *)
(* answered -1 and nobody knows the id ...                                 *)
CreateFile(w, f) ==
  /\ step[w] = "createFile"
  /\ f \notin files
  /\ files' = files \cup {f}
  /\ to' = [to EXCEPT ![f] = job[w].to]
  /\ job' = [job EXCEPT ![w].file = f]
  /\ Goto(w, "reply")
  /\ UNCHANGED <<hash, disk, pool, online, client, owed, saved, notified, spoilt>>

CreateFileFails(w) ==
  /\ step[w] = "createFile"
  /\ \E f \in Files \ files : files' \in {files, files \cup {f}}
  /\ Return(w)
  /\ UNCHANGED <<hash, disk, pool, online, client, history>>

(* ... and only when the client has been told the id is the message put    *)
(* into the pool.                                                          *)
ReplyMessage(w) ==
  LET f == job[w].file IN
  /\ step[w] = "reply"
  /\ told' = told \cup {f}
  /\ owed' = owed \cup {f}
  /\ Goto(w, "register")
  /\ UNCHANGED <<tables, pool, online, job, tried,
                 to, saved, notified, spoilt>>

SetFileMsg(w) ==
  /\ step[w] = "register"
  /\ pool' = [pool EXCEPT ![job[w].file] = job[w].to]
  /\ Return(w)
  /\ UNCHANGED <<tables, online, client, history>>
-----------------------------------------------------------------------------
(* FileUploadRequest of a known user for a file that is in the table.      *)
Upload(w, f, x) ==
  /\ f \in told
  /\ ClientMayUpload(f, x)
  /\ Start(w, "check", [NoJob EXCEPT !.file = f, !.content = x])
  /\ tried' = [tried EXCEPT ![f] = @ \cup {x}]
  /\ UNCHANGED <<tables, pool, online, told, history>>

CheckDiskExistence(w) ==
  /\ step[w] = "check"
  /\ Goto(w, IF disk[job[w].file] = NoContent THEN "open" ELSE "update")
  /\ UNCHANGED <<tables, pool, online, job, client, history>>

(* saveToDisk: the stream truncates the file when it is opened ...         *)
OpenFile(w) ==
  LET f == job[w].file IN
  /\ step[w] = "open"
  /\ \/ disk' = [disk EXCEPT ![f] = Empty] /\ Goto(w, "write") /\ UNCHANGED spoilt
     \/ UNCHANGED disk /\ Goto(w, "update") /\ spoilt' = spoilt \cup {f}
  /\ UNCHANGED <<files, hash, pool, online, job, client, to, owed, saved, notified>>

(* ... and writes from its start; what another stream has written since    *)
(* may remain behind it.  When the disk is full the file is cut short; the *)
(* code notices unless that happens when the buffer is flushed at the end. *)
WriteFile(w) ==
  LET f == job[w].file
      x == job[w].content IN
  /\ step[w] = "write"
  /\ \/ /\ disk' \in {[disk EXCEPT ![f] = y] :
                        y \in IF disk[f] = Empty THEN {x} ELSE {x, Torn}}
        /\ job' = [job EXCEPT ![w].ok = TRUE]
        /\ UNCHANGED spoilt
     \/ /\ disk' = [disk EXCEPT ![f] = Torn]
        /\ \E noticed \in BOOLEAN : job' = [job EXCEPT ![w].ok = ~noticed]
        /\ spoilt' = spoilt \cup {f}
  /\ Goto(w, "update")
  /\ UNCHANGED <<files, hash, pool, online, client, to, owed, saved, notified>>

(* The row is updated whether or not the file was saved.  updateFile is    *)
(* false when exec() threw, or counted another worker's statement.         *)
UpdateFile(w) ==
  /\ step[w] = "update"
  /\ \/ /\ hash' = [hash EXCEPT ![job[w].file] = job[w].content]
        /\ UNCHANGED job
     \/ /\ hash' \in {hash, [hash EXCEPT ![job[w].file] = job[w].content]}
        /\ job' = [job EXCEPT ![w].ok = FALSE]
  /\ Goto(w, "answer")
  /\ UNCHANGED <<files, disk, pool, online, client, history>>

(* A file saved is forwarded, once the uploader has been told.             *)
AnswerUpload(w) ==
  /\ step[w] = "answer"
  /\ IF job[w].ok
     THEN Goto(w, "getMsg") /\ saved' = saved \cup {job[w].file} /\ UNCHANGED job
     ELSE Return(w) /\ UNCHANGED saved
  /\ UNCHANGED <<tables, pool, online, client, to, owed, notified, spoilt>>

GetFileMsg(w) ==
  LET uid == pool[job[w].file] IN
  /\ step[w] = "getMsg"
  /\ IF uid = NoUser THEN Return(w)
                     ELSE Goto(w, "delMsg") /\ job' = [job EXCEPT ![w].to = uid]
  /\ UNCHANGED <<tables, pool, online, client, history>>

DelFileMsg(w) ==
  /\ step[w] = "delMsg"
  /\ pool' = [pool EXCEPT ![job[w].file] = NoUser]
  /\ Goto(w, "getSender")
  /\ UNCHANGED <<tables, online, job, client, history>>

(* A sender stays in the map, so looking it up and queueing is one step.   *)
Forward(w) ==
  LET f == job[w].file IN
  /\ step[w] = "getSender"
  /\ IF job[w].to \in online THEN notified' = notified \cup {f} /\ UNCHANGED owed
                             ELSE owed' = owed \ {f} /\ UNCHANGED notified
  /\ Return(w)
  /\ UNCHANGED <<tables, pool, online, client, to, saved, spoilt>>
-----------------------------------------------------------------------------
(* FileDownloadRequest of a known user: the row, then the file.            *)
Download(w, f) ==
  /\ f \in told
  /\ Start(w, "load", [NoJob EXCEPT !.file = f, !.hash = hash[f]])
  /\ UNCHANGED <<tables, pool, online, client, history>>

LoadIntoProto(w) ==
  LET f == job[w].file
      halfway == \E v \in Workers : step[v] = "write" /\ job[v].file = f IN
  /\ step[w] = "load"
  /\ IF disk[f] = NoContent
     THEN Return(w)
     ELSE /\ \E x \in {disk[f]} \cup (IF halfway THEN {Torn} ELSE {}) :
               job' = [job EXCEPT ![w].content = x]
          /\ Goto(w, "give")
  /\ UNCHANGED <<tables, pool, online, client, history>>

AnswerDownload(w) ==
  /\ step[w] = "give"
  /\ Return(w)
  /\ UNCHANGED <<tables, pool, online, client, history>>
-----------------------------------------------------------------------------
(* A reply that cannot be sent: the callback never runs.                   *)
ReplyFails(w) ==
  /\ step[w] \in {"reply", "answer", "give"}
  /\ Return(w)
  /\ UNCHANGED <<tables, pool, online, client, history>>

(* The process ends and is started again: the pools and the channels are   *)
(* gone, and so is what was not yet written to a file.                     *)
Restart ==
  /\ pool' = [f \in Files |-> NoUser]
  /\ online' = {}
  /\ step' = [w \in Workers |-> "idle"]
  /\ job' = [w \in Workers |-> NoJob]
  /\ owed' = {}
  /\ saved' = {}
  /\ spoilt' = spoilt \cup {job[w].file : w \in {v \in Workers : step[v] = "write"}}
  /\ UNCHANGED <<tables, told, tried, to, notified>>

Next == \/ \E w \in Workers :
             \/ \E t \in Users : SendFileMessage(w, t)
             \/ \E f \in Files : CreateFile(w, f) \/ Download(w, f)
             \/ \E f \in Files, x \in Contents : Upload(w, f, x)
             \/ CreateFileFails(w) \/ ReplyMessage(w) \/ SetFileMsg(w)
             \/ CheckDiskExistence(w) \/ OpenFile(w) \/ WriteFile(w)
             \/ UpdateFile(w) \/ AnswerUpload(w)
             \/ GetFileMsg(w) \/ DelFileMsg(w) \/ Forward(w)
             \/ LoadIntoProto(w) \/ AnswerDownload(w)
             \/ ReplyFails(w)
        \/ \E t \in Users : SetupChannel(t)
        \/ Restart

Spec == Init /\ [][Next]_vars
-----------------------------------------------------------------------------
Steps == {"idle", "createFile", "reply", "register", "check", "open", "write",
          "update", "answer", "getMsg", "delMsg", "getSender", "load", "give"}
OnDisk == Contents \cup {NoContent, Empty, Torn}
Jobs == [file : Files \cup {NoFile}, content : OnDisk, hash : Contents \cup {NoContent},
         ok : BOOLEAN, to : Users \cup {NoUser}]

TypeOK == /\ files \subseteq Files
          /\ hash \in [Files -> Contents \cup {NoContent}]
          /\ disk \in [Files -> OnDisk]
          /\ pool \in [Files -> Users \cup {NoUser}]
          /\ online \subseteq Users
          /\ step \in [Workers -> Steps]
          /\ job \in [Workers -> Jobs]
          /\ told \subseteq files
          /\ tried \in [Files -> SUBSET Contents]
          /\ to \in [Files -> Users \cup {NoUser}]
          /\ owed \cup saved \cup notified \cup spoilt \subseteq Files

(* A download that succeeds (messages.proto:182: its file name is not      *)
(* empty, so the row had been updated when it was read) gives the content  *)
(* that belongs to the hash in the same answer, although the row and the   *)
(* file are read and written in separate steps: true of files uploaded one *)
(* at a time, as long as every save went well.                             *)
Ordinary == Files \ (Contested \cup spoilt)

DownloadIsWhole ==
  \A w \in Workers :
    step[w] = "give" /\ job[w].file \in Ordinary /\ job[w].hash # NoContent =>
      job[w].content = job[w].hash

(* Such a file, once it can be downloaded, can be downloaded for ever and  *)
(* unchanged, across further uploads and restarts.                         *)
Downloadable == [f \in Files |-> IF f \in Ordinary /\ hash[f] # NoContent
                                 THEN disk[f] ELSE NoContent]
Store == INSTANCE FileStore WITH served <- Downloadable
ImplementsFileStore == Store!Spec

(* Who is notified of a file can download it at once.                      *)
NotifiedIsServable ==
  \A f \in notified \cap Ordinary : hash[f] # NoContent /\ disk[f] = hash[f]

(* No notification that is owed gets lost: the message is still to be put  *)
(* into the pool, is in it, is in the hands of a worker, or was pushed.    *)
ForwardedOrWaiting ==
  \A f \in owed :
    \/ f \in notified
    \/ pool[f] = to[f]
    \/ \E w \in Workers : job[w].file = f /\ step[w] \in {"register", "getSender"}

(* Server.h:40: file messages are stored, and when the file is received    *)
(* the notification of the message is forwarded.  When both the message    *)
(* and the upload have been answered and no handler is at work on the      *)
(* file, a receiver who is online has been notified.                       *)
ReceivedIsForwarded ==
  \A f \in owed \cap saved :
    (\A w \in Workers : job[w].file # f) => f \in notified
=============================================================================
