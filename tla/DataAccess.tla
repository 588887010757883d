----------------------------- MODULE DataAccess -----------------------------
(***************************************************************************)
(* The users and messages tables behind g_db (include/db_access.h,         *)
(* src/db/db_access.cpp), used by all worker threads at once through one   *)
(* SQLite connection.  One SQL statement is one step; what DataAccess does *)
(* between two statements is not protected by anything.                    *)
(*                                                                         *)
(* Both primary keys are AUTOINCREMENT and no row is ever deleted, so a    *)
(* table is a sequence and the key of a row is its place.  A SELECT scans  *)
(* in key order, so it returns the rows present when its last step runs.   *)
(* An INSERT is Statement::exec(): the statement runs, and then the        *)
(* connection is asked how many rows its latest write changed.             *)
(***************************************************************************)
EXTENDS Naturals, Sequences, FiniteSets, Functions

CONSTANTS Workers,      \* the threads of RecvSocketThreads_
          Names,        \* usernames
          StartUsers,   \* the users table of chat.db when the server starts
          Overlapping,  \* users whose client sends a message before the
                        \* previous one was answered
          MaxMsgs,      \* bound on the messages table
          NoMsg         \* std::nullopt

ASSUME DataAssumption == /\ StartUsers \in Seq(Names)
                         /\ IsInjective(StartUsers)
                         /\ NoMsg \notin [from : Nat, to : Nat, internal : Nat, id : Nat]

VARIABLES users,      \* users[id]: the username
          messages,   \* messages[id]: sender_id, receiver_id, internal_id
          lastRowid,  \* sqlite3_last_insert_rowid of the shared connection
          changes,    \* sqlite3_changes of the shared connection
          step,       \* step[w]: where w is in createUser or createMsgByRawMsg
          created,    \* created[w]: what w's last createUser returned
          msg         \* msg[w]: the Message that w's last call built

dbVars == <<users, messages, lastRowid, changes, step, created, msg>>

RowType == [from : Nat, to : Nat, internal : Nat]
MsgType == [from : Nat, to : Nat, internal : Nat, id : Nat]

Init == /\ users = StartUsers
        /\ messages = <<>>
        /\ lastRowid = 0
        /\ changes = 0
        /\ step = [w \in Workers |-> "idle"]
        /\ created = [w \in Workers |-> FALSE]
        /\ msg = [w \in Workers |-> NoMsg]
-----------------------------------------------------------------------------
(* Queries, by the key of the rows they return.                            *)
getUser(id) == {u \in DOMAIN users : u = id}
getAllMessages(f, t) ==
  {i \in DOMAIN messages : messages[i].from = f /\ messages[i].to = t}
getMessage(f, t, n) == {i \in getAllMessages(f, t) : messages[i].internal = n}

(* A wrong variant, for InternalIdIsOrdinal: the receiver is not compared. *)
InternalIdsOfSender(f, t) ==
  {messages[i].internal : i \in {j \in DOMAIN messages : messages[j].from = f}}

InternalIds(f, t) == {messages[i].internal : i \in getAllMessages(f, t)}

(* The clients' rule: only the users in Overlapping have two messages in   *)
(* createMsgByRawMsg at a time.                                            *)
InCreateMsg == {w \in Workers : step[w] \in {"insert", "inserted", "rowid"}}
OneAtATime(f) == f \notin Overlapping => \A w \in InCreateMsg : msg[w].from # f

Unfinished == {w \in Workers : step[w] = "insert"}
Goto(w, l) == step' = [step EXCEPT ![w] = l]
-----------------------------------------------------------------------------
(* A wrong variant, for TypeOK: the count of sqlite3_total_changes.        *)
CreateMsgInsertTotalChanges(w) ==
  /\ step[w] = "insert"
  /\ messages' = Append(messages, [from |-> msg[w].from, to |-> msg[w].to,
                                   internal |-> msg[w].internal])
  /\ lastRowid' = Len(messages) + 1
  /\ changes' = changes + 1
  /\ Goto(w, "inserted")
  /\ UNCHANGED <<users, created, msg>>
-----------------------------------------------------------------------------
(* createUser: a username that is taken violates UNIQUE; the exception is  *)
(* caught and the failed statement leaves a count of 0.                    *)
CreateUserInsert(w, n) ==
  /\ step[w] = "idle"
  /\ n \notin Range(users)
  /\ users' = Append(users, n)
  /\ lastRowid' = Len(users) + 1
  /\ changes' = 1
  /\ Goto(w, "created")
  /\ UNCHANGED <<messages, created, msg>>

CreateUserTaken(w, n) ==
  /\ step[w] = "idle"
  /\ n \in Range(users)
  /\ changes' = 0
  /\ created' = [created EXCEPT ![w] = FALSE]
  /\ UNCHANGED <<users, messages, lastRowid, step, msg>>

(* Otherwise it returns what exec() counted.                               *)
CreateUserCount(w) ==
  /\ step[w] = "created"
  /\ created' = [created EXCEPT ![w] = (changes = 1)]
  /\ Goto(w, "idle")
  /\ UNCHANGED <<users, messages, lastRowid, changes, msg>>
-----------------------------------------------------------------------------
(* createMsgByRawMsg: find the largest internal id of the conversation ... *)
FindMaxInternalId(w, f, t) ==
  /\ step[w] = "idle"
  /\ Len(messages) + Cardinality(Unfinished) < MaxMsgs
  /\ \E max \in InternalIds(f, t) \cup {0} :
       /\ \A n \in InternalIds(f, t) : n <= max
       /\ msg' = [msg EXCEPT ![w] =
                    [from |-> f, to |-> t, internal |-> max + 1, id |-> 0]]
  /\ Goto(w, "insert")
  /\ UNCHANGED <<users, messages, lastRowid, changes, created>>

(* ... insert a row with the next one ...                                  *)
CreateMsgInsert(w) ==
  /\ step[w] = "insert"
  /\ messages' = Append(messages, [from |-> msg[w].from, to |-> msg[w].to,
                                   internal |-> msg[w].internal])
  /\ lastRowid' = Len(messages) + 1
  /\ changes' = 1
  /\ Goto(w, "inserted")
  /\ UNCHANGED <<users, created, msg>>

(* ... return nothing unless exec() counted one row ...                    *)
CreateMsgCount(w) ==
  /\ step[w] = "inserted"
  /\ IF changes = 1 THEN Goto(w, "rowid") /\ UNCHANGED msg
                    ELSE Goto(w, "idle") /\ msg' = [msg EXCEPT ![w] = NoMsg]
  /\ UNCHANGED <<users, messages, lastRowid, changes, created>>

(* ... and ask the connection, in another call, for the key of that row.   *)
GetLastInsertRowid(w) ==
  /\ step[w] = "rowid"
  /\ msg' = [msg EXCEPT ![w].id = lastRowid]
  /\ Goto(w, "idle")
  /\ UNCHANGED <<users, messages, lastRowid, changes, created>>

Next == \E w \in Workers :
          \/ \E n \in Names : CreateUserInsert(w, n) \/ CreateUserTaken(w, n)
          \/ CreateUserCount(w)
          \/ \E f, t \in DOMAIN users : OneAtATime(f) /\ FindMaxInternalId(w, f, t)
          \/ CreateMsgInsert(w)
          \/ CreateMsgCount(w)
          \/ GetLastInsertRowid(w)

Spec == Init /\ [][Next]_dbVars
-----------------------------------------------------------------------------
TypeOK == /\ users \in Seq(Names)
          /\ messages \in Seq(RowType)
          /\ lastRowid \in Nat
          /\ changes \in {0, 1}
          /\ step \in [Workers -> {"idle", "created", "insert", "inserted", "rowid"}]
          /\ created \in [Workers -> BOOLEAN]
          /\ msg \in [Workers -> MsgType \cup {NoMsg}]

(* The internal ids of a conversation are 1, 2, 3, ... in the order the    *)
(* messages were stored, for every sender who waits for the answer before  *)
(* sending again, whatever the clients of other users do.                  *)
InternalIdIsOrdinal ==
  \A i \in DOMAIN messages :
    messages[i].from \notin Overlapping =>
      messages[i].internal =
        Cardinality({j \in getAllMessages(messages[i].from, messages[i].to) : j <= i})

(* db_access.h:132 has internal_id identify a message within its           *)
(* conversation.                                                           *)
InternalIdIdentifies ==
  \A i, j \in DOMAIN messages :
    /\ messages[i].from = messages[j].from
    /\ messages[i].to = messages[j].to
    /\ messages[i].internal = messages[j].internal
    => i = j

(* db_access.h:64: createMsg creates a message and returns its id.  The id *)
(* given to the caller is the key of the row its call inserted.            *)
ReturnedIdIsOwn ==
  \A w \in Workers :
    step[w] = "idle" /\ msg[w] # NoMsg =>
      /\ msg[w].id \in DOMAIN messages
      /\ messages[msg[w].id] = [from |-> msg[w].from, to |-> msg[w].to,
                                internal |-> msg[w].internal]
=============================================================================
