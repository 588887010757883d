----------------------------- MODULE ChatServer -----------------------------
(***************************************************************************)
(* Server::processRecvSocket (src/Server/Server.cpp) for the requests a    *)
(* chat consists of: RegisterRequest, SetupChannelRequest and a            *)
(* SendMessageRequest with a text.  Several workers handle requests at the *)
(* same time over the tables of DataAccess and the channels of KeepAlive.  *)
(*                                                                         *)
(* A handler does its work, sends the reply, and runs its callback only    *)
(* after the reply was sent.  hpc[w] is "idle", "work" (inside a call of   *)
(* DataAccess) or "reply"; a worker whose callback runs is known by op[w]. *)
(* A request is read and its handler started in one step: reading it       *)
(* changes nothing that is shared.                                         *)
(***************************************************************************)
EXTENDS Naturals, Sequences, FiniteSets, Functions

CONSTANTS Workers, Names, StartUsers, Overlapping, MaxMsgs, NoMsg,  \* DataAccess
          Conns, Breakable, NoConn, NoPkt, NoWorker,                \* KeepAlive
          NoReq, NoList

VARIABLES users, messages, lastRowid, changes, step, created, msg,  \* DataAccess
          mapMu, fd, mu, queue, run, hand, on, op, arg, channels,   \* KeepAlive
          sent, closed,
          hpc,    \* hpc[w]: where worker w is in processRecvSocket
          req,    \* req[w]: the request it handles
          list,   \* list[w]: the ContactListRequest it is filling in
          acked   \* the messages whose sender got them in a SendMessageResponse

UserIds == 1..Cardinality(Names)
ContactLists ==
  [uid : UserIds \cup {0},
   internalids : UNION {[1..n -> 0..MaxMsgs] : n \in 0..Cardinality(Names)}]
ChatMsgs == [from : UserIds, to : UserIds, internal : 1..MaxMsgs,
             id : 1..(MaxMsgs + Cardinality(Names))]

Requests == [type : {"Register", "Rejected"}]
            \cup [type : {"SetupChannel"}, from : UserIds \cup {0}, conn : Conns]
            \cup [type : {"SendMessage"}, from : UserIds]
OpenLists == [contacts : 0..Cardinality(Names), internalids : Seq(0..MaxMsgs)]

ASSUME ChatAssumption ==
  /\ IsFiniteSet(Names) /\ MaxMsgs \in Nat
  /\ StartUsers \in Seq(Names) /\ IsInjective(StartUsers)
  /\ NoMsg \notin [from : Nat, to : Nat, internal : Nat, id : Nat]
  /\ NoConn \notin Conns /\ NoWorker \notin Workers
  /\ NoPkt \notin ContactLists \cup ChatMsgs
  /\ NoReq \notin Requests /\ NoList \notin OpenLists

DA == INSTANCE DataAccess
KA == INSTANCE KeepAlive WITH
        Users <- UserIds, NoUser <- 0, Lists <- ContactLists, Notes <- ChatMsgs,
        MaxQueue <- MaxMsgs + Cardinality(Conns) + Cardinality(Workers) + 1

dbVars == <<users, messages, lastRowid, changes, step, created, msg>>
kaVars == <<mapMu, fd, mu, queue, run, hand, on, op, arg, channels, sent, closed>>
vars == <<dbVars, kaVars, hpc, req, list, acked>>

Init == /\ DA!Init
        /\ KA!Init
        /\ hpc = [w \in Workers |-> "idle"]
        /\ req = [w \in Workers |-> NoReq]
        /\ list = [w \in Workers |-> NoList]
        /\ acked = {}

(* A worker takes the next descriptor when the last callback has returned. *)
Free(w) == hpc[w] = "idle" /\ op[w] = "idle"

Handle(w, r, l) == req' = [req EXCEPT ![w] = r] /\ hpc' = [hpc EXCEPT ![w] = l]

(* The client of f has a message that was not answered yet.                *)
Unanswered(f) == \E v \in Workers : req[v] # NoReq /\ req[v].type = "SendMessage"
                                    /\ req[v].from = f
-----------------------------------------------------------------------------
(* Wrong variants of the steps, for the property in the comment.           *)

(* UsesTables: the reply does not wait for createMsgByRawMsg to return.    *)
ReplyAfterOneStatement(w) ==
  /\ hpc[w] = "work"
  /\ \/ DA!CreateUserCount(w)
     \/ DA!CreateMsgInsert(w)
     \/ DA!CreateMsgCount(w)
     \/ DA!GetLastInsertRowid(w)
  /\ hpc' = [hpc EXCEPT ![w] = "reply"]
  /\ UNCHANGED <<kaVars, req, list, acked>>

(* UsesChannels: the callback stores the descriptor itself, past the lock. *)
SetChannelDirectly(w) ==
  /\ req[w].type = "SetupChannel"
  /\ channels' = channels \cup {req[w].conn}
  /\ fd' = [fd EXCEPT ![req[w].from] = req[w].conn]
  /\ run' = [run EXCEPT ![req[w].from] = "pop"]
  /\ UNCHANGED <<mapMu, mu, queue, hand, on, op, arg, sent, closed, acked>>

(* TypeOK: the request outlives a reply that failed.                       *)
FailureKeepsRequest(w) ==
  /\ hpc[w] = "reply"
  /\ hpc' = [hpc EXCEPT ![w] = "idle"]
  /\ UNCHANGED <<dbVars, kaVars, req, list, acked>>

(* NotifiedIsAcked: the result of Send is ignored.                         *)
FailureRunsCallback(w) ==
  /\ hpc[w] = "reply"
  /\ req[w].type = "SendMessage" /\ msg[w] # NoMsg
  /\ KA!Notify(w, msg[w].to, msg[w])
  /\ Handle(w, NoReq, "idle")
  /\ UNCHANGED <<dbVars, list, acked>>

(* CountedIsPullable: the messages of both directions are counted.         *)
AddInternalIdBothWays(w) ==
  /\ op[w] = "list" /\ list[w] # NoList
  /\ Len(list[w].internalids) < list[w].contacts
  /\ LET t == Len(list[w].internalids) + 1
         n == Cardinality(DA!getAllMessages(arg[w].user, t) \cup
                          DA!getAllMessages(t, arg[w].user))
     IN  list' = [list EXCEPT ![w].internalids = Append(@, n)]
  /\ UNCHANGED <<dbVars, kaVars, hpc, req, acked>>
-----------------------------------------------------------------------------
(* RegisterRequest with a legal name and password.                         *)
Register(w, n) ==
  /\ Free(w)
  /\ \/ DA!CreateUserInsert(w, n) /\ Handle(w, [type |-> "Register"], "work")
     \/ DA!CreateUserTaken(w, n) /\ Handle(w, [type |-> "Register"], "reply")
  /\ UNCHANGED <<kaVars, list, acked>>

(* SetupChannelRequest: a token that is not in the pool gives user id 0,   *)
(* and is acknowledged all the same.                                       *)
SetupChannel(w, u, c) ==
  /\ Free(w)
  /\ u \in DOMAIN users \cup {0}
  /\ c \notin channels
  /\ \A v \in Workers : req[v] # NoReq /\ req[v].type = "SetupChannel" => req[v].conn # c
  /\ Handle(w, [type |-> "SetupChannel", from |-> u, conn |-> c], "reply")
  /\ UNCHANGED <<dbVars, kaVars, list, acked>>

(* SendMessageRequest: createMsgByRawMsg for a receiver in the users table *)
(* (who can only be added, never removed, after that was checked) ...      *)
SendMessage(w, f, t) ==
  /\ Free(w)
  /\ f \notin Overlapping => ~Unanswered(f)
  /\ {f, t} \subseteq DOMAIN users
  /\ DA!FindMaxInternalId(w, f, t)
  /\ Handle(w, [type |-> "SendMessage", from |-> f], "work")
  /\ UNCHANGED <<kaVars, list, acked>>

(* ... and a response with id -1 for a receiver who is not there, or from  *)
(* a client whose token is not the sender's.                               *)
SendRejected(w) ==
  /\ Free(w)
  /\ Handle(w, [type |-> "Rejected"], "reply")
  /\ UNCHANGED <<dbVars, kaVars, list, acked>>

(* One statement of the call of DataAccess the handler is in.              *)
DataStep(w) ==
  /\ hpc[w] = "work"
  /\ \/ DA!CreateUserCount(w)
     \/ DA!CreateMsgInsert(w)
     \/ DA!CreateMsgCount(w)
     \/ DA!GetLastInsertRowid(w)
  /\ hpc' = [hpc EXCEPT ![w] = IF step'[w] = "idle" THEN "reply" ELSE "work"]
  /\ UNCHANGED <<kaVars, req, list, acked>>
-----------------------------------------------------------------------------
(* The reply is sent and the callback, if the handler set one, starts.     *)
ReplyAck(w) ==
  /\ req[w].type = "SetupChannel"
  /\ KA!SetupChannel(w, req[w].from, req[w].conn)
  /\ UNCHANGED acked

ReplyMessage(w) ==
  /\ req[w].type = "SendMessage"
  /\ msg[w] # NoMsg
  /\ acked' = acked \cup {msg[w]}
  /\ KA!Notify(w, msg[w].to, msg[w])

ReplyOnly(w) ==
  /\ \/ req[w].type \in {"Register", "Rejected"}
     \/ req[w].type = "SendMessage" /\ msg[w] = NoMsg
  /\ UNCHANGED <<kaVars, acked>>

Reply(w) ==
  /\ hpc[w] = "reply"
  /\ ReplyAck(w) \/ ReplyMessage(w) \/ ReplyOnly(w)
  /\ Handle(w, NoReq, "idle")
  /\ UNCHANGED <<dbVars, list>>

(* Send failed: the connection goes and the callback never runs.           *)
ReplyFails(w) ==
  /\ hpc[w] = "reply"
  /\ Handle(w, NoReq, "idle")
  /\ UNCHANGED <<dbVars, kaVars, list, acked>>
-----------------------------------------------------------------------------
(* The contact list of the callback of a SetupChannelRequest: one query    *)
(* for the users, then one for each of them.                               *)
GetAllUsers(w) ==
  /\ op[w] = "list" /\ list[w] = NoList
  /\ list' = [list EXCEPT ![w] = [contacts |-> Len(users), internalids |-> <<>>]]
  /\ UNCHANGED <<dbVars, kaVars, hpc, req, acked>>

AddInternalId(w) ==
  /\ op[w] = "list" /\ list[w] # NoList
  /\ Len(list[w].internalids) < list[w].contacts
  /\ LET t == Len(list[w].internalids) + 1
         n == Cardinality(DA!getAllMessages(arg[w].user, t))
     IN  list' = [list EXCEPT ![w].internalids = Append(@, n)]
  /\ UNCHANGED <<dbVars, kaVars, hpc, req, acked>>

PackContactList(w) ==
  /\ op[w] = "list" /\ list[w] # NoList
  /\ Len(list[w].internalids) = list[w].contacts
  /\ KA!MakeContactList(w, [uid |-> arg[w].user, internalids |-> list[w].internalids])
  /\ list' = [list EXCEPT ![w] = NoList]
  /\ UNCHANGED <<dbVars, hpc, req, acked>>

(* The steps of a callback and of a sender thread that only touch the      *)
(* channels.                                                               *)
CallbackStep(w) ==
  /\ \/ KA!NewSender(w) \/ KA!OldSender(w) \/ KA!SetFd(w) \/ KA!Clear(w)
     \/ KA!IsOnline(w) \/ KA!GetSender(w) \/ KA!AddSendTask(w)
  /\ UNCHANGED <<dbVars, hpc, req, list, acked>>

ThreadStep(u) == KA!ThreadStep(u) /\ UNCHANGED <<dbVars, hpc, req, list, acked>>
-----------------------------------------------------------------------------
WorkerStep(w) == \/ DataStep(w) \/ Reply(w) \/ CallbackStep(w)
                 \/ GetAllUsers(w) \/ AddInternalId(w) \/ PackContactList(w)

Next == \/ \E w \in Workers :
             \/ \E n \in Names : Register(w, n)
             \/ \E u \in UserIds \cup {0}, c \in Conns : SetupChannel(w, u, c)
             \/ \E f, t \in UserIds : SendMessage(w, f, t)
             \/ SendRejected(w)
             \/ WorkerStep(w)
             \/ ReplyFails(w)
        \/ \E u \in UserIds \cup {0} : ThreadStep(u)

Spec == Init /\ [][Next]_vars
-----------------------------------------------------------------------------
TypeOK == /\ DA!TypeOK
          /\ KA!TypeOK
          /\ hpc \in [Workers -> {"idle", "work", "reply"}]
          /\ req \in [Workers -> Requests \cup {NoReq}]
          /\ \A w \in Workers : hpc[w] = "idle" <=> req[w] = NoReq
          /\ list \in [Workers -> OpenLists \cup {NoList}]
          /\ \A w \in Workers : list[w] # NoList => op[w] = "list"
          /\ acked \subseteq ChatMsgs

(* The handlers use the tables as DataAccess lets them: the clients' rule, *)
(* one unanswered message per sender, is enough for OneAtATime, because    *)
(* the reply comes after createMsgByRawMsg.                                *)
UsesTables == DA!Spec

(* ... and the channels as KeepAlive lets them, so that what is shown of   *)
(* either module alone holds of the server.                                *)
UsesChannels == KA!Spec

(* No receiver is notified of a message before its sender has been given   *)
(* its ids: SendMessageResponse comes first, although another thread sends *)
(* the notification.                                                       *)
NotifiedIsAcked == \A c \in Conns : sent[c] \cap ChatMsgs \subseteq acked

(* What a client was told in a contact list it can fetch: of each contact  *)
(* with internal id n in the list, getMessage (ContactMessageRequest)      *)
(* finds the messages 1 to n, although the counts are read while other     *)
(* workers store messages.                                                 *)
CountedIsPullable ==
  \A c \in Conns : \A l \in sent[c] \cap ContactLists :
    l.uid \notin Overlapping =>
      \A t \in DOMAIN l.internalids : \A k \in 1..l.internalids[t] :
        DA!getMessage(l.uid, t, k) # {}
=============================================================================
