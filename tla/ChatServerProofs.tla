-------------------------- MODULE ChatServerProofs --------------------------
(***************************************************************************)
(* Proofs about ChatServer for any number of workers, names, messages and  *)
(* connections: the handlers use the tables as DataAccess and the channels *)
(* as KeepAlive let them, so what is proved of either module holds of the  *)
(* server; no notification overtakes the answer to its sender, and what a  *)
(* contact list counts can be fetched.                                     *)
(***************************************************************************)
EXTENDS ChatServer, SequenceTheorems, FiniteSetTheorems, TLAPS

(* The theorems about the two modules that the server is built from.       *)
DAP == INSTANCE DataAccessProofs
KAP == INSTANCE KeepAliveProofs WITH
         Users <- UserIds, NoUser <- 0, Lists <- ContactLists, Notes <- ChatMsgs,
         MaxQueue <- MaxMsgs + Cardinality(Conns) + Cardinality(Workers) + 1

(* The statements of createMsg.                                            *)
InCreateMsg == {"insert", "inserted", "rowid"}

(* Where a handler is, and for which request.                              *)
HandlerInv ==
  \A w \in Workers :
    /\ hpc[w] = "idle" <=> req[w] = NoReq
    /\ hpc[w] # "idle" => op[w] = "idle"
    /\ hpc[w] = "work" <=> step[w] # "idle"
    /\ step[w] = "created" => req[w].type = "Register"
    /\ step[w] \in InCreateMsg => /\ req[w].type = "SendMessage"
                                  /\ req[w].from = msg[w].from

(* The tables stay within the bounds; an internal id is at most the number *)
(* of messages that were stored when its own was.                          *)
BoundInv ==
  /\ IsInjective(users)
  /\ IsFiniteSet(DA!Unfinished)
  /\ Len(messages) + Cardinality(DA!Unfinished) <= MaxMsgs
  /\ \A i \in DOMAIN messages : messages[i].internal <= i
  /\ lastRowid <= MaxMsgs + Cardinality(Names)
  /\ messages # <<>> => lastRowid >= 1

(* The message a worker is storing, and the one it answers with.           *)
MsgInv ==
  \A w \in Workers :
    /\ step[w] \in InCreateMsg =>
         msg[w] \in [from : UserIds, to : UserIds, internal : 1..MaxMsgs, id : {0}]
    /\ step[w] = "insert" => msg[w].internal <= Len(messages) + 1
    /\ step[w] \in {"inserted", "rowid"} => messages # <<>>
    /\ hpc[w] = "reply" /\ req[w].type = "SendMessage" => msg[w] \in ChatMsgs \cup {NoMsg}

(* The contact list a worker is filling in.                                *)
ListInv ==
  \A w \in Workers : list[w] # NoList =>
    /\ op[w] = "list"
    /\ Len(list[w].internalids) <= list[w].contacts

(* The types of the handlers' own state.                                   *)
Types == /\ hpc \in [Workers -> {"idle", "work", "reply"}]
         /\ req \in [Workers -> Requests \cup {NoReq}]
         /\ list \in [Workers -> OpenLists \cup {NoList}]
         /\ acked \subseteq ChatMsgs

(* The inductive invariant, with those of the two modules.                 *)
IInv == /\ DAP!IInv /\ KAP!IInv
        /\ Types /\ HandlerInv /\ BoundInv /\ MsgInv /\ ListInv
-----------------------------------------------------------------------------
(* What the two modules assume of their constants.                         *)
LEMMA DataAssumptionHolds == DAP!DataAssumption
  BY ChatAssumption DEF DAP!DataAssumption, DAP!IsInjective, IsInjective

(* ... and KeepAlive of its own.                                           *)
LEMMA KeepAliveAssumptionHolds == KAP!KeepAliveAssumption
<1>1. 0 \notin UserIds
  BY DEF UserIds
<1>2. ContactLists \cap ChatMsgs = {}
  BY DEF ContactLists, ChatMsgs
<1> QED
  BY <1>1, <1>2, ChatAssumption DEF KAP!KeepAliveAssumption, KAP!Packets

(* The bounds are numbers.                                                 *)
LEMMA CountsAreNats == Cardinality(Names) \in Nat /\ MaxMsgs \in Nat
  BY ChatAssumption, FS_CardinalityType

(* Different users have different names.                                   *)
LEMMA UsersBounded ==
  ASSUME NEW s \in Seq(Names), IsInjective(s)
  PROVE  Len(s) \in Nat /\ Len(s) <= Cardinality(Names)
<1>1. s \in [1..Len(s) -> Names] /\ Len(s) \in Nat
  BY LenProperties
<1>2. s \in Injection(1..Len(s), Names)
  BY <1>1 DEF IsInjective, Injection
<1>3. Cardinality(1..Len(s)) <= Cardinality(Names)
  BY <1>2, ChatAssumption, FS_Injection
<1>4. Cardinality(1..Len(s)) = Len(s)
  <2>1. ASSUME NEW n \in Nat PROVE Cardinality(1..n) = n
    BY FS_Interval
  <2> QED
    BY <1>1, <2>1
<1> QED
  BY <1>1, <1>3, <1>4

(* An instance has its own copy of what it extends.                        *)
LEMMA SameCardinality ==
  ASSUME NEW S
  PROVE  /\ DA!Cardinality(S) = Cardinality(S) /\ DAP!Cardinality(S) = Cardinality(S)
         /\ KA!Cardinality(S) = Cardinality(S) /\ KAP!Cardinality(S) = Cardinality(S)
  BY DEF Cardinality, DA!Cardinality, DAP!Cardinality, KA!Cardinality, KAP!Cardinality

(* The inductive invariants of the two modules, in the names of this one.  *)
LEMMA TablesInv ==
  /\ DA!Init => DAP!IInv
  /\ DAP!IInv /\ [DA!Next]_dbVars => DAP!IInv'
<1>1. DA!Init => DAP!Init
  BY DEF DA!Init, DAP!Init
<1>2. ASSUME NEW w \in Workers
      PROVE  /\ \A n \in Names : DA!CreateUserInsert(w, n) => DAP!CreateUserInsert(w, n)
             /\ \A n \in Names : DA!CreateUserTaken(w, n) => DAP!CreateUserTaken(w, n)
             /\ DA!CreateUserCount(w) => DAP!CreateUserCount(w)
  BY DEF DA!CreateUserInsert, DAP!CreateUserInsert, DA!CreateUserTaken, DAP!CreateUserTaken,
         DA!CreateUserCount, DAP!CreateUserCount, DA!Goto, DAP!Goto, DA!Range, DAP!Range
<1>3. ASSUME NEW w \in Workers, NEW f, NEW t
      PROVE  DA!OneAtATime(f) /\ DA!FindMaxInternalId(w, f, t) =>
               DAP!OneAtATime(f) /\ DAP!FindMaxInternalId(w, f, t)
  <2>1. DA!OneAtATime(f) => DAP!OneAtATime(f)
    BY DEF DA!OneAtATime, DAP!OneAtATime, DA!InCreateMsg, DAP!InCreateMsg
  <2>2. /\ DA!InternalIds(f, t) = DAP!InternalIds(f, t)
        /\ DA!Unfinished = DAP!Unfinished
    BY DEF DA!InternalIds, DAP!InternalIds, DA!getAllMessages, DAP!getAllMessages,
           DA!Unfinished, DAP!Unfinished
  <2>3. DA!FindMaxInternalId(w, f, t) => DAP!FindMaxInternalId(w, f, t)
    BY <2>2, SameCardinality DEF DA!FindMaxInternalId, DAP!FindMaxInternalId, DA!Goto, DAP!Goto
  <2> QED
    BY <2>1, <2>3
<1>4. ASSUME NEW w \in Workers
      PROVE  /\ DA!CreateMsgInsert(w) => DAP!CreateMsgInsert(w)
             /\ DA!CreateMsgCount(w) => DAP!CreateMsgCount(w)
             /\ DA!GetLastInsertRowid(w) => DAP!GetLastInsertRowid(w)
  BY DEF DA!CreateMsgInsert, DAP!CreateMsgInsert, DA!CreateMsgCount, DAP!CreateMsgCount,
         DA!GetLastInsertRowid, DAP!GetLastInsertRowid, DA!Goto, DAP!Goto
<1>5. [DA!Next]_dbVars => [DAP!Next]_DAP!dbVars
  BY <1>2, <1>3, <1>4 DEF dbVars, DAP!dbVars, DA!Next, DAP!Next
<1> QED
  BY <1>1, <1>5, DataAssumptionHolds, DAP!IInvInit, DAP!IInvNext

(* ... and those of KeepAlive.                                             *)
LEMMA ChannelsInv ==
  /\ KA!Init => KAP!IInv
  /\ KAP!IInv /\ [KA!Next]_kaVars => KAP!IInv'
<1>1. KA!Init => KAP!Init
  BY DEF KA!Init, KAP!Init, KA!Uids, KAP!Uids, KA!NoArg, KAP!NoArg
<1> USE DEF KA!Goto, KAP!Goto, KA!Return, KAP!Return, KA!NoArg, KAP!NoArg,
            KA!HasSender, KAP!HasSender
<1>2. ASSUME NEW w \in Workers, NEW u, NEW c
      PROVE  /\ KA!SetupChannel(w, u, c) => KAP!SetupChannel(w, u, c)
             /\ KA!Notify(w, u, c) => KAP!Notify(w, u, c)
  <2>1. KA!SetupChannel(w, u, c) => KAP!SetupChannel(w, u, c)
    BY DEF KA!SetupChannel, KAP!SetupChannel
  <2>2. KA!Notify(w, u, c) => KAP!Notify(w, u, c)
    BY SameCardinality DEF KA!Notify, KAP!Notify
  <2> QED
    BY <2>1, <2>2
<1>3. ASSUME NEW w \in Workers, KA!WorkerStep(w) PROVE KAP!WorkerStep(w)
  <2>1. CASE KA!NewSender(w) \/ KA!OldSender(w) \/ KA!SetFd(w) \/ KA!Clear(w)
    BY <2>1 DEF KAP!WorkerStep, KA!NewSender, KAP!NewSender, KA!OldSender, KAP!OldSender,
                KA!SetFd, KAP!SetFd, KA!Clear, KAP!Clear
  <2>2. CASE \E l \in ContactLists : KA!MakeContactList(w, l)
    BY <2>2 DEF KAP!WorkerStep, KA!MakeContactList, KAP!MakeContactList
  <2>3. CASE KA!IsOnline(w) \/ KA!GetSender(w) \/ KA!AddSendTask(w)
    BY <2>3 DEF KAP!WorkerStep, KA!IsOnline, KAP!IsOnline, KA!GetSender, KAP!GetSender,
                KA!AddSendTask, KAP!AddSendTask
  <2> QED
    BY <1>3, <2>1, <2>2, <2>3 DEF KA!WorkerStep
<1>4. ASSUME NEW u, KA!ThreadStep(u) PROVE KAP!ThreadStep(u)
  BY <1>4 DEF KA!ThreadStep, KAP!ThreadStep, KA!RunPop, KAP!RunPop, KA!RunLock, KAP!RunLock,
              KA!RunSend, KAP!RunSend, KA!RunAck, KAP!RunAck
<1>5. [KA!Next]_kaVars => [KAP!Next]_KAP!kaVars
  BY <1>2, <1>3, <1>4 DEF kaVars, KAP!kaVars, KA!Next, KAP!Next, KA!Uids, KAP!Uids
<1> QED
  BY <1>1, <1>5, KeepAliveAssumptionHolds, KAP!IInvInit, KAP!IInvNext
-----------------------------------------------------------------------------
(* The inductive invariant holds initially.                                *)
LEMMA IInvInit == Init => IInv
<1> SUFFICES ASSUME Init PROVE IInv
  OBVIOUS
<1> USE DEF Init, DA!Init, KA!Init
<1>1. DAP!IInv /\ KAP!IInv
  BY TablesInv, ChannelsInv
<1>2. Types /\ HandlerInv /\ ListInv
  BY DEF Types, HandlerInv, ListInv, InCreateMsg
<1>3. BoundInv
  <2>1. DA!Unfinished = {}
    BY DEF DA!Unfinished
  <2>2. IsFiniteSet({}) /\ Cardinality({}) = 0
    BY FS_EmptySet
  <2> QED
    BY <2>1, <2>2, CountsAreNats, ChatAssumption, EmptySeq DEF BoundInv
<1>4. MsgInv
  BY DEF MsgInv, InCreateMsg
<1> QED
  BY <1>1, <1>2, <1>3, <1>4 DEF IInv

(* The reply comes after createMsgByRawMsg, so a client who waits for it   *)
(* has no call of DataAccess under way when it sends again.                *)
LEMMA TablesStep == IInv /\ [Next]_vars => [DA!Next]_dbVars
<1> SUFFICES ASSUME IInv, [Next]_vars PROVE [DA!Next]_dbVars
  OBVIOUS
<1>1. ASSUME NEW w \in Workers, NEW n \in Names, Register(w, n) PROVE DA!Next
  BY <1>1 DEF Register, DA!Next
<1>2. ASSUME NEW w \in Workers, NEW f, NEW t, SendMessage(w, f, t) PROVE DA!Next
  <2>1. DA!OneAtATime(f)
    <3> SUFFICES ASSUME f \notin Overlapping, NEW v \in DA!InCreateMsg PROVE msg[v].from # f
      BY DEF DA!OneAtATime
    <3>1. v \in Workers /\ step[v] \in InCreateMsg
      BY DEF DA!InCreateMsg, InCreateMsg
    <3>2. req[v] # NoReq /\ req[v].type = "SendMessage" /\ req[v].from = msg[v].from
      BY <3>1 DEF IInv, HandlerInv, InCreateMsg
    <3> QED
      BY <1>2, <3>1, <3>2 DEF SendMessage, Unanswered
  <2> QED
    BY <1>2, <2>1 DEF SendMessage, DA!Next
<1>3. ASSUME NEW w \in Workers, DataStep(w) PROVE DA!Next
  BY <1>3 DEF DataStep, DA!Next
<1>4. CASE UNCHANGED dbVars
  BY <1>4
<1> QED
  BY <1>1, <1>2, <1>3, <1>4
  DEF Next, vars, SetupChannel, SendRejected, WorkerStep, Reply, ReplyFails, CallbackStep,
      GetAllUsers, AddInternalId, PackContactList, ThreadStep

(* A finished contact list is a packet.                                    *)
LEMMA ListIsPacket ==
  ASSUME Types, ListInv, NEW w \in Workers, list[w] # NoList,
         NEW u \in UserIds \cup {0}
  PROVE  [uid |-> u, internalids |-> list[w].internalids] \in ContactLists
<1> DEFINE s == list[w].internalids
           n == Len(s)
<1>1. list[w] \in OpenLists
  BY DEF Types
<1>2. s \in Seq(0..MaxMsgs) /\ list[w].contacts \in 0..Cardinality(Names)
  BY <1>1 DEF OpenLists
<1>3. s \in [1..n -> 0..MaxMsgs] /\ n \in Nat
  BY <1>2, LenProperties
<1>4. n \in 0..Cardinality(Names)
  BY <1>2, <1>3, CountsAreNats DEF ListInv
<1> QED
  BY <1>3, <1>4 DEF ContactLists

(* The callbacks start, and the lists they queue are, as KeepAlive says.   *)
LEMMA ChannelsStep == IInv /\ [Next]_vars => [KA!Next]_kaVars
<1> SUFFICES ASSUME IInv, [Next]_vars PROVE [KA!Next]_kaVars
  OBVIOUS
<1>1. ASSUME NEW w \in Workers, Reply(w) PROVE [KA!Next]_kaVars
  <2>1. req[w] \in Requests
    BY <1>1 DEF Reply, IInv, Types, HandlerInv
  <2>2. CASE ReplyAck(w)
    <3>1. req[w].from \in UserIds \cup {0} /\ req[w].conn \in Conns
      BY <2>1, <2>2 DEF ReplyAck, Requests
    <3> QED
      BY <2>2, <3>1 DEF ReplyAck, KA!Next, KA!Uids
  <2>3. CASE ReplyMessage(w)
    <3>1. msg[w] \in ChatMsgs
      BY <1>1, <2>3 DEF Reply, ReplyMessage, IInv, MsgInv
    <3>2. msg[w].to \in UserIds
      BY <3>1 DEF ChatMsgs
    <3> QED
      BY <2>3, <3>1, <3>2 DEF ReplyMessage, KA!Next
  <2>4. CASE ReplyOnly(w)
    BY <2>4 DEF ReplyOnly
  <2> QED
    BY <1>1, <2>2, <2>3, <2>4 DEF Reply
<1>2. ASSUME NEW w \in Workers, PackContactList(w) PROVE KA!Next
  <2>1. arg[w].user \in UserIds \cup {0}
    BY DEF IInv, KAP!IInv, KAP!TypeOK, KAP!Args, KAP!Uids
  <2>2. [uid |-> arg[w].user, internalids |-> list[w].internalids] \in ContactLists
    BY <1>2, <2>1, ListIsPacket DEF PackContactList, IInv
  <2> QED
    BY <1>2, <2>2 DEF PackContactList, KA!Next, KA!WorkerStep
<1>3. ASSUME NEW w \in Workers, CallbackStep(w) PROVE KA!Next
  BY <1>3 DEF CallbackStep, KA!Next, KA!WorkerStep
<1>4. ASSUME NEW u \in UserIds \cup {0}, ThreadStep(u) PROVE KA!Next
  BY <1>4 DEF ThreadStep, KA!Next, KA!Uids
<1>5. CASE UNCHANGED kaVars
  BY <1>5
<1> QED
  BY <1>1, <1>2, <1>3, <1>4, <1>5
  DEF Next, vars, Register, SetupChannel, SendMessage, SendRejected, WorkerStep, DataStep,
      ReplyFails, GetAllUsers, AddInternalId
-----------------------------------------------------------------------------
(* A conversation has at most as many messages as are stored.              *)
LEMMA CountBounded ==
  ASSUME IInv, NEW f, NEW t
  PROVE  /\ Cardinality(DA!getAllMessages(f, t)) \in 0..MaxMsgs
         /\ Len(messages) \in 0..MaxMsgs
<1>1. messages \in Seq(DAP!RowType)
  BY DEF IInv, DAP!IInv, DAP!TypeOK
<1>2. Len(messages) \in Nat /\ DOMAIN messages = 1..Len(messages)
  BY <1>1, LenProperties
<1>3. Cardinality(DA!Unfinished) \in Nat
  BY FS_CardinalityType DEF IInv, BoundInv
<1>4. Len(messages) <= MaxMsgs
  BY <1>2, <1>3, CountsAreNats DEF IInv, BoundInv
<1>5. DA!getAllMessages(f, t) \subseteq 1..Len(messages)
  BY <1>2 DEF DA!getAllMessages
<1>6. /\ Cardinality(DA!getAllMessages(f, t)) \in Nat
      /\ Cardinality(DA!getAllMessages(f, t)) <= Len(messages)
  <2>1. ASSUME NEW n \in Nat PROVE IsFiniteSet(1..n) /\ Cardinality(1..n) = n
    BY FS_Interval
  <2>2. IsFiniteSet(1..Len(messages)) /\ Cardinality(1..Len(messages)) = Len(messages)
    BY <1>2, <2>1
  <2> QED
    BY <1>5, <2>2, FS_Subset, FS_CardinalityType
<1> QED
  BY <1>2, <1>4, <1>6, CountsAreNats

(* A contact list has an entry for each of the users there were when it    *)
(* was begun.                                                              *)
LEMMA ListNext ==
  ASSUME IInv, NEW w \in Workers,
         GetAllUsers(w) \/ AddInternalId(w) \/ PackContactList(w)
  PROVE  list' \in [Workers -> OpenLists \cup {NoList}] /\ ListInv'
<1> USE DEF IInv, Types, ListInv
<1>0. /\ op \in [Workers -> {"idle", "setKpAliveSender", "setFd", "clear", "list",
                             "isOnline", "getSender", "push"}]
      /\ users \in Seq(Names)
  BY DEF DAP!IInv, DAP!TypeOK, KAP!IInv, KAP!TypeOK
<1>1. CASE GetAllUsers(w)
  <2>1. [contacts |-> Len(users), internalids |-> <<>>] \in OpenLists
    BY <1>0, UsersBounded, CountsAreNats, EmptySeq DEF BoundInv, OpenLists
  <2>2. Len(<<>>) = 0 /\ Len(users) \in Nat
    BY <1>0, EmptySeq, LenProperties
  <2> QED
    BY <1>0, <1>1, <2>1, <2>2 DEF GetAllUsers, kaVars
<1>2. CASE AddInternalId(w)
  <2> DEFINE s == list[w].internalids
             n == Cardinality(DA!getAllMessages(arg[w].user, Len(s) + 1))
  <2>1. s \in Seq(0..MaxMsgs) /\ Len(s) < list[w].contacts /\ list[w] \in OpenLists
    BY <1>2 DEF AddInternalId, OpenLists
  <2>2. n \in 0..MaxMsgs
    BY CountBounded
  <2>3. /\ Append(s, n) \in Seq(0..MaxMsgs) /\ Len(Append(s, n)) = Len(s) + 1
        /\ Len(s) \in Nat
    BY <2>1, <2>2, AppendProperties, LenProperties
  <2>4. list' = [list EXCEPT ![w].internalids = Append(s, n)]
    BY <1>2, SameCardinality DEF AddInternalId
  <2>5. /\ list'[w] \in OpenLists
        /\ list'[w].internalids = Append(s, n) /\ list'[w].contacts = list[w].contacts
    BY <2>1, <2>3, <2>4 DEF OpenLists
  <2>6. list[w].contacts \in Nat
    BY <2>1, CountsAreNats DEF OpenLists
  <2> QED
    BY <1>0, <1>2, <2>1, <2>3, <2>4, <2>5, <2>6 DEF AddInternalId, kaVars
<1>3. CASE PackContactList(w)
  BY <1>0, <1>3 DEF PackContactList, KA!MakeContactList, KA!Goto
<1> QED
  BY <1>1, <1>2, <1>3

(* Types and HandlerInv, step by step.                                     *)
LEMMA HandlerNext ==
  ASSUME IInv, Next
  PROVE  Types' /\ HandlerInv'
<1> USE ChatAssumption DEF IInv, Types, HandlerInv, InCreateMsg, Handle, Free, Requests
<1>0. step \in [Workers -> {"idle", "created", "insert", "inserted", "rowid"}]
      /\ msg \in [Workers -> DAP!MsgType \cup {NoMsg}]
      /\ op \in [Workers -> {"idle", "setKpAliveSender", "setFd", "clear", "list",
                             "isOnline", "getSender", "push"}]
  BY DEF DAP!IInv, DAP!TypeOK, KAP!IInv, KAP!TypeOK
<1>1. ASSUME NEW w \in Workers, NEW n \in Names, Register(w, n)
      PROVE  Types' /\ HandlerInv'
  BY <1>0, <1>1 DEF Register, DA!CreateUserInsert, DA!CreateUserTaken, DA!Goto, kaVars
<1>2. ASSUME NEW w \in Workers, NEW u \in UserIds \cup {0}, NEW c \in Conns,
             SetupChannel(w, u, c)
      PROVE  Types' /\ HandlerInv'
  BY <1>0, <1>2 DEF SetupChannel, dbVars, kaVars
<1>3. ASSUME NEW w \in Workers, NEW f \in UserIds, NEW t \in UserIds, SendMessage(w, f, t)
      PROVE  Types' /\ HandlerInv'
  BY <1>0, <1>3 DEF SendMessage, DA!FindMaxInternalId, DA!Goto, kaVars
<1>4. ASSUME NEW w \in Workers, SendRejected(w)
      PROVE  Types' /\ HandlerInv'
  BY <1>0, <1>4 DEF SendRejected, dbVars, kaVars
<1>5. ASSUME NEW w \in Workers, DataStep(w)
      PROVE  Types' /\ HandlerInv'
  <2> USE DEF DataStep, DA!Goto, kaVars
  <2>1. CASE DA!CreateUserCount(w)
    BY <1>0, <1>5, <2>1 DEF DA!CreateUserCount
  <2>2. CASE DA!CreateMsgInsert(w)
    BY <1>0, <1>5, <2>2 DEF DA!CreateMsgInsert
  <2>3. CASE DA!CreateMsgCount(w)
    BY <1>0, <1>5, <2>3 DEF DA!CreateMsgCount
  <2>4. CASE DA!GetLastInsertRowid(w)
    BY <1>0, <1>5, <2>4 DEF DA!GetLastInsertRowid
  <2> QED
    BY <1>5, <2>1, <2>2, <2>3, <2>4
<1>6. ASSUME NEW w \in Workers, Reply(w)
      PROVE  Types' /\ HandlerInv'
  <2>1. /\ hpc[w] = "reply" /\ hpc' = [hpc EXCEPT ![w] = "idle"]
        /\ req' = [req EXCEPT ![w] = NoReq]
        /\ UNCHANGED <<step, msg, list>>
    BY <1>6 DEF Reply, dbVars
  <2>2. \A v \in Workers : v # w => op'[v] = op[v]
    BY <1>0, <1>6 DEF Reply, ReplyAck, ReplyMessage, ReplyOnly, KA!SetupChannel, KA!Notify,
                      KA!Goto, kaVars
  <2>3. acked' \subseteq ChatMsgs
    BY <1>6 DEF Reply, ReplyAck, ReplyMessage, ReplyOnly, MsgInv
  <2> QED
    BY <1>0, <2>1, <2>2, <2>3
<1>7. ASSUME NEW w \in Workers, ReplyFails(w)
      PROVE  Types' /\ HandlerInv'
  BY <1>0, <1>7 DEF ReplyFails, dbVars, kaVars
<1>8. ASSUME NEW w \in Workers, GetAllUsers(w) \/ AddInternalId(w) \/ PackContactList(w)
      PROVE  Types' /\ HandlerInv'
  <2>1. /\ UNCHANGED <<dbVars, hpc, req, acked>>
        /\ \A v \in Workers : v # w => op'[v] = op[v]
        /\ op[w] = "list"
    BY <1>0, <1>8 DEF GetAllUsers, AddInternalId, PackContactList, KA!MakeContactList,
                      KA!Goto, kaVars
  <2>2. list' \in [Workers -> OpenLists \cup {NoList}]
    BY <1>8, ListNext
  <2> QED
    BY <1>0, <2>1, <2>2 DEF dbVars
<1>9. ASSUME NEW w \in Workers, CallbackStep(w)
      PROVE  Types' /\ HandlerInv'
  <2>1. /\ UNCHANGED <<dbVars, hpc, req, list, acked>>
        /\ op[w] # "idle" /\ \A v \in Workers : v # w => op'[v] = op[v]
    BY <1>0, <1>9
    DEF CallbackStep, KA!NewSender, KA!OldSender, KA!SetFd, KA!Clear, KA!IsOnline,
        KA!GetSender, KA!AddSendTask, KA!Goto, KA!Return
  <2> QED
    BY <1>0, <2>1 DEF dbVars
<1>10. ASSUME NEW u \in UserIds \cup {0}, ThreadStep(u)
      PROVE  Types' /\ HandlerInv'
  BY <1>0, <1>10 DEF ThreadStep, KA!ThreadStep, KA!RunPop, KA!RunLock, KA!RunSend, KA!RunAck, dbVars
<1> QED
  BY <1>1, <1>2, <1>3, <1>4, <1>5, <1>6, <1>7, <1>8, <1>9, <1>10 DEF Next, WorkerStep

(* The callback that fills in a list is at "list" until it has packed it.  *)
LEMMA ListInvNext == IInv /\ [Next]_vars => ListInv'
<1> SUFFICES ASSUME IInv, [Next]_vars PROVE ListInv'
  OBVIOUS
<1> USE DEF ListInv
<1>0. op \in [Workers -> {"idle", "setKpAliveSender", "setFd", "clear", "list",
                          "isOnline", "getSender", "push"}]
  BY DEF IInv, KAP!IInv, KAP!TypeOK
<1>1. ASSUME NEW w \in Workers, CallbackStep(w) PROVE ListInv'
  BY <1>0, <1>1
  DEF IInv, CallbackStep, KA!NewSender, KA!OldSender, KA!SetFd, KA!Clear, KA!IsOnline,
      KA!GetSender, KA!AddSendTask, KA!Goto, KA!Return
<1>2. ASSUME NEW w \in Workers, Reply(w) PROVE ListInv'
  <2>1. op' = op \/ (op[w] = "idle" /\ \A v \in Workers : v # w => op'[v] = op[v])
    BY <1>0, <1>2 DEF Reply, ReplyAck, ReplyMessage, ReplyOnly, KA!SetupChannel, KA!Notify,
                      KA!Goto, kaVars
  <2> QED
    BY <1>2, <2>1 DEF IInv, Reply
<1>3. ASSUME NEW w \in Workers,
             GetAllUsers(w) \/ AddInternalId(w) \/ PackContactList(w)
      PROVE  ListInv'
  BY <1>3, ListNext
<1>4. ASSUME NEW u, ThreadStep(u) PROVE ListInv'
  BY <1>4 DEF IInv, ThreadStep, KA!ThreadStep, KA!RunPop, KA!RunLock, KA!RunSend, KA!RunAck
<1>5. CASE UNCHANGED <<op, list>>
  BY <1>5 DEF IInv
<1> QED
  BY <1>1, <1>2, <1>3, <1>4, <1>5
  DEF Next, WorkerStep, vars, kaVars, Register, SetupChannel, SendMessage, SendRejected,
      DataStep, ReplyFails

(* The bounds, for the statements of DataAccess.                           *)
LEMMA BoundNext == IInv /\ [DA!Next]_dbVars => BoundInv'
<1> SUFFICES ASSUME IInv, [DA!Next]_dbVars PROVE BoundInv'
  OBVIOUS
<1> USE DEF IInv, DA!Goto
<1>0. /\ users \in Seq(Names) /\ messages \in Seq(DAP!RowType) /\ lastRowid \in Nat
      /\ step \in [Workers -> {"idle", "created", "insert", "inserted", "rowid"}]
      /\ Len(messages) \in Nat /\ DOMAIN messages = 1..Len(messages)
      /\ Len(users) \in Nat /\ DOMAIN users = 1..Len(users)
      /\ Cardinality(DA!Unfinished) \in Nat
  BY LenProperties, FS_CardinalityType DEF DAP!IInv, DAP!TypeOK, BoundInv
<1>1. ASSUME NEW w \in Workers, NEW n \in Names, DA!CreateUserInsert(w, n)
      PROVE  BoundInv'
  <2>1. /\ users' \in Seq(Names) /\ Len(users') = Len(users) + 1
        /\ DOMAIN users' = 1..(Len(users) + 1)
        /\ users'[Len(users) + 1] = n
        /\ \A i \in 1..Len(users) : users'[i] = users[i] /\ users'[i] # n
    <3>1. users' = Append(users, n) /\ n \notin DA!Range(users)
      BY <1>1 DEF DA!CreateUserInsert
    <3>2. \A i \in 1..Len(users) : users[i] # n
      BY <1>0, <3>1 DEF DA!Range
    <3> QED
      BY <1>0, <3>1, <3>2, AppendProperties, LenProperties
  <2>2. IsInjective(users')
    BY <1>0, <2>1 DEF BoundInv, IsInjective
  <2>3. Len(users') <= Cardinality(Names)
    BY <2>1, <2>2, UsersBounded
  <2>4. DA!Unfinished' = DA!Unfinished /\ UNCHANGED messages /\ lastRowid' = Len(users')
    BY <1>0, <1>1, <2>1 DEF DA!CreateUserInsert, DA!Unfinished
  <2> QED
    BY <1>0, <2>1, <2>2, <2>3, <2>4, CountsAreNats DEF BoundInv
<1>2. ASSUME NEW w \in Workers, NEW f, NEW t, DA!FindMaxInternalId(w, f, t)
      PROVE  BoundInv'
  <2>1. /\ DA!Unfinished' = DA!Unfinished \cup {w} /\ w \notin DA!Unfinished
        /\ UNCHANGED <<users, messages, lastRowid>>
    BY <1>0, <1>2 DEF DA!FindMaxInternalId, DA!Unfinished
  <2>2. /\ IsFiniteSet(DA!Unfinished')
        /\ Cardinality(DA!Unfinished') = Cardinality(DA!Unfinished) + 1
    BY <2>1, FS_AddElement DEF BoundInv
  <2>3. Len(messages) + Cardinality(DA!Unfinished) < MaxMsgs
    BY <1>2, SameCardinality DEF DA!FindMaxInternalId
  <2> QED
    BY <1>0, <2>1, <2>2, <2>3, CountsAreNats DEF BoundInv
<1>3. ASSUME NEW w \in Workers, DA!CreateMsgInsert(w)
      PROVE  BoundInv'
  <2>1. /\ DA!Unfinished' = DA!Unfinished \ {w} /\ w \in DA!Unfinished
        /\ UNCHANGED users /\ lastRowid' = Len(messages) + 1
    BY <1>0, <1>3 DEF DA!CreateMsgInsert, DA!Unfinished
  <2>2. /\ IsFiniteSet(DA!Unfinished')
        /\ Cardinality(DA!Unfinished') = Cardinality(DA!Unfinished) - 1
        /\ Cardinality(DA!Unfinished') \in Nat
    BY <2>1, FS_RemoveElement, FS_CardinalityType DEF BoundInv
  <2>3. /\ Len(messages') = Len(messages) + 1
        /\ DOMAIN messages' = 1..(Len(messages) + 1)
        /\ messages'[Len(messages) + 1].internal = msg[w].internal
        /\ \A i \in 1..Len(messages) : messages'[i] = messages[i]
    <3>1. [from |-> msg[w].from, to |-> msg[w].to, internal |-> msg[w].internal]
            \in DAP!RowType
      BY <1>3 DEF DA!CreateMsgInsert, DAP!IInv, DAP!HoldsMsg, DAP!InCreateMsg, DAP!MsgType,
                  DAP!RowType
    <3> QED
      BY <1>0, <1>3, <3>1, AppendProperties, LenProperties DEF DA!CreateMsgInsert
  <2>4. msg[w].internal <= Len(messages) + 1
    BY <1>3 DEF DA!CreateMsgInsert, MsgInv
  <2> QED
    BY <1>0, <2>1, <2>2, <2>3, <2>4, CountsAreNats DEF BoundInv
<1>4. CASE UNCHANGED <<users, messages, lastRowid, DA!Unfinished>>
  BY <1>4 DEF BoundInv
<1>5. ASSUME NEW w \in Workers,
             \/ \E n \in Names : DA!CreateUserTaken(w, n)
             \/ DA!CreateUserCount(w) \/ DA!CreateMsgCount(w) \/ DA!GetLastInsertRowid(w)
      PROVE  UNCHANGED <<users, messages, lastRowid, DA!Unfinished>>
  BY <1>0, <1>5 DEF DA!CreateUserTaken, DA!CreateUserCount, DA!CreateMsgCount,
                    DA!GetLastInsertRowid, DA!Unfinished
<1>6. CASE UNCHANGED dbVars
  BY <1>4, <1>6 DEF dbVars, DA!Unfinished
<1> QED
  BY <1>1, <1>2, <1>3, <1>4, <1>5, <1>6 DEF DA!Next

(* The message that is stored is the one that is answered, with a key that *)
(* the connection has given out.                                           *)
LEMMA MsgNext == IInv /\ [Next]_vars => MsgInv'
<1> SUFFICES ASSUME IInv, [Next]_vars PROVE MsgInv'
  OBVIOUS
<1> USE DEF IInv, MsgInv, InCreateMsg, Handle, Free, DA!Goto
<1>0. /\ users \in Seq(Names) /\ messages \in Seq(DAP!RowType) /\ lastRowid \in Nat
      /\ step \in [Workers -> {"idle", "created", "insert", "inserted", "rowid"}]
      /\ msg \in [Workers -> DAP!MsgType \cup {NoMsg}]
      /\ hpc \in [Workers -> {"idle", "work", "reply"}]
      /\ req \in [Workers -> Requests \cup {NoReq}]
      /\ Len(messages) \in Nat /\ DOMAIN messages = 1..Len(messages)
  BY LenProperties DEF DAP!IInv, DAP!TypeOK, Types
<1>1. ASSUME NEW w \in Workers, NEW n \in Names, Register(w, n) PROVE MsgInv'
  BY <1>0, <1>1 DEF Register, DA!CreateUserInsert, DA!CreateUserTaken
<1>2. ASSUME NEW w \in Workers, NEW f \in UserIds, NEW t \in UserIds, SendMessage(w, f, t)
      PROVE  MsgInv'
  <2>1. PICK max \in DA!InternalIds(f, t) \cup {0} :
          msg' = [msg EXCEPT ![w] = [from |-> f, to |-> t, internal |-> max + 1, id |-> 0]]
    BY <1>2 DEF SendMessage, DA!FindMaxInternalId
  <2>2. max \in Nat /\ max <= Len(messages)
    <3>1. \A i \in DOMAIN messages : messages[i].internal \in Nat
      <4>1. messages \in [1..Len(messages) -> DAP!RowType]
        BY <1>0, LenProperties
      <4> QED
        BY <1>0, <4>1 DEF DAP!RowType
    <3> QED
      BY <1>0, <3>1 DEF DA!InternalIds, DA!getAllMessages, BoundInv
  <2>3. Len(messages) < MaxMsgs
    <3>1. Len(messages) + Cardinality(DA!Unfinished) < MaxMsgs
      BY <1>2, SameCardinality DEF SendMessage, DA!FindMaxInternalId
    <3>2. Cardinality(DA!Unfinished) \in Nat
      BY FS_CardinalityType DEF BoundInv
    <3> QED
      BY <1>0, <3>1, <3>2, CountsAreNats
  <2>4. max + 1 \in 1..MaxMsgs /\ max + 1 <= Len(messages) + 1
    BY <1>0, <2>2, <2>3, CountsAreNats
  <2>5. msg'[w] \in [from : UserIds, to : UserIds, internal : 1..MaxMsgs, id : {0}]
    BY <1>0, <2>1, <2>4
  <2>6. /\ step' = [step EXCEPT ![w] = "insert"] /\ hpc' = [hpc EXCEPT ![w] = "work"]
        /\ req' = [req EXCEPT ![w] = [type |-> "SendMessage", from |-> f]]
        /\ UNCHANGED messages
    BY <1>2 DEF SendMessage, DA!FindMaxInternalId
  <2> QED
    BY <1>0, <2>1, <2>4, <2>5, <2>6
<1>3. ASSUME NEW w \in Workers, DataStep(w) PROVE MsgInv'
  <2> USE DEF DataStep, HandlerInv
  <2>1. CASE DA!CreateUserCount(w)
    BY <1>0, <1>3, <2>1 DEF DA!CreateUserCount
  <2>2. CASE DA!CreateMsgInsert(w)
    <3>1. [from |-> msg[w].from, to |-> msg[w].to, internal |-> msg[w].internal]
            \in DAP!RowType
      BY <2>2 DEF DA!CreateMsgInsert, DAP!IInv, DAP!HoldsMsg, DAP!InCreateMsg, DAP!MsgType,
                  DAP!RowType
    <3>2. Len(messages') = Len(messages) + 1 /\ messages' # <<>>
      BY <1>0, <2>2, <3>1, AppendProperties DEF DA!CreateMsgInsert
    <3>3. \A v \in Workers : step[v] = "insert" => msg[v].internal <= Len(messages) + 2
      <4>1. \A v \in Workers : step[v] = "insert" => msg[v].internal \in 1..MaxMsgs
        OBVIOUS
      <4> QED
        BY <1>0, <4>1, CountsAreNats
    <3> QED
      BY <1>0, <1>3, <2>2, <3>2, <3>3 DEF DA!CreateMsgInsert
  <2>3. CASE DA!CreateMsgCount(w)
    BY <1>0, <1>3, <2>3 DEF DA!CreateMsgCount
  <2>4. CASE DA!GetLastInsertRowid(w)
    <3>1. /\ step[w] = "rowid" /\ step' = [step EXCEPT ![w] = "idle"]
          /\ hpc' = [hpc EXCEPT ![w] = "reply"]
          /\ UNCHANGED <<req, messages>>
      BY <1>0, <1>3, <2>4 DEF DA!GetLastInsertRowid
    <3>2. lastRowid \in 1..(MaxMsgs + Cardinality(Names))
      BY <1>0, <3>1, CountsAreNats DEF BoundInv
    <3>3. /\ msg'[w] \in ChatMsgs
          /\ \A v \in Workers : v # w => msg'[v] = msg[v]
      BY <1>0, <2>4, <3>1, <3>2 DEF DA!GetLastInsertRowid, ChatMsgs
    <3> QED
      BY <1>0, <3>1, <3>3
  <2> QED
    BY <1>3, <2>1, <2>2, <2>3, <2>4
<1>4. ASSUME NEW w \in Workers, NEW u, NEW c, SetupChannel(w, u, c) PROVE MsgInv'
  BY <1>0, <1>4 DEF SetupChannel, dbVars
<1>5. ASSUME NEW w \in Workers, SendRejected(w) \/ Reply(w) \/ ReplyFails(w) PROVE MsgInv'
  BY <1>0, <1>5 DEF SendRejected, Reply, ReplyFails, dbVars
<1>6. CASE UNCHANGED <<dbVars, hpc, req>>
  BY <1>6 DEF dbVars
<1> QED
  BY <1>1, <1>2, <1>3, <1>4, <1>5, <1>6
  DEF Next, WorkerStep, vars, CallbackStep, GetAllUsers, AddInternalId, PackContactList,
      ThreadStep

(* Every step keeps the inductive invariant.                               *)
LEMMA IInvNext == IInv /\ [Next]_vars => IInv'
<1> SUFFICES ASSUME IInv, [Next]_vars PROVE IInv'
  OBVIOUS
<1>1. DAP!IInv' /\ KAP!IInv'
  BY TablesStep, ChannelsStep, TablesInv, ChannelsInv DEF IInv
<1>2. Types' /\ HandlerInv'
  <2>1. CASE UNCHANGED vars
    BY <2>1 DEF vars, dbVars, kaVars, IInv, Types, HandlerInv
  <2> QED
    BY <2>1, HandlerNext
<1>3. ListInv' /\ BoundInv' /\ MsgInv'
  BY ListInvNext, TablesStep, BoundNext, MsgNext
<1> QED
  BY <1>1, <1>2, <1>3 DEF IInv

(* The invariant of all reachable states, for the theorems.                *)
LEMMA IInvAlways == Spec => []IInv
  BY IInvInit, IInvNext, PTL DEF Spec
-----------------------------------------------------------------------------
(* Every variable of the server keeps its type, those of the tables and of *)
(* the channels among them: a worker has a request exactly while it        *)
(* handles one in processRecvSocket.                                       *)
THEOREM ChatTypes == Spec => []TypeOK
<1>1. IInv => TypeOK
  <2> SUFFICES ASSUME IInv PROVE TypeOK
    OBVIOUS
  <2>1. DA!TypeOK
    BY DEF IInv, DAP!IInv, DAP!TypeOK, DA!TypeOK, DAP!RowType, DA!RowType, DAP!MsgType,
           DA!MsgType
  <2>2. KA!TypeOK
    BY DEF IInv, KAP!IInv, KAP!TypeOK, KA!TypeOK, KAP!Uids, KA!Uids, KAP!Packets,
           KA!Packets, KAP!Args, KA!Args
  <2> QED
    BY <2>1, <2>2 DEF IInv, Types, HandlerInv, ListInv, TypeOK
<1> QED
  BY <1>1, IInvAlways, PTL

(* The handlers of RegisterRequest and SendMessageRequest use the tables   *)
(* as DataAccess lets them: a client that waits for its answers never has  *)
(* two calls of createMsgByRawMsg under way, because processRecvSocket     *)
(* replies only after the call has returned.                               *)
THEOREM HandlersUseTables == Spec => UsesTables
<1>1. Init => DA!Init
  BY DEF Init
<1>2. IInv /\ [Next]_vars => [DA!Next]_DA!dbVars
  BY TablesStep DEF dbVars, DA!dbVars
<1> QED
  BY <1>1, <1>2, IInvAlways, PTL DEF Spec, UsesTables, DA!Spec

(* The callbacks of SetupChannelRequest and SendMessageRequest use the     *)
(* channels as KeepAlive lets them: one callback per worker at a time, a   *)
(* list or a stored message in each packet.                                *)
THEOREM HandlersUseChannels == Spec => UsesChannels
<1>1. Init => KA!Init
  BY DEF Init
<1>2. IInv /\ [Next]_vars => [KA!Next]_KA!kaVars
  BY ChannelsStep DEF kaVars, KA!kaVars
<1> QED
  BY <1>1, <1>2, IInvAlways, PTL DEF Spec, UsesChannels, KA!Spec

(* Of the server as a whole: the messages of a client that waits for its   *)
(* answers are numbered 1, 2, 3, ... in each conversation, however its     *)
(* requests and those of others are spread over the workers.               *)
THEOREM ServerNumbersMessages == Spec => []DA!InternalIdIsOrdinal
<1>1. IInv => DA!InternalIdIsOrdinal
  BY Zenon DEF IInv, DAP!IInv, DAP!InternalIdIsOrdinal, DA!InternalIdIsOrdinal,
         DAP!Cardinality, DA!Cardinality,
         DAP!getAllMessages, DA!getAllMessages
<1> QED
  BY <1>1, IInvAlways, PTL

(* Of the server as a whole: an ack is read from the connection the packet *)
(* was sent on, whichever handlers set up channels meanwhile.              *)
THEOREM ServerAcksFromSameChannel == Spec => []KA!AckFromSameChannel
<1>1. IInv => KA!AckFromSameChannel
  BY DEF IInv, KAP!IInv, KAP!AckFromSameChannel, KA!AckFromSameChannel, KAP!Uids, KA!Uids
<1> QED
  BY <1>1, IInvAlways, PTL

(* Of the server as a whole: the contact list of the current channel of a  *)
(* user is being made by the callback of SetupChannelRequest, waits for    *)
(* the sender thread, or was sent.                                         *)
THEOREM ServerOwesContactLists == Spec => []KA!ContactListOwed
<1>1. IInv => KA!ContactListOwed
  BY DEF IInv, KAP!IInv, KAP!ContactListOwed, KA!ContactListOwed, KAP!HasSender,
         KA!HasSender, KAP!InHand, KA!InHand, KAP!OwesList, KA!OwesList,
         KAP!Range, KA!Range
<1> QED
  BY <1>1, IInvAlways, PTL
-----------------------------------------------------------------------------
(* The places a packet can be in, from the callback that makes it to the   *)
(* client.                                                                 *)
Queued(u, p) == \E i \in 1..Len(queue[u]) : queue[u][i] = p
Packed(p) == \/ \E w \in Workers : arg[w].pkt = p
             \/ \E u \in UserIds \cup {0} : Queued(u, p) \/ hand[u] = p
             \/ \E c \in Conns : p \in sent[c]

AckedInv == \A p \in ChatMsgs : Packed(p) => p \in acked

(* The sender threads and the callbacks move packets; only the answer to a *)
(* message and a finished contact list make one.                           *)
LEMMA PacketsMove ==
  ASSUME IInv, NEW p \in ContactLists \cup ChatMsgs, Packed(p)',
         \/ \E w \in Workers : CallbackStep(w)
         \/ \E u \in UserIds \cup {0} : ThreadStep(u)
  PROVE  Packed(p)
<1>0. /\ arg \in [Workers -> KAP!Args] /\ fd \in [UserIds \cup {0} -> Conns \cup {NoConn}]
      /\ queue \in [UserIds \cup {0} -> Seq(ContactLists \cup ChatMsgs)]
      /\ hand \in [UserIds \cup {0} -> ContactLists \cup ChatMsgs \cup {NoPkt}]
      /\ sent \in [Conns -> SUBSET (ContactLists \cup ChatMsgs)]
  BY DEF IInv, KAP!IInv, KAP!TypeOK, KAP!Uids, KAP!Packets
<1>1. \A w \in Workers : arg[w].user \in UserIds \cup {0}
  BY <1>0 DEF KAP!Args, KAP!Uids
<1>2. p # NoPkt
  BY ChatAssumption
<1>3. ASSUME NEW w \in Workers, CallbackStep(w) PROVE Packed(p)
  <2> USE DEF CallbackStep, KA!Goto, KA!Return, KA!NoArg
  <2>1. CASE KA!NewSender(w) \/ KA!OldSender(w) \/ KA!SetFd(w)
    BY <2>1 DEF KA!NewSender, KA!OldSender, KA!SetFd, Packed, Queued
  <2>2. CASE KA!Clear(w)
    <3>1. \A u \in UserIds \cup {0} : Queued(u, p)' => Queued(u, p)
      BY <1>0, <2>2, EmptySeq DEF KA!Clear, Queued
    <3> QED
      BY <2>2, <3>1 DEF KA!Clear, Packed
  <2>3. CASE KA!IsOnline(w) \/ KA!GetSender(w)
    <3>1. arg' = arg \/ arg' = [arg EXCEPT ![w] = [user |-> 0, conn |-> NoConn, pkt |-> NoPkt]]
      BY <2>3 DEF KA!IsOnline, KA!GetSender
    <3> QED
      BY <1>0, <1>2, <2>3, <3>1 DEF KA!IsOnline, KA!GetSender, Packed, Queued
  <2>4. CASE KA!AddSendTask(w)
    <3> DEFINE u == arg[w].user
    <3>1. u \in UserIds \cup {0} /\ arg[w].pkt \in ContactLists \cup ChatMsgs
      BY <1>1, <2>4 DEF KA!AddSendTask, IInv, KAP!IInv, KAP!ArgReady, KAP!Packets
    <3>2. \A v \in UserIds \cup {0} : Queued(v, p)' => Queued(v, p) \/ arg[w].pkt = p
      BY <1>0, <2>4, <3>1, AppendProperties DEF KA!AddSendTask, Queued
    <3>3. \A v \in Workers : arg'[v].pkt = p => arg[v].pkt = p
      BY <1>0, <1>2, <2>4 DEF KA!AddSendTask
    <3> QED
      BY <2>4, <3>2, <3>3 DEF KA!AddSendTask, Packed
  <2> QED
    BY <1>3, <2>1, <2>2, <2>3, <2>4
<1>4. ASSUME NEW u \in UserIds \cup {0}, ThreadStep(u) PROVE Packed(p)
  <2> USE DEF ThreadStep, KA!ThreadStep
  <2>1. CASE KA!RunPop(u)
    <3>1. queue[u] # <<>> /\ queue[u] \in Seq(ContactLists \cup ChatMsgs)
      BY <1>0, <2>1 DEF KA!RunPop
    <3>2. /\ Len(queue[u]) \in Nat /\ Len(queue[u]) >= 1 /\ Head(queue[u]) = queue[u][1]
          /\ Len(Tail(queue[u])) = Len(queue[u]) - 1
          /\ \A i \in 1..(Len(queue[u]) - 1) : Tail(queue[u])[i] = queue[u][i + 1]
      BY <3>1, HeadTailProperties, LenProperties, EmptySeq
    <3>3. hand'[u] = p => Queued(u, p)
      BY <1>0, <2>1, <3>2 DEF KA!RunPop, Queued
    <3>4. \A v \in UserIds \cup {0} : Queued(v, p)' => Queued(v, p)
      BY <1>0, <2>1, <3>2 DEF KA!RunPop, Queued
    <3> QED
      BY <1>0, <2>1, <3>3, <3>4 DEF KA!RunPop, Packed
  <2>2. CASE KA!RunLock(u)
    BY <2>2 DEF KA!RunLock, Packed, Queued
  <2>3. CASE KA!RunSend(u)
    <3>1. \A c \in Conns : p \in sent'[c] => p \in sent[c] \/ hand[u] = p
      BY <1>0, <2>3 DEF KA!RunSend
    <3> QED
      BY <2>3, <3>1 DEF KA!RunSend, Packed, Queued
  <2>4. CASE KA!RunAck(u)
    BY <1>0, <1>2, <2>4 DEF KA!RunAck, Packed, Queued
  <2> QED
    BY <1>4, <2>1, <2>2, <2>3, <2>4
<1> QED
  BY <1>3, <1>4

(* What the answer to a request, and a finished list, add to the packets.  *)
LEMMA PacketsMade ==
  ASSUME IInv, NEW p \in ContactLists \cup ChatMsgs, Packed(p)', ~Packed(p), [Next]_vars
  PROVE  \E w \in Workers :
           \/ p = msg[w] /\ p \in ChatMsgs /\ p \in acked'
           \/ /\ PackContactList(w)
              /\ p = [uid |-> arg[w].user, internalids |-> list[w].internalids]
<1>0. arg \in [Workers -> KAP!Args]
  BY DEF IInv, KAP!IInv, KAP!TypeOK
<1>1. p # NoPkt
  BY ChatAssumption
<1>2. ~UNCHANGED <<arg, queue, hand, sent>>
  BY DEF Packed, Queued
<1>3. ASSUME NEW w \in Workers, Reply(w)
      PROVE  ReplyMessage(w) /\ p = msg[w]
  <2>1. ~ReplyOnly(w)
    BY <1>2 DEF ReplyOnly, kaVars
  <2>2. ~ReplyAck(w)
    BY <1>0, <1>1 DEF ReplyAck, KA!SetupChannel, Packed, Queued
  <2>3. ReplyMessage(w)
    BY <1>3, <2>1, <2>2 DEF Reply
  <2> QED
    BY <1>0, <2>3 DEF ReplyMessage, KA!Notify, Packed, Queued
<1>4. ASSUME NEW w \in Workers, Reply(w)
      PROVE  p \in ChatMsgs /\ p \in acked'
  BY <1>3, <1>4 DEF Reply, ReplyMessage, IInv, MsgInv
<1>5. ASSUME NEW w \in Workers, PackContactList(w)
      PROVE  p = [uid |-> arg[w].user, internalids |-> list[w].internalids]
  BY <1>0, <1>5 DEF PackContactList, KA!MakeContactList, Packed, Queued
<1>6. ~\E w \in Workers : CallbackStep(w)
  BY PacketsMove
<1>7. ~\E u \in UserIds \cup {0} : ThreadStep(u)
  BY PacketsMove
<1>8. \E w \in Workers : Reply(w) \/ PackContactList(w)
  BY <1>2, <1>6, <1>7
  DEF Next, WorkerStep, vars, kaVars, Register, SetupChannel, SendMessage, SendRejected,
      DataStep, ReplyFails, GetAllUsers, AddInternalId
<1> QED
  BY <1>3, <1>4, <1>5, <1>8

(* AckedInv, for what moves packets and what makes them.                   *)
LEMMA AckedNext == IInv /\ AckedInv /\ [Next]_vars => AckedInv'
<1> SUFFICES ASSUME IInv, AckedInv, [Next]_vars, NEW p \in ChatMsgs, Packed(p)'
             PROVE  p \in acked'
  BY DEF AckedInv
<1>1. acked \subseteq acked'
  BY DEF Next, WorkerStep, vars, Register, SetupChannel, SendMessage, SendRejected, DataStep,
         Reply, ReplyAck, ReplyMessage, ReplyOnly, ReplyFails, GetAllUsers, AddInternalId,
         PackContactList, CallbackStep, ThreadStep
<1>2. CASE Packed(p)
  BY <1>1, <1>2 DEF AckedInv
<1>3. CASE ~Packed(p)
  <2>1. ASSUME NEW u, NEW s PROVE p # [uid |-> u, internalids |-> s]
    BY DEF ChatMsgs
  <2> QED
    BY <1>3, <2>1, PacketsMade
<1> QED
  BY <1>2, <1>3

(* SendMessageResponse goes out before the callback that queues the        *)
(* notification of the message is run, so no receiver hears of a message   *)
(* whose sender has not been told its ids, on whichever thread and after   *)
(* however many reconnects it is sent.                                     *)
THEOREM NotifiedAreAcked == Spec => []NotifiedIsAcked
<1>1. Init => AckedInv
  <2>1. NoPkt \notin ChatMsgs
    BY ChatAssumption
  <2> QED
    BY <2>1, EmptySeq DEF Init, KA!Init, KA!Uids, KA!NoArg, AckedInv, Packed, Queued
<1>2. AckedInv => NotifiedIsAcked
  BY DEF AckedInv, NotifiedIsAcked, Packed
<1> QED
  BY <1>1, <1>2, IInvAlways, AckedNext, PTL DEF Spec
-----------------------------------------------------------------------------
(* CountedIsPullable for one list, for the lists that are under way and    *)
(* for the tables themselves.                                              *)
Pullable(u, s) ==
  u \notin Overlapping =>
    \A t \in DOMAIN s : \A k \in 1..s[t] : DA!getMessage(u, t, k) # {}

DenseInv ==
  \A f, t \in Nat : f \notin Overlapping =>
    \A k \in 1..Cardinality(DA!getAllMessages(f, t)) : DA!getMessage(f, t, k) # {}

PullableInv ==
  /\ \A l \in ContactLists : Packed(l) => Pullable(l.uid, l.internalids)
  /\ \A w \in Workers : list[w] # NoList => Pullable(arg[w].user, list[w].internalids)

(* No message goes away.  The ids of a conversation are 1, 2, 3, ...       *)
LEMMA DenseNext ==
  IInv /\ DenseInv /\ [Next]_vars =>
    /\ DenseInv'
    /\ \A f, t, k : DA!getMessage(f, t, k) # {} => DA!getMessage(f, t, k)' # {}
<1> SUFFICES ASSUME IInv, DenseInv, [Next]_vars
             PROVE  /\ DenseInv'
                    /\ \A f, t, k : DA!getMessage(f, t, k) # {} =>
                                      DA!getMessage(f, t, k)' # {}
  OBVIOUS
<1>0. messages \in Seq(DAP!RowType) /\ msg \in [Workers -> DAP!MsgType \cup {NoMsg}]
  BY DEF IInv, DAP!IInv, DAP!TypeOK
<1>1. CASE UNCHANGED messages
  BY <1>1 DEF DenseInv, DA!getMessage, DA!getAllMessages
<1>2. ASSUME NEW w \in Workers, DA!CreateMsgInsert(w)
      PROVE  /\ DenseInv'
             /\ \A f, t, k : DA!getMessage(f, t, k) # {} => DA!getMessage(f, t, k)' # {}
  <2>1. PICK r \in DAP!RowType :
          /\ r = [from |-> msg[w].from, to |-> msg[w].to, internal |-> msg[w].internal]
          /\ messages' = Append(messages, r)
    BY <1>2 DEF DA!CreateMsgInsert, IInv, DAP!IInv, DAP!HoldsMsg, DAP!InCreateMsg,
                DAP!MsgType, DAP!RowType
  <2>2. \A f, t : /\ DAP!getAllMessages(f, t) = DA!getAllMessages(f, t)
                  /\ DAP!getAllMessages(f, t)' = DA!getAllMessages(f, t)'
                  /\ DAP!Count(f, t) = Cardinality(DA!getAllMessages(f, t))
                  /\ DAP!Count(f, t)' = Cardinality(DA!getAllMessages(f, t)')
    BY SameCardinality DEF DAP!getAllMessages, DA!getAllMessages, DAP!Count
  <2> DEFINE n == Len(messages) + 1
  <2>3. /\ DOMAIN messages' = DOMAIN messages \cup {n}
        /\ messages'[n] = r /\ \A i \in DOMAIN messages : messages'[i] = messages[i]
        /\ DA!getAllMessages(r.from, r.to)' = DA!getAllMessages(r.from, r.to) \cup {n}
        /\ Cardinality(DA!getAllMessages(r.from, r.to)') =
             Cardinality(DA!getAllMessages(r.from, r.to)) + 1
        /\ \A f, t : f # r.from \/ t # r.to =>
             DA!getAllMessages(f, t)' = DA!getAllMessages(f, t)
    <3>1. /\ DOMAIN messages' = DOMAIN messages \cup {n}
          /\ messages'[n] = r /\ \A i \in DOMAIN messages : messages'[i] = messages[i]
          /\ DAP!getAllMessages(r.from, r.to)' = DAP!getAllMessages(r.from, r.to) \cup {n}
          /\ DAP!Count(r.from, r.to)' = DAP!Count(r.from, r.to) + 1
          /\ \A f, t : f # r.from \/ t # r.to =>
               DAP!getAllMessages(f, t)' = DAP!getAllMessages(f, t)
      BY <1>0, <2>1, DataAssumptionHolds, DAP!RowAppended
    <3> QED
      BY <2>2, <3>1
  <2>4. ASSUME NEW f, NEW t, NEW k, DA!getMessage(f, t, k) # {}
        PROVE  DA!getMessage(f, t, k)' # {}
    BY <2>3, <2>4 DEF DA!getMessage, DA!getAllMessages
  <2>5. r.from \notin Overlapping =>
          r.internal = Cardinality(DA!getAllMessages(r.from, r.to)) + 1
    BY <1>2, <2>1, <2>2 DEF DA!CreateMsgInsert, IInv, DAP!IInv, DAP!NextId
  <2>6. DA!getMessage(r.from, r.to, r.internal)' # {}
    BY <2>3 DEF DA!getMessage
  <2>7. ASSUME NEW f \in Nat, NEW t \in Nat, f \notin Overlapping,
               NEW k \in 1..Cardinality(DA!getAllMessages(f, t)')
        PROVE  DA!getMessage(f, t, k)' # {}
    <3>1. CASE f = r.from /\ t = r.to
      <4>1. Cardinality(DA!getAllMessages(f, t)) \in Nat
        BY CountBounded
      <4>2. Cardinality(DA!getAllMessages(f, t)') = Cardinality(DA!getAllMessages(f, t)) + 1
        BY <2>3, <3>1
      <4>3. r.internal = Cardinality(DA!getAllMessages(f, t)) + 1
        BY <2>5, <2>7, <3>1
      <4>4. k \in 1..Cardinality(DA!getAllMessages(f, t)) \/ k = r.internal
        BY <2>7, <4>1, <4>2, <4>3
      <4> QED
        BY <2>4, <2>6, <2>7, <3>1, <4>4 DEF DenseInv
    <3>2. CASE f # r.from \/ t # r.to
      BY <2>3, <2>4, <2>7, <3>2 DEF DenseInv
    <3> QED
      BY <3>1, <3>2
  <2> QED
    BY <2>4, <2>7 DEF DenseInv
<1>3. UNCHANGED messages \/ \E w \in Workers : DA!CreateMsgInsert(w)
  BY TablesStep DEF DA!Next, dbVars, DA!CreateUserInsert, DA!CreateUserTaken,
                    DA!CreateUserCount, DA!FindMaxInternalId, DA!CreateMsgCount,
                    DA!GetLastInsertRowid
<1> QED
  BY <1>1, <1>2, <1>3

(* While a worker fills in a list, it is only that worker which changes    *)
(* the list, and nobody changes the user it is for.                        *)
LEMMA ListStays ==
  ASSUME IInv, [Next]_vars, NEW w \in Workers, list'[w] # NoList,
         ~GetAllUsers(w), ~AddInternalId(w)
  PROVE  list'[w] = list[w] /\ arg'[w].user = arg[w].user
<1>0. /\ arg \in [Workers -> KAP!Args] /\ list \in [Workers -> OpenLists \cup {NoList}]
  BY DEF IInv, KAP!IInv, KAP!TypeOK, Types
<1>1. ASSUME NEW v \in Workers, GetAllUsers(v) \/ AddInternalId(v) PROVE v # w
  BY <1>1
<1>2. ASSUME NEW v \in Workers, GetAllUsers(v) \/ AddInternalId(v)
      PROVE  list'[w] = list[w] /\ arg' = arg
  BY <1>0, <1>1, <1>2 DEF GetAllUsers, AddInternalId, kaVars
<1>3. ASSUME NEW v \in Workers, PackContactList(v)
      PROVE  list'[w] = list[w] /\ arg'[w].user = arg[w].user
  BY <1>0, <1>3 DEF PackContactList, KA!MakeContactList
<1>4. ASSUME NEW v \in Workers, CallbackStep(v)
      PROVE  list' = list /\ arg'[w].user = arg[w].user
  <2>1. list' = list /\ op[w] = "list"
    BY <1>4 DEF CallbackStep, IInv, ListInv
  <2>2. arg' = arg \/ (op[v] # "list" /\ \A u \in Workers : u # v => arg'[u] = arg[u])
    BY <1>0, <1>4 DEF CallbackStep, KA!NewSender, KA!OldSender, KA!SetFd, KA!Clear, KA!IsOnline,
                      KA!GetSender, KA!AddSendTask, KA!Return
  <2> QED
    BY <2>1, <2>2
<1>5. ASSUME NEW v \in Workers, Reply(v)
      PROVE  list' = list /\ arg'[w].user = arg[w].user
  <2>1. list' = list /\ op[w] = "list" /\ op[v] = "idle"
    BY <1>5 DEF Reply, IInv, ListInv, HandlerInv
  <2>2. arg' = arg \/ \A u \in Workers : u # v => arg'[u] = arg[u]
    BY <1>0, <1>5 DEF Reply, ReplyAck, ReplyMessage, ReplyOnly, KA!SetupChannel, KA!Notify,
                      kaVars
  <2> QED
    BY <2>1, <2>2
<1>6. ASSUME NEW u, ThreadStep(u) PROVE list' = list /\ arg' = arg
  BY <1>6 DEF ThreadStep, KA!ThreadStep, KA!RunPop, KA!RunLock, KA!RunSend, KA!RunAck
<1>7. CASE list' = list /\ arg' = arg
  BY <1>7
<1> QED
  BY <1>2, <1>3, <1>4, <1>5, <1>6, <1>7
  DEF Next, WorkerStep, vars, kaVars, Register, SetupChannel, SendMessage, SendRejected,
      DataStep, ReplyFails

(* A count goes into a list together with the messages it counts, and they *)
(* stay.                                                                   *)
LEMMA PullableNext == IInv /\ DenseInv /\ PullableInv /\ [Next]_vars => PullableInv'
<1> SUFFICES ASSUME IInv, DenseInv, PullableInv, [Next]_vars PROVE PullableInv'
  OBVIOUS
<1>1. ASSUME NEW u, NEW s, Pullable(u, s) PROVE Pullable(u, s)'
  BY <1>1, DenseNext DEF Pullable
<1>2. ASSUME NEW l \in ContactLists, Packed(l)' PROVE Pullable(l.uid, l.internalids)'
  <2>1. CASE Packed(l)
    BY <1>1, <2>1 DEF PullableInv
  <2>2. CASE ~Packed(l)
    <3>1. l \notin ChatMsgs
      BY DEF ContactLists, ChatMsgs
    <3>2. PICK w \in Workers :
            /\ PackContactList(w)
            /\ l = [uid |-> arg[w].user, internalids |-> list[w].internalids]
      BY <1>2, <2>2, <3>1, PacketsMade
    <3>3. Pullable(l.uid, l.internalids)
      BY <3>2 DEF PackContactList, PullableInv
    <3> QED
      BY <1>1, <3>3
  <2> QED
    BY <2>1, <2>2
<1>3. ASSUME NEW w \in Workers, list'[w] # NoList,
             NEW u, NEW s, u = arg'[w].user, s = list'[w].internalids
      PROVE  Pullable(u, s)'
  <2>0. list \in [Workers -> OpenLists \cup {NoList}]
    BY DEF IInv, Types
  <2>1. CASE GetAllUsers(w)
    <3>1. s = <<>>
      BY <1>3, <2>0, <2>1 DEF GetAllUsers
    <3> QED
      BY <3>1 DEF Pullable
  <2>2. CASE AddInternalId(w)
    <3> DEFINE old == list[w].internalids
    <3>1. /\ list[w] \in OpenLists /\ old \in Seq(0..MaxMsgs) /\ Len(old) \in Nat
          /\ Pullable(u, old)
      BY <1>3, <2>0, <2>2, LenProperties DEF AddInternalId, kaVars, OpenLists, PullableInv
    <3>2. PICK n \in 0..MaxMsgs :
            /\ n = Cardinality(DA!getAllMessages(u, Len(old) + 1))
            /\ s = Append(old, n)
      <4>1. Cardinality(DA!getAllMessages(u, Len(old) + 1)) \in 0..MaxMsgs
        BY CountBounded
      <4> QED
        BY <1>3, <2>0, <2>2, <3>1, <4>1, SameCardinality DEF AddInternalId, kaVars, OpenLists
    <3>3. /\ DOMAIN s = 1..(Len(old) + 1) /\ s[Len(old) + 1] = n
          /\ DOMAIN old = 1..Len(old) /\ \A t \in 1..Len(old) : s[t] = old[t]
      BY <3>1, <3>2, AppendProperties, LenProperties
    <3>4. Pullable(u, s)
      <4>1. u \in Nat
        BY <1>3, <2>2 DEF AddInternalId, kaVars, IInv, KAP!IInv, KAP!TypeOK, KAP!Args,
                          KAP!Uids, UserIds
      <4> QED
        BY <3>1, <3>2, <3>3, <4>1 DEF Pullable, DenseInv
    <3> QED
      BY <1>1, <3>4
  <2>3. CASE ~GetAllUsers(w) /\ ~AddInternalId(w)
    BY <1>1, <1>3, <2>3, ListStays DEF PullableInv
  <2> QED
    BY <2>1, <2>2, <2>3
<1>4. \A w \in Workers :
        list'[w] # NoList => Pullable(arg[w].user, list[w].internalids)'
  BY <1>3 DEF Pullable
<1> QED
  BY <1>2, <1>4 DEF PullableInv

(* A contact with internal id n in a contact list has n messages for the   *)
(* user that getMessage finds (Server.cpp, the ContactMessageRequest       *)
(* handler), though other workers store messages between the queries that  *)
(* count, and however long the list is under way.                          *)
THEOREM CountedArePullable == Spec => []CountedIsPullable
<1>1. Init => DenseInv /\ PullableInv
  <2> SUFFICES ASSUME Init PROVE DenseInv /\ PullableInv
    OBVIOUS
  <2>1. NoPkt \notin ContactLists
    BY ChatAssumption
  <2>2. PullableInv
    BY <2>1, EmptySeq DEF Init, KA!Init, KA!Uids, KA!NoArg, PullableInv, Packed, Queued
  <2>3. \A f, t : DA!getAllMessages(f, t) = {}
    BY DEF Init, DA!Init, DA!getAllMessages
  <2>4. DenseInv
    BY <2>3, FS_EmptySet DEF DenseInv
  <2> QED
    BY <2>2, <2>4
<1>2. PullableInv => CountedIsPullable
  BY DEF PullableInv, CountedIsPullable, Packed, Pullable
<1>3. IInv /\ DenseInv /\ [Next]_vars => DenseInv'
  BY DenseNext
<1> QED
  BY <1>1, <1>2, <1>3, IInvAlways, PullableNext, PTL DEF Spec
=============================================================================
