----------------------------- MODULE KeepAlive -----------------------------
(***************************************************************************)
(* The keep-alive channels: the map _keepalive_sender_mp of the user       *)
(* manager, one KeepAliveMsgSender per user id with its thread, and the    *)
(* callbacks of processRecvSocket that use them.  When a worker has        *)
(* acknowledged a SetupChannelRequest it makes the connection the user's   *)
(* channel and queues a contact list; when it has answered a text message  *)
(* it queues a notification for the receiver.  The threads send what is    *)
(* queued.                                                                 *)
(*                                                                         *)
(* op[w], the next step of worker w:                                       *)
(*   setKpAliveSender -> [setFd -> clear ->] list -> getSender -> push     *)
(*   isOnline -> getSender -> push                                         *)
(* run[u], the next step of the thread of u:                               *)
(*   pop -> lock -> send -> ack -> pop                                     *)
(*                                                                         *)
(* msg_queue_ is the one-step queue that ThreadsafeQueue implements.  A    *)
(* connection is known by its identity: that the kernel gives the number   *)
(* of a closed connection to a new one is not in this module.              *)
(***************************************************************************)
EXTENDS Naturals, Sequences, FiniteSets, Functions

CONSTANTS Workers,    \* the threads of RecvSocketThreads_
          Users,      \* user ids
          NoUser,     \* user id 0, what a token that is not in the pool maps to
          Conns,      \* connections a client may turn into a channel
          Breakable,  \* those on which a call of send or recv may fail
          Lists,      \* contents of a ContactListRequest
          Notes,      \* contents of a ContactMessageListRequest
          MaxQueue,   \* bound on the packets queued or about to be, per user
          NoConn, NoPkt, NoWorker

Uids == Users \cup {NoUser}
Packets == Lists \cup Notes

ASSUME KeepAliveAssumption == /\ NoUser \notin Users
                              /\ Lists \cap Notes = {}
                              /\ NoConn \notin Conns
                              /\ NoPkt \notin Packets
                              /\ NoWorker \notin Workers

VARIABLES mapMu,     \* the worker that holds _keepalive_sender_mp_mu
          fd,        \* fd[u]: fd_ of the sender of u, NoConn: u has no sender
          mu,        \* mu[u]: the thread of u holds mu_
          queue,     \* queue[u]: msg_queue_
          run,       \* run[u]: where the thread of u is
          hand,      \* hand[u]: the packet it popped
          on,        \* on[u]: the connection it called Send on
          op, arg,   \* op[w], arg[w]: where worker w is, and with what
          channels,  \* the connections that asked to be channels so far
          sent,      \* sent[c]: the packets that were sent on c
          closed     \* the connections the server closed

kaVars == <<mapMu, fd, mu, queue, run, hand, on, op, arg, channels, sent, closed>>

NoArg == [user |-> NoUser, conn |-> NoConn, pkt |-> NoPkt]

Init == /\ mapMu = NoWorker
        /\ fd = [u \in Uids |-> NoConn]
        /\ mu = [u \in Uids |-> FALSE]
        /\ queue = [u \in Uids |-> <<>>]
        /\ run = [u \in Uids |-> "none"]
        /\ hand = [u \in Uids |-> NoPkt]
        /\ on = [u \in Uids |-> NoConn]
        /\ op = [w \in Workers |-> "idle"]
        /\ arg = [w \in Workers |-> NoArg]
        /\ channels = {}
        /\ sent = [c \in Conns |-> {}]
        /\ closed = {}

HasSender(u) == fd[u] # NoConn
Goto(w, l) == op' = [op EXCEPT ![w] = l]
Return(w) == Goto(w, "idle") /\ arg' = [arg EXCEPT ![w] = NoArg]
-----------------------------------------------------------------------------
(* Wrong variants of the steps, for the property in the comment.           *)

(* TypeOK: the list is never put into the packet.                          *)
MakeEmptyPacket(w, l) ==
  /\ op[w] = "list"
  /\ Goto(w, "getSender")
  /\ UNCHANGED <<mapMu, fd, mu, queue, run, hand, on, arg, channels, sent, closed>>

(* AckFromSameChannel: setFd does not take mu_.                            *)
SetFdUnlocked(w) ==
  /\ op[w] = "setFd"
  /\ fd' = [fd EXCEPT ![arg[w].user] = arg[w].conn]
  /\ Goto(w, "clear")
  /\ UNCHANGED <<mapMu, mu, queue, run, hand, on, arg, channels, sent, closed>>

(* ContactListOwed: a packet that could not be sent is forgotten.          *)
SendIgnoringFailure(u) ==
  /\ run[u] = "send"
  /\ \/ fd[u] \notin closed /\ sent' = [sent EXCEPT ![fd[u]] = @ \cup {hand[u]}]
     \/ fd[u] \in Breakable \cup closed /\ UNCHANGED sent
  /\ on' = [on EXCEPT ![u] = fd[u]]
  /\ run' = [run EXCEPT ![u] = "ack"]
  /\ UNCHANGED <<mapMu, fd, mu, queue, hand, op, arg, channels, closed>>

(* ChannelGetsList, OnlineIsNotified: a task is dropped while the thread   *)
(* is busy.                                                                *)
AddSendTaskIfWaiting(w) ==
  /\ op[w] = "push"
  /\ queue' = [queue EXCEPT ![arg[w].user] =
                 IF run[arg[w].user] = "pop" THEN Append(@, arg[w].pkt) ELSE @]
  /\ Return(w)
  /\ UNCHANGED <<mapMu, fd, mu, run, hand, on, channels, sent, closed>>

(* WorkerReturns: the path of a failed recv leaves mu_ locked.             *)
AckFailureKeepsLock(u) ==
  /\ run[u] = "ack"
  /\ \/ fd[u] \notin closed /\ mu' = [mu EXCEPT ![u] = FALSE] /\ UNCHANGED closed
     \/ fd[u] \in Breakable \cup closed /\ closed' = closed \cup {fd[u]} /\ UNCHANGED mu
  /\ hand' = [hand EXCEPT ![u] = NoPkt]
  /\ run' = [run EXCEPT ![u] = "pop"]
  /\ UNCHANGED <<mapMu, fd, queue, on, op, arg, channels, sent>>
-----------------------------------------------------------------------------
(* The callback of a SetupChannelRequest starts.                           *)
SetupChannel(w, u, c) ==
  /\ op[w] = "idle"
  /\ c \notin channels
  /\ channels' = channels \cup {c}
  /\ Goto(w, "setKpAliveSender")
  /\ arg' = [arg EXCEPT ![w] = [user |-> u, conn |-> c, pkt |-> NoPkt]]
  /\ UNCHANGED <<mapMu, fd, mu, queue, run, hand, on, sent, closed>>

(* setKpAliveSender for a user without a sender: the constructor starts    *)
(* the thread.                                                             *)
NewSender(w) ==
  LET u == arg[w].user IN
  /\ op[w] = "setKpAliveSender"
  /\ mapMu = NoWorker
  /\ ~HasSender(u)
  /\ fd' = [fd EXCEPT ![u] = arg[w].conn]
  /\ run' = [run EXCEPT ![u] = "pop"]
  /\ Goto(w, "list")
  /\ UNCHANGED <<mapMu, mu, queue, hand, on, arg, channels, sent, closed>>

(* For a user with one, the map stays locked for setFd and for Clear ...   *)
OldSender(w) ==
  /\ op[w] = "setKpAliveSender"
  /\ mapMu = NoWorker
  /\ HasSender(arg[w].user)
  /\ mapMu' = w
  /\ Goto(w, "setFd")
  /\ UNCHANGED <<fd, mu, queue, run, hand, on, arg, channels, sent, closed>>

(* ... and setFd waits while the thread is between Send and the ack.       *)
SetFd(w) ==
  LET u == arg[w].user IN
  /\ op[w] = "setFd"
  /\ ~mu[u]
  /\ fd' = [fd EXCEPT ![u] = arg[w].conn]
  /\ Goto(w, "clear")
  /\ UNCHANGED <<mapMu, mu, queue, run, hand, on, arg, channels, sent, closed>>

Clear(w) ==
  /\ op[w] = "clear"
  /\ queue' = [queue EXCEPT ![arg[w].user] = <<>>]
  /\ mapMu' = NoWorker
  /\ Goto(w, "list")
  /\ UNCHANGED <<fd, mu, run, hand, on, arg, channels, sent, closed>>

(* The contact list is read from the database and packed.                  *)
MakeContactList(w, l) ==
  /\ op[w] = "list"
  /\ arg' = [arg EXCEPT ![w].pkt = l]
  /\ Goto(w, "getSender")
  /\ UNCHANGED <<mapMu, fd, mu, queue, run, hand, on, channels, sent, closed>>

(* The callback of a text message to u starts.                             *)
Notify(w, u, n) ==
  /\ op[w] = "idle"
  /\ Len(queue[u]) + Cardinality({v \in Workers : arg[v].user = u}) < MaxQueue
  /\ Goto(w, "isOnline")
  /\ arg' = [arg EXCEPT ![w] = [user |-> u, conn |-> NoConn, pkt |-> n]]
  /\ UNCHANGED <<mapMu, fd, mu, queue, run, hand, on, channels, sent, closed>>

(* isOnline is getSender; who has no sender is offline.                    *)
IsOnline(w) ==
  /\ op[w] = "isOnline"
  /\ mapMu = NoWorker
  /\ IF HasSender(arg[w].user) THEN Goto(w, "getSender") /\ UNCHANGED arg
                               ELSE Return(w)
  /\ UNCHANGED <<mapMu, fd, mu, queue, run, hand, on, channels, sent, closed>>

(* getSender gives nullptr for user id 0, without locking.                 *)
GetSender(w) ==
  LET u == arg[w].user IN
  /\ op[w] = "getSender"
  /\ u = NoUser \/ mapMu = NoWorker
  /\ IF u # NoUser /\ HasSender(u) THEN Goto(w, "push") /\ UNCHANGED arg
                                   ELSE Return(w)
  /\ UNCHANGED <<mapMu, fd, mu, queue, run, hand, on, channels, sent, closed>>

AddSendTask(w) ==
  /\ op[w] = "push"
  /\ queue' = [queue EXCEPT ![arg[w].user] = Append(@, arg[w].pkt)]
  /\ Return(w)
  /\ UNCHANGED <<mapMu, fd, mu, run, hand, on, channels, sent, closed>>
-----------------------------------------------------------------------------
(* KeepAliveMsgSender::run.                                                *)
RunPop(u) ==
  /\ run[u] = "pop"
  /\ queue[u] # <<>>
  /\ hand' = [hand EXCEPT ![u] = Head(queue[u])]
  /\ queue' = [queue EXCEPT ![u] = Tail(@)]
  /\ run' = [run EXCEPT ![u] = "lock"]
  /\ UNCHANGED <<mapMu, fd, mu, on, op, arg, channels, sent, closed>>

RunLock(u) ==
  /\ run[u] = "lock"
  /\ ~mu[u]
  /\ mu' = [mu EXCEPT ![u] = TRUE]
  /\ run' = [run EXCEPT ![u] = "send"]
  /\ UNCHANGED <<mapMu, fd, queue, hand, on, op, arg, channels, sent, closed>>

RunSend(u) ==
  /\ run[u] = "send"
  /\ \/ /\ fd[u] \notin closed
        /\ sent' = [sent EXCEPT ![fd[u]] = @ \cup {hand[u]}]
        /\ UNCHANGED closed
     \/ /\ fd[u] \in Breakable \cup closed
        /\ closed' = closed \cup {fd[u]}
        /\ UNCHANGED sent
  /\ on' = [on EXCEPT ![u] = fd[u]]
  /\ run' = [run EXCEPT ![u] = "ack"]
  /\ UNCHANGED <<mapMu, fd, mu, queue, hand, op, arg, channels>>

(* No answer, the end of the stream and a wrong packet all go unnoticed; a *)
(* failed recv closes the connection.  Nothing tells the map.              *)
RunAck(u) ==
  /\ run[u] = "ack"
  /\ \/ fd[u] \notin closed /\ UNCHANGED closed
     \/ fd[u] \in Breakable \cup closed /\ closed' = closed \cup {fd[u]}
  /\ mu' = [mu EXCEPT ![u] = FALSE]
  /\ hand' = [hand EXCEPT ![u] = NoPkt]
  /\ run' = [run EXCEPT ![u] = "pop"]
  /\ UNCHANGED <<mapMu, fd, queue, on, op, arg, channels, sent>>
-----------------------------------------------------------------------------
WorkerStep(w) == \/ NewSender(w) \/ OldSender(w) \/ SetFd(w) \/ Clear(w)
                 \/ \E l \in Lists : MakeContactList(w, l)
                 \/ IsOnline(w) \/ GetSender(w) \/ AddSendTask(w)
ThreadStep(u) == RunPop(u) \/ RunLock(u) \/ RunSend(u) \/ RunAck(u)

Next == \/ \E w \in Workers :
             \/ \E u \in Uids, c \in Conns : SetupChannel(w, u, c)
             \/ \E u \in Users, n \in Notes : Notify(w, u, n)
             \/ WorkerStep(w)
        \/ \E u \in Uids : ThreadStep(u)

Spec == Init /\ [][Next]_kaVars

(* A worker inside a callback and a sender thread go on running; clients   *)
(* need not do anything.                                                   *)
Fairness == /\ \A w \in Workers : WF_kaVars(WorkerStep(w))
            /\ \A u \in Uids : WF_kaVars(ThreadStep(u))

FairSpec == Spec /\ Fairness
-----------------------------------------------------------------------------
Args == [user : Uids, conn : Conns \cup {NoConn}, pkt : Packets \cup {NoPkt}]

TypeOK == /\ mapMu \in Workers \cup {NoWorker}
          /\ fd \in [Uids -> Conns \cup {NoConn}]
          /\ mu \in [Uids -> BOOLEAN]
          /\ queue \in [Uids -> Seq(Packets)]
          /\ run \in [Uids -> {"none", "pop", "lock", "send", "ack"}]
          /\ hand \in [Uids -> Packets \cup {NoPkt}]
          /\ on \in [Uids -> Conns \cup {NoConn}]
          /\ op \in [Workers -> {"idle", "setKpAliveSender", "setFd", "clear", "list",
                                 "isOnline", "getSender", "push"}]
          /\ arg \in [Workers -> Args]
          /\ channels \in SUBSET Conns
          /\ sent \in [Conns -> SUBSET Packets]
          /\ closed \in SUBSET Conns

(* The ack is read from the connection that the packet was sent on, though *)
(* a reconnect may set another fd_ between the pop and the send or while   *)
(* the thread sleeps before it reads.                                      *)
AckFromSameChannel == \A u \in Uids : run[u] = "ack" => fd[u] = on[u]

(* A new channel's first contact list is not lost, though Clear may drop   *)
(* the list that another worker queued for an earlier channel of the same  *)
(* user: until the current channel has had a list, one is queued, in the   *)
(* hand of the thread, or still to be queued by a worker.                  *)
InHand(u) == run[u] \in {"lock", "send"} /\ hand[u] \in Lists
OwesList(w) == \/ op[w] \in {"clear", "list"}
               \/ op[w] \in {"getSender", "push"} /\ arg[w].pkt \in Lists
ContactListOwed ==
  \A u \in Users : HasSender(u) =>
    \/ fd[u] \in closed
    \/ sent[fd[u]] \cap Lists # {}
    \/ Range(queue[u]) \cap Lists # {}
    \/ InHand(u)
    \/ \E w \in Workers : arg[w].user = u /\ OwesList(w)

(* A channel that stays the user's and stays open gets its contact list.   *)
ChannelGetsList ==
  \A u \in Users, c \in Conns :
    fd[u] = c ~> fd[u] # c \/ c \in closed \/ sent[c] \cap Lists # {}

(* Who is online when a message for him was answered is sent it on his     *)
(* channel, if that stays his and stays open: the notification gets        *)
(* through isOnline, getSender and the queue, past the other packets.      *)
OnlineIsNotified ==
  \A u \in Users, c \in Conns, n \in Notes :
    (\E w \in Workers : op[w] = "isOnline" /\ arg[w].user = u /\ arg[w].pkt = n)
      /\ fd[u] = c ~> fd[u] # c \/ c \in closed \/ n \in sent[c]

(* No callback waits for ever, although one that waits for mu_ of a user   *)
(* in the middle of a send keeps all the others from the map.              *)
WorkerReturns == \A w \in Workers : op[w] # "idle" ~> op[w] = "idle"
=============================================================================
