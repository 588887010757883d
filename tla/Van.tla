-------------------------------- MODULE Van --------------------------------
(***************************************************************************)
(* ServerVan (src/Server/server_van.h) and who calls it: the accepting     *)
(* thread, the workers of RevcSocketThreadFunc_ inside processRecvSocket,  *)
(* and the sender threads, all of which know a connection only by its      *)
(* descriptor number.  What a handler does with a request, and the steps   *)
(* of a channel's sender, are in ChatServer and KeepAlive; here they are   *)
(* as coarse as the numbers allow.                                         *)
(*                                                                         *)
(* step[w], where worker w is:                                             *)
(*   pop -> recv -> [send -> [channel | notify | epollDel -> close]]       *)
(*                                                                         *)
(* The sockets, epoll and the kernel's choice of numbers are external; of  *)
(* epoll, what its manual says of EPOLLET.  For a TCP socket EPOLLHUP and  *)
(* EPOLLERR come with EPOLLIN, so that every event is queued.              *)
(***************************************************************************)
EXTENDS Naturals, Sequences, SequencesExt

CONSTANTS Workers,
          Conns,      \* connections clients make, each once
          Breakable,  \* those whose client may go away
          Split,      \* those on which a packet arrives in two pieces
          Channels,   \* those that ask to be a channel
          Users,
          Owner,      \* Owner[c]: the user of channel c
          Bound,      \* Bound[c]: bound on the requests of c
          MaxPackets, \* bound on the packets queued at a sender
          NoConn

ASSUME VanAssumption == /\ NoConn \notin Conns
                        /\ IsFiniteSet(Conns) /\ Channels \subseteq Conns
                        /\ Owner \in [Channels -> Users]
                        /\ Bound \in [Conns -> Nat] /\ MaxPackets \in Nat \ {0}
                        /\ \A c \in Channels : Bound[c] = 1

Fds == 1..Cardinality(Conns)  \* 0: no descriptor

VARIABLES bound,    \* UM::BindServer was called
          crashed,  \* a FATAL log or a null pointer ended the process
          stage,    \* stage[c]: "none", "backlog", "accepted" or "closed"
          gone,     \* the connections whose client went away
          asked,    \* asked[c]: how many requests were sent on c
          owed,     \* the connections whose request is not answered
          half,     \* those on which half of a request was sent
          inbox,    \* inbox[c]: the pieces that arrived and were not read
          table,    \* table[f]: the connection behind descriptor f
          watched,  \* the descriptors epoll watches
          ready,    \* those with an event that epoll_wait has not returned
          given,    \* the descriptors given out so far (history)
          adding,   \* the descriptor accepted and not yet added to epoll
          recvQueue,  \* RecvSocketQueue_
          step, num, buf,  \* step[w], its client_fd, and what it received
          senderFd, \* senderFd[u]: fd_ of the sender of u, 0: no sender
          packets,  \* packets[u]: the length of its msg_queue_
          acking,   \* the users whose thread is between Send and Recv
          sentOn    \* sentOn[u]: the connections u's thread sent on (history)

network == <<stage, gone, asked, owed, half, inbox>>
epoll == <<table, watched, ready, given>>
worker == <<step, num, buf>>
sender == <<senderFd, packets, acking, sentOn>>
vars == <<bound, crashed, network, epoll, adding, recvQueue, worker, sender>>

Init == /\ bound = FALSE /\ crashed = FALSE
        /\ stage = [c \in Conns |-> "none"]
        /\ gone = {}
        /\ asked = [c \in Conns |-> 0]
        /\ owed = {} /\ half = {}
        /\ inbox = [c \in Conns |-> <<>>]
        /\ table = [f \in Fds |-> NoConn]
        /\ watched = {} /\ ready = {} /\ given = {}
        /\ adding = 0
        /\ recvQueue = <<>>
        /\ step = [w \in Workers |-> "pop"]
        /\ num = [w \in Workers |-> 0]
        /\ buf = [w \in Workers |-> <<>>]
        /\ senderFd = [u \in Users |-> 0]
        /\ packets = [u \in Users |-> 0]
        /\ acking = {}
        /\ sentOn = [u \in Users |-> {}]

Goto(w, l) == step' = [step EXCEPT ![w] = l] /\ UNCHANGED <<num, buf>>
Return(w) == /\ step' = [step EXCEPT ![w] = "pop"]
             /\ num' = [num EXCEPT ![w] = 0]
             /\ buf' = [buf EXCEPT ![w] = <<>>]

(* There is data, or the end of the stream, behind descriptor f.           *)
Readable(f) == table[f] # NoConn /\ (inbox[table[f]] # <<>> \/ table[f] \in gone)
(* The descriptors an event on connection c makes ready.                   *)
Watching(c) == {f \in watched : table[f] = c}

(* close(f): nothing happens for a number that is not open; one that is    *)
(* leaves epoll too, and may be given to the next connection.              *)
Close(f) == /\ UNCHANGED given
            /\ table' = [table EXCEPT ![f] = NoConn]
            /\ watched' = watched \ {f}
            /\ ready' = ready \ {f}
            /\ stage' = [c \in Conns |-> IF table[f] = c THEN "closed" ELSE stage[c]]

(* send and recv may fail on a closed number or when the peer is gone.     *)
MayWork(f) == table[f] # NoConn
MayFail(f) == table[f] = NoConn \/ table[f] \in gone

(* ParseFromArray: pieces that are not whole packets fail, and of several  *)
(* packets the last one wins, because fields are merged.                   *)
Parses(b) == \A i \in DOMAIN b :
               /\ b[i].part = "first" => i < Len(b) /\ b[i + 1] = [b[i] EXCEPT !.part = "rest"]
               /\ b[i].part = "rest" => i > 1 /\ b[i - 1].part = "first"
(* EPOLL_CTL_DEL of a descriptor that is not watched is FATAL.             *)
ControlEpollDel(f) ==
  IF f \in watched
    THEN watched' = watched \ {f} /\ ready' = ready \ {f} /\ UNCHANGED <<crashed, table, given>>
    ELSE crashed' = TRUE /\ UNCHANGED epoll
-----------------------------------------------------------------------------
(* Wrong variants of the steps, for the property in the comment.           *)

(* RequestIsAnswered: a descriptor that a worker still holds is not queued.*)
EventIfUnheld(f) ==
  /\ adding = 0
  /\ f \in ready
  /\ ready' = ready \ {f}
  /\ recvQueue' = IF Readable(f) /\ \A w \in Workers : num[w] # f
                    THEN Append(recvQueue, f) ELSE recvQueue
  /\ UNCHANGED <<bound, crashed, network, table, watched, given, adding, worker, sender>>

(* ReplyToAsker: the worker that finds the end of the stream closes it.    *)
RecvNothingAndClose(w) ==
  /\ step[w] = "recv"
  /\ ~MayFail(num[w]) => buf[w] = <<>> /\ inbox[table[num[w]]] = <<>>
  /\ IF MayFail(num[w]) THEN Close(num[w]) ELSE UNCHANGED <<stage, epoll>>
  /\ Return(w)
  /\ UNCHANGED <<bound, crashed, gone, asked, owed, half, inbox, adding, recvQueue, sender>>

(* FatalNeedsReuse: after a failed reply, close comes before EPOLL_DEL.    *)
SendFailsClosesFirst(w) ==
  /\ step[w] = "send"
  /\ MayFail(num[w])
  /\ Close(num[w])
  /\ Goto(w, "epollDel")
  /\ UNCHANGED <<bound, crashed, gone, asked, owed, half, inbox, adding, recvQueue, sender>>

(* OpenIsWatched: ... or does not come at all.                             *)
EpollDelOnly(w) ==
  /\ step[w] = "epollDel"
  /\ ControlEpollDel(num[w])
  /\ Return(w)
  /\ UNCHANGED <<bound, network, adding, recvQueue, sender>>

(* TypeOK: the sender thread does not wait for a packet.                   *)
RunSendAnyway(u) ==
  /\ u \notin acking /\ senderFd[u] # 0
  /\ packets' = [packets EXCEPT ![u] = @ - 1]
  /\ acking' = acking \cup {u}
  /\ UNCHANGED <<bound, crashed, network, epoll, adding, recvQueue, worker, senderFd, sentOn>>
-----------------------------------------------------------------------------
(* The clients and the network.                                            *)
Connect(c) ==
  /\ stage[c] = "none"
  /\ stage' = [stage EXCEPT ![c] = "backlog"]
  /\ UNCHANGED <<bound, crashed, gone, asked, owed, half, inbox, epoll, adding, recvQueue,
                 worker, sender>>

Arrives(c, part) == /\ inbox' = [inbox EXCEPT ![c] = Append(@, [conn |-> c, part |-> part])]
                    /\ ready' = ready \cup Watching(c)

CanSend(c) == stage[c] \in {"backlog", "accepted"} /\ c \notin gone

(* A request, or its first half; a client waits for its reply before it    *)
(* sends another one.                                                      *)
Request(c) ==
  /\ CanSend(c) /\ c \notin owed
  /\ asked[c] < Bound[c]
  /\ asked' = [asked EXCEPT ![c] = @ + 1]
  /\ owed' = owed \cup {c}
  /\ half' = IF c \in Split THEN half \cup {c} ELSE half
  /\ Arrives(c, IF c \in Split THEN "first" ELSE "whole")
  /\ UNCHANGED <<bound, crashed, stage, gone, table, watched, given, adding, recvQueue,
                 worker, sender>>

SecondHalf(c) ==
  /\ CanSend(c) /\ c \in half
  /\ half' = half \ {c}
  /\ Arrives(c, "rest")
  /\ UNCHANGED <<bound, crashed, stage, gone, asked, owed, table, watched, given, adding,
                 recvQueue, worker, sender>>

GoAway(c) ==
  /\ c \in Breakable \ gone /\ stage[c] \in {"backlog", "accepted"}
  /\ gone' = gone \cup {c}
  /\ ready' = ready \cup Watching(c)
  /\ UNCHANGED <<bound, crashed, stage, asked, owed, half, inbox, table, watched, given, adding,
                 recvQueue, worker, sender>>
-----------------------------------------------------------------------------
(* Server::Init binds the user manager after ServerVan has started the     *)
(* accepting thread.                                                       *)
BindServer ==
  /\ ~bound
  /\ bound' = TRUE
  /\ UNCHANGED <<crashed, network, epoll, adding, recvQueue, worker, sender>>

(* accept gives the lowest number that is free; setRevcSocketMp follows.   *)
Accept(c) ==
  /\ bound /\ adding = 0
  /\ stage[c] = "backlog"
  /\ stage' = [stage EXCEPT ![c] = "accepted"]
  /\ \E f \in Fds :
       /\ table[f] = NoConn
       /\ \A g \in Fds : g < f => table[g] # NoConn
       /\ table' = [table EXCEPT ![f] = c]
       /\ given' = given \cup {f}
       /\ adding' = f
  /\ UNCHANGED <<bound, crashed, gone, asked, owed, half, inbox, watched, ready, recvQueue,
                 worker, sender>>

(* Before BindServer, setRevcSocketMp goes through a null server_ptr_.     *)
AcceptUnbound(c) ==
  /\ ~bound
  /\ stage[c] = "backlog"
  /\ crashed' = TRUE
  /\ UNCHANGED <<bound, network, epoll, adding, recvQueue, worker, sender>>

(* The socket is made non-blocking and watched; what arrived before counts *)
(* as an event.                                                            *)
EpollAdd ==
  /\ adding # 0
  /\ IF table[adding] = NoConn
       THEN crashed' = TRUE /\ UNCHANGED <<watched, ready>>
       ELSE /\ watched' = watched \cup {adding}
            /\ ready' = IF Readable(adding) THEN ready \cup {adding} ELSE ready
            /\ UNCHANGED crashed
  /\ adding' = 0
  /\ UNCHANGED <<bound, network, table, given, recvQueue, worker, sender>>

(* epoll_wait returns an event once, and only if there still is something  *)
(* to read; a worker that holds the descriptor already does not matter.    *)
Event(f) ==
  /\ adding = 0
  /\ f \in ready
  /\ ready' = ready \ {f}
  /\ recvQueue' = IF Readable(f) THEN Append(recvQueue, f) ELSE recvQueue
  /\ UNCHANGED <<bound, crashed, network, table, watched, given, adding, worker, sender>>
-----------------------------------------------------------------------------
(* A worker.  RecvMesg calls recv until it gives EAGAIN or the end.        *)
Pop(w) ==
  /\ step[w] = "pop"
  /\ recvQueue # <<>>
  /\ recvQueue' = Tail(recvQueue)
  /\ num' = [num EXCEPT ![w] = Head(recvQueue)]
  /\ step' = [step EXCEPT ![w] = "recv"]
  /\ UNCHANGED <<bound, crashed, network, epoll, adding, buf, sender>>

Recv(w) ==
  LET c == table[num[w]] IN
  /\ step[w] = "recv"
  /\ c # NoConn /\ inbox[c] # <<>>
  /\ buf' = [buf EXCEPT ![w] = Append(@, Head(inbox[c]))]
  /\ inbox' = [inbox EXCEPT ![c] = Tail(@)]
  /\ UNCHANGED <<bound, crashed, stage, gone, asked, owed, half, epoll, adding, recvQueue,
                 step, num, sender>>

(* Nothing received, an end of stream, half a packet, a failed recv: the   *)
(* worker returns and the connection stays as it is.                       *)
RecvNothing(w) ==
  /\ step[w] = "recv"
  /\ \/ table[num[w]] # NoConn /\ inbox[table[num[w]]] = <<>>
        /\ (buf[w] = <<>> \/ ~Parses(buf[w]))
     \/ MayFail(num[w])
  /\ Return(w)
  /\ UNCHANGED <<bound, crashed, network, epoll, adding, recvQueue, sender>>

RecvRequest(w) ==
  /\ step[w] = "recv"
  /\ table[num[w]] # NoConn /\ inbox[table[num[w]]] = <<>>
  /\ buf[w] # <<>> /\ Parses(buf[w])
  /\ Goto(w, "send")
  /\ UNCHANGED <<bound, crashed, network, epoll, adding, recvQueue, sender>>

Asker(w) == Last(buf[w]).conn

(* The reply goes to whatever is behind the number.                        *)
Send(w) ==
  /\ step[w] = "send"
  /\ MayWork(num[w])
  /\ owed' = owed \ {table[num[w]]}
  /\ Goto(w, IF Asker(w) \in Channels THEN "channel" ELSE "notify")
  /\ UNCHANGED <<bound, crashed, stage, gone, asked, half, inbox, epoll, adding, recvQueue,
                 sender>>

SendFails(w) ==
  /\ step[w] = "send"
  /\ MayFail(num[w])
  /\ Goto(w, "epollDel")
  /\ UNCHANGED <<bound, crashed, network, epoll, adding, recvQueue, sender>>

EpollDel(w) ==
  /\ step[w] = "epollDel"
  /\ ControlEpollDel(num[w])
  /\ Goto(w, "close")
  /\ UNCHANGED <<bound, network, adding, recvQueue, sender>>

CloseFd(w) ==
  /\ step[w] = "close"
  /\ Close(num[w])
  /\ Return(w)
  /\ UNCHANGED <<bound, crashed, gone, asked, owed, half, inbox, adding, recvQueue, sender>>

(* The callback of a SetupChannelRequest: setKpAliveSender waits for a     *)
(* thread that is between Send and Recv, clears the queue, and the contact *)
(* list is queued; only then is the number taken out of epoll.             *)
SetChannel(w) ==
  LET u == Owner[Asker(w)] IN
  /\ step[w] = "channel"
  /\ u \notin acking
  /\ senderFd' = [senderFd EXCEPT ![u] = num[w]]
  /\ packets' = [packets EXCEPT ![u] = 1]
  /\ Goto(w, "unwatch")
  /\ UNCHANGED <<bound, crashed, network, epoll, adding, recvQueue, acking, sentOn>>

Unwatch(w) ==
  /\ step[w] = "unwatch"
  /\ ControlEpollDel(num[w])
  /\ Return(w)
  /\ UNCHANGED <<bound, network, adding, recvQueue, sender>>

(* The callback of any other request: a packet for some user, or none.     *)
Notify(w) ==
  /\ step[w] = "notify"
  /\ \/ \E u \in Users : /\ senderFd[u] # 0 /\ packets[u] < MaxPackets
                         /\ packets' = [packets EXCEPT ![u] = @ + 1]
     \/ UNCHANGED packets
  /\ Return(w)
  /\ UNCHANGED <<bound, crashed, network, epoll, adding, recvQueue, senderFd, acking, sentOn>>
-----------------------------------------------------------------------------
(* A sender thread.  It closes the number when Send fails and keeps it.    *)
RunSend(u) ==
  LET c == table[senderFd[u]] IN
  /\ u \notin acking /\ senderFd[u] # 0 /\ packets[u] > 0
  /\ packets' = [packets EXCEPT ![u] = @ - 1]
  /\ acking' = acking \cup {u}
  /\ \/ /\ MayWork(senderFd[u])
        /\ sentOn' = [sentOn EXCEPT ![u] = @ \cup {c}]
        /\ UNCHANGED <<stage, epoll>>
     \/ /\ MayFail(senderFd[u])
        /\ Close(senderFd[u])
        /\ UNCHANGED sentOn
  /\ UNCHANGED <<bound, crashed, gone, asked, owed, half, inbox, adding, recvQueue, worker, senderFd>>

(* The ack: what there is to read is read, and thrown away.                *)
RunAck(u) ==
  LET c == table[senderFd[u]] IN
  /\ u \in acking
  /\ acking' = acking \ {u}
  /\ inbox' = IF c = NoConn THEN inbox ELSE [inbox EXCEPT ![c] = <<>>]
  /\ \/ c # NoConn /\ Parses(inbox[c]) /\ UNCHANGED <<stage, epoll>>
     \/ (IF c = NoConn THEN TRUE ELSE c \in gone \/ ~Parses(inbox[c])) /\ Close(senderFd[u])
  /\ UNCHANGED <<bound, crashed, gone, asked, owed, half, adding, recvQueue, worker,
                 senderFd, packets, sentOn>>
-----------------------------------------------------------------------------
AcceptingStep == \/ \E c \in Conns : Accept(c) \/ AcceptUnbound(c)
                 \/ EpollAdd
                 \/ \E f \in Fds : Event(f)
WorkerStep(w) == \/ Pop(w) \/ Recv(w) \/ RecvNothing(w) \/ RecvRequest(w)
                 \/ Send(w) \/ SendFails(w) \/ EpollDel(w) \/ CloseFd(w)
                 \/ SetChannel(w) \/ Unwatch(w) \/ Notify(w)
ThreadStep(u) == RunSend(u) \/ RunAck(u)

Next == /\ ~crashed
        /\ \/ \E c \in Conns : Connect(c) \/ Request(c) \/ SecondHalf(c) \/ GoAway(c)
           \/ BindServer
           \/ AcceptingStep
           \/ \E w \in Workers : WorkerStep(w)
           \/ \E u \in Users : ThreadStep(u)

Spec == Init /\ [][Next]_vars

(* The threads go on.  epoll hands out ready descriptors in their order,   *)
(* the backlog is a queue, so none of them is passed over for ever.        *)
Fairness == /\ WF_vars(~crashed /\ BindServer)
            /\ \A c \in Conns : WF_vars(~crashed /\ Accept(c))
            /\ WF_vars(~crashed /\ EpollAdd)
            /\ \A f \in Fds : WF_vars(~crashed /\ Event(f))
            /\ \A w \in Workers : WF_vars(~crashed /\ WorkerStep(w))
            /\ \A u \in Users : WF_vars(~crashed /\ ThreadStep(u))

FairSpec == Spec /\ Fairness
-----------------------------------------------------------------------------
Pieces == [conn : Conns, part : {"whole", "first", "rest"}]

NetworkTypes == /\ stage \in [Conns -> {"none", "backlog", "accepted", "closed"}]
                /\ gone \subseteq Breakable
                /\ asked \in [Conns -> Nat]
                /\ \A c \in Conns : asked[c] <= Bound[c]
                /\ half \subseteq Conns \cap Split /\ owed \subseteq Conns
                /\ inbox \in [Conns -> Seq(Pieces)]
EpollTypes == /\ table \in [Fds -> Conns \cup {NoConn}]
              /\ \A f \in watched : table[f] # NoConn
              /\ ready \subseteq watched /\ watched \subseteq given /\ given \subseteq Fds
              /\ adding \in Fds \cup {0}
              /\ recvQueue \in Seq(Fds)
WorkerTypes == /\ step \in [Workers -> {"pop", "recv", "send", "epollDel", "close",
                                       "channel", "unwatch", "notify"}]
               /\ num \in [Workers -> Fds \cup {0}]
               /\ buf \in [Workers -> Seq(Pieces)]
SenderTypes == /\ senderFd \in [Users -> Fds \cup {0}]
               /\ packets \in [Users -> 0..MaxPackets]
               /\ acking \subseteq Users
               /\ sentOn \in [Users -> SUBSET Conns]

TypeOK == /\ bound \in BOOLEAN /\ crashed \in BOOLEAN
          /\ NetworkTypes /\ EpollTypes /\ WorkerTypes /\ SenderTypes

(* A reply goes to who asked: while a worker has a request, its number has *)
(* not been closed and given to another connection, whoever goes away.     *)
ReplyToAsker ==
  \A w \in Workers : step[w] = "send" => table[num[w]] = Asker(w)

(* Only a connection before BindServer or a number that the kernel gave    *)
(* out a second time can end the process: otherwise no descriptor is taken *)
(* out of epoll twice, after it was closed or before it was added.         *)
Reused == Cardinality({c \in Conns : stage[c] \in {"accepted", "closed"}})
            > Cardinality(given)
FatalNeedsReuse == crashed => ~bound \/ Reused

(* No number stays open behind epoll's back, except a channel's.           *)
OpenIsWatched ==
  \A f \in Fds : table[f] # NoConn =>
    \/ f \in watched \cup {adding}
    \/ table[f] \in Channels
    \/ \E w \in Workers : step[w] = "close" /\ num[w] = f

(* A patient client whose requests come in one piece is answered, although *)
(* an event comes only once and may go to a worker while another still has *)
(* the same descriptor.                                                    *)
RequestIsAnswered ==
  \A c \in Conns \ (Breakable \cup Split) : c \in owed ~> c \notin owed \/ crashed

(* user_manager.h:4: the user manager maps users to their sockets.  What   *)
(* is sent to a user goes out on a connection of his.                      *)
PacketGoesToOwner ==
  \A u \in Users : \A c \in sentOn[u] : c \in Channels /\ Owner[c] = u
=============================================================================
