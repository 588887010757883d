----------------------------- MODULE VanProofs -----------------------------
(***************************************************************************)
(* The theorems about Van: replies go to who asked, an open descriptor is  *)
(* watched, and the process does not end as long as no number is given out *)
(* twice, for any number of workers and connections.                       *)
(*                                                                         *)
(* These three are proved for channels whose clients do not go away.  Of   *)
(* others a sender keeps the number and closes what it finds there, which  *)
(* may be the connection of a client who is just being answered.           *)
(***************************************************************************)
EXTENDS Van, SequenceTheorems, FiniteSetTheorems, TLAPS

(* The clients that ask for a channel do not go away.                      *)
SoundChannels == Channels \cap Breakable = {}

(* A piece of a packet, as it arrives.                                     *)
Piece(c, part) == [conn |-> c, part |-> part]

(* The pieces of a request, in the order in which they were sent: what of  *)
(* it can be in one place.                                                 *)
Fragments(c) ==
  IF c \in Split
    THEN {<<Piece(c, "first")>>, <<Piece(c, "rest")>>,
          <<Piece(c, "first"), Piece(c, "rest")>>}
    ELSE {<<Piece(c, "whole")>>}

(* A worker that has pieces of a request that is not answered.             *)
Holds(w, c) == /\ step[w] \in {"recv", "send", "epollDel", "close"}
               /\ buf[w] \in Fragments(c)

(* The numbers that are in use somewhere were given out, and each open one *)
(* has a connection of its own, which was accepted.                        *)
NumInv ==
  /\ recvQueue \in Seq(given)
  /\ adding \in given \cup {0}
  /\ \A w \in Workers : IF step[w] = "pop" THEN num[w] = 0 /\ buf[w] = <<>>
                                           ELSE num[w] \in given
  /\ \A u \in acking : senderFd[u] # 0
  /\ \A f \in Fds : table[f] # NoConn =>
       /\ f \in given
       /\ stage[table[f]] = "accepted"
       /\ \A g \in Fds : table[g] = table[f] => g = f

(* Workers at work have what they need.                                    *)
BufInv ==
  /\ \A c \in Conns : inbox[c] \in Fragments(c) \cup {<<>>}
  /\ \A w \in Workers :
       /\ \/ step[w] \in {"pop", "recv"} /\ buf[w] = <<>>
          \/ \E c \in Conns : buf[w] \in Fragments(c)
       /\ step[w] \notin {"pop", "recv"} => Parses(buf[w])
       /\ step[w] \in {"channel", "unwatch"} => Asker(w) \in Channels
       /\ step[w] \in {"epollDel", "close"} => Asker(w) \in gone

(* A request is in one piece somewhere or in two pieces in one or two      *)
(* places, and only as long as it is not answered.                         *)
Once(c) ==
  /\ inbox[c] # <<>> => c \in owed
  /\ c \in half => c \in owed /\ Piece(c, "rest") \notin Range(inbox[c])
  /\ c \in owed => asked[c] # 0
  /\ \A w \in Workers : Holds(w, c) =>
       /\ c \in owed
       /\ table[num[w]] = c
       /\ Range(buf[w]) \cap Range(inbox[c]) = {}
       /\ Piece(c, "rest") \in Range(buf[w]) => Piece(c, "first") \notin Range(inbox[c])
       /\ c \in half => Piece(c, "rest") \notin Range(buf[w])
       /\ \A v \in Workers \ {w} : Holds(v, c) => Range(buf[w]) \cap Range(buf[v]) = {}

OnceInv == \A c \in Conns : Once(c)

(* A channel asked once and was answered.                                  *)
Served(c) == c \in Channels /\ c \notin owed /\ asked[c] = 1

ChannelInv ==
  /\ \A u \in Users : senderFd[u] # 0 => Served(table[senderFd[u]])
  /\ \A w \in Workers : step[w] \in {"channel", "unwatch"} =>
       /\ Served(Asker(w)) /\ table[num[w]] = Asker(w)
       /\ num[w] \in watched \cup {adding}
       /\ \A v \in Workers \ {w} : step[v] \in {"channel", "unwatch"} => Asker(v) # Asker(w)

(* What is open is watched, until its channel is served or it is closed.   *)
WatchInv ==
  \A f \in Fds : table[f] # NoConn =>
    \/ f \in watched \cup {adding}
    \/ Served(table[f])
    \/ \E w \in Workers : step[w] = "close" /\ num[w] = f

(* The connections that were accepted, those closed again included.        *)
Accepted == {c \in Conns : stage[c] \in {"accepted", "closed"}}

(* As long as each number was given out once, nobody knows the number that *)
(* the accepting thread has still to add to epoll.                         *)
FreshInv ==
  /\ Cardinality(given) <= Cardinality(Accepted)
  /\ adding # 0 => \/ Reused
                   \/ /\ table[adding] # NoConn
                      /\ adding \notin Range(recvQueue)
                      /\ \A w \in Workers : num[w] # adding
-----------------------------------------------------------------------------
(* What holds whoever goes away.                                           *)
TypeInv == TypeOK /\ NumInv

(* The types and numbers of the initial state.                             *)
LEMMA TypeInit == Init => TypeInv
<1> SUFFICES ASSUME Init PROVE TypeInv
  OBVIOUS
<1>1. NetworkTypes
  BY VanAssumption DEF Init, NetworkTypes
<1>2. EpollTypes
  BY DEF Init, EpollTypes
<1>3. WorkerTypes /\ SenderTypes
  BY VanAssumption DEF Init, WorkerTypes, SenderTypes
<1>4. NumInv
  BY VanAssumption DEF Init, NumInv, Fds
<1> QED
  BY <1>1, <1>2, <1>3, <1>4 DEF TypeInv, TypeOK, Init

(* Which steps change what is behind the descriptors, the workers, ...     *)
LEMMA NetworkSame ==
  ASSUME [Next]_vars
  PROVE  \/ UNCHANGED network
         \/ \E c \in Conns : Connect(c) \/ Request(c) \/ SecondHalf(c) \/ GoAway(c) \/ Accept(c)
         \/ \E w \in Workers : Recv(w) \/ Send(w) \/ CloseFd(w)
         \/ \E u \in Users : RunSend(u) \/ RunAck(u)
<1>1. CASE UNCHANGED vars
  BY <1>1 DEF vars
<1>2. CASE BindServer
  BY <1>2 DEF BindServer
<1>3. CASE AcceptingStep
  BY <1>3 DEF AcceptingStep, AcceptUnbound, EpollAdd, Event
<1>4. ASSUME NEW w \in Workers, WorkerStep(w)
      PROVE  UNCHANGED network \/ Recv(w) \/ Send(w) \/ CloseFd(w)
  BY <1>4 DEF WorkerStep, Pop, RecvNothing, RecvRequest, SendFails, EpollDel, SetChannel,
              Unwatch, Notify
<1> QED
  BY <1>1, <1>2, <1>3, <1>4 DEF Next, ThreadStep

(* ... what epoll watches and who is told of it, ...                       *)
LEMMA EpollSame ==
  ASSUME [Next]_vars
  PROVE  \/ UNCHANGED <<epoll, adding, recvQueue>>
         \/ \E c \in Conns : Request(c) \/ SecondHalf(c) \/ GoAway(c) \/ Accept(c)
         \/ EpollAdd \/ \E f \in Fds : Event(f)
         \/ \E w \in Workers : Pop(w) \/ EpollDel(w) \/ Unwatch(w) \/ CloseFd(w)
         \/ \E u \in Users : RunSend(u) \/ RunAck(u)
<1>1. CASE UNCHANGED vars
  BY <1>1 DEF vars
<1>2. CASE BindServer
  BY <1>2 DEF BindServer
<1>3. ASSUME NEW c \in Conns, Connect(c) \/ AcceptUnbound(c)
      PROVE  UNCHANGED <<epoll, adding, recvQueue>>
  BY <1>3 DEF Connect, AcceptUnbound
<1>4. ASSUME NEW w \in Workers, WorkerStep(w)
      PROVE  \/ UNCHANGED <<epoll, adding, recvQueue>>
             \/ Pop(w) \/ EpollDel(w) \/ Unwatch(w) \/ CloseFd(w)
  BY <1>4 DEF WorkerStep, Recv, RecvNothing, RecvRequest, Send, SendFails, SetChannel, Notify
<1> QED
  BY <1>1, <1>2, <1>3, <1>4 DEF Next, ThreadStep, AcceptingStep

(* ... the workers, ...                                                    *)
LEMMA WorkerSame ==
  ASSUME [Next]_vars
  PROVE  UNCHANGED worker \/ \E w \in Workers : WorkerStep(w)
<1>1. CASE UNCHANGED vars
  BY <1>1 DEF vars
<1>2. ASSUME NEW c \in Conns,
             Connect(c) \/ Request(c) \/ SecondHalf(c) \/ GoAway(c) \/ Accept(c) \/ AcceptUnbound(c)
      PROVE  UNCHANGED worker
  BY <1>2 DEF Connect, Request, SecondHalf, GoAway, Accept, AcceptUnbound
<1>3. ASSUME EpollAdd \/ BindServer \/ \E f \in Fds : Event(f)
      PROVE  UNCHANGED worker
  BY <1>3 DEF EpollAdd, BindServer, Event
<1>4. ASSUME NEW u \in Users, ThreadStep(u)
      PROVE  UNCHANGED worker
  BY <1>4 DEF ThreadStep, RunSend, RunAck
<1> QED
  BY <1>1, <1>2, <1>3, <1>4 DEF Next, AcceptingStep

(* ... and the senders.                                                    *)
LEMMA SenderSame ==
  ASSUME [Next]_vars
  PROVE  \/ UNCHANGED sender
         \/ \E w \in Workers : SetChannel(w) \/ Notify(w)
         \/ \E u \in Users : RunSend(u) \/ RunAck(u)
<1>1. CASE UNCHANGED vars
  BY <1>1 DEF vars
<1>2. ASSUME NEW c \in Conns,
             Connect(c) \/ Request(c) \/ SecondHalf(c) \/ GoAway(c) \/ Accept(c) \/ AcceptUnbound(c)
      PROVE  UNCHANGED sender
  BY <1>2 DEF Connect, Request, SecondHalf, GoAway, Accept, AcceptUnbound
<1>3. ASSUME EpollAdd \/ BindServer \/ \E f \in Fds : Event(f)
      PROVE  UNCHANGED sender
  BY <1>3 DEF EpollAdd, BindServer, Event
<1>4. ASSUME NEW w \in Workers, WorkerStep(w)
      PROVE  UNCHANGED sender \/ SetChannel(w) \/ Notify(w)
  BY <1>4 DEF WorkerStep, Pop, Recv, RecvNothing, RecvRequest, Send, SendFails, EpollDel,
              CloseFd, Unwatch
<1> QED
  BY <1>1, <1>2, <1>3, <1>4 DEF Next, AcceptingStep, ThreadStep

(* The process is up or has ended.                                         *)
LEMMA ProcessNext ==
  TypeInv /\ [Next]_vars => bound' \in BOOLEAN /\ crashed' \in BOOLEAN
<1> SUFFICES ASSUME TypeInv, [Next]_vars PROVE bound' \in BOOLEAN /\ crashed' \in BOOLEAN
  OBVIOUS
<1> DEFINE Up == bound' \in {bound, TRUE} /\ crashed' \in {crashed, TRUE}
<1>1. CASE UNCHANGED vars
  BY <1>1 DEF vars, TypeInv, TypeOK
<1>2. ASSUME NEW c \in Conns,
             Connect(c) \/ Request(c) \/ SecondHalf(c) \/ GoAway(c) \/ Accept(c) \/ AcceptUnbound(c)
      PROVE  Up
  BY <1>2 DEF Connect, Request, SecondHalf, GoAway, Accept, AcceptUnbound
<1>3. ASSUME EpollAdd \/ BindServer \/ \E f \in Fds : Event(f)
      PROVE  Up
  BY <1>3 DEF EpollAdd, BindServer, Event
<1>4. ASSUME NEW w \in Workers, WorkerStep(w)
      PROVE  Up
  BY <1>4 DEF WorkerStep, Pop, Recv, RecvNothing, RecvRequest, Send, SendFails, EpollDel,
              CloseFd, SetChannel, Unwatch, Notify, ControlEpollDel
<1>5. ASSUME NEW u \in Users, ThreadStep(u)
      PROVE  Up
  BY <1>5 DEF ThreadStep, RunSend, RunAck
<1> QED
  BY <1>1, <1>2, <1>3, <1>4, <1>5 DEF Next, AcceptingStep, TypeInv, TypeOK

(* The types, state tuple by state tuple: connections, ...                 *)
LEMMA NetworkTypesNext == TypeInv /\ [Next]_vars => NetworkTypes'
<1> SUFFICES ASSUME TypeInv, [Next]_vars PROVE NetworkTypes'
  OBVIOUS
<1>0. NetworkTypes
  BY DEF TypeInv, TypeOK
<1>1. CASE UNCHANGED network
  BY <1>0, <1>1 DEF NetworkTypes, network
<1>2. ASSUME NEW c \in Conns, NEW part \in {"whole", "first", "rest"}, Arrives(c, part)
      PROVE  inbox' \in [Conns -> Seq(Pieces)]
  BY <1>0, <1>2 DEF Arrives, NetworkTypes, Pieces
<1>3. ASSUME NEW c \in Conns, Connect(c) \/ GoAway(c) \/ Accept(c)
      PROVE  NetworkTypes'
  BY <1>0, <1>3 DEF Connect, GoAway, Accept, NetworkTypes
<1>4. ASSUME NEW c \in Conns, Request(c)
      PROVE  NetworkTypes'
  <2>1. asked' \in [Conns -> Nat] /\ \A d \in Conns : asked'[d] <= Bound[d]
    <3>1. asked[c] \in Nat /\ Bound[c] \in Nat /\ asked[c] < Bound[c]
      BY <1>0, <1>4, VanAssumption DEF Request, NetworkTypes
    <3> QED
      BY <1>0, <1>4, <3>1 DEF Request, NetworkTypes
  <2>2. half' \subseteq Conns \cap Split
    BY <1>0, <1>4 DEF Request, NetworkTypes
  <2> QED
    BY <1>0, <1>2, <1>4, <2>1, <2>2 DEF Request, NetworkTypes
<1>5. ASSUME NEW c \in Conns, SecondHalf(c)
      PROVE  NetworkTypes'
  BY <1>0, <1>2, <1>5 DEF SecondHalf, NetworkTypes
<1>6. ASSUME NEW w \in Workers, Recv(w)
      PROVE  NetworkTypes'
  <2>1. PICK c \in Conns : inbox[c] # <<>> /\ inbox' = [inbox EXCEPT ![c] = Tail(@)]
    <3>1. num[w] \in Fds
      BY <1>6 DEF Recv, TypeInv, TypeOK, NumInv, EpollTypes
    <3> QED
      BY <1>6, <3>1 DEF Recv, TypeInv, TypeOK, EpollTypes
  <2>2. Tail(inbox[c]) \in Seq(Pieces)
    BY <1>0, <2>1 DEF NetworkTypes
  <2>3. inbox' \in [Conns -> Seq(Pieces)]
    BY <1>0, <2>1, <2>2 DEF NetworkTypes
  <2> QED
    BY <1>0, <1>6, <2>3 DEF Recv, NetworkTypes
<1>7. ASSUME NEW w \in Workers, Send(w)
      PROVE  NetworkTypes'
  BY <1>0, <1>7 DEF Send, NetworkTypes
<1>8. ASSUME NEW f, Close(f)
      PROVE  stage' \in [Conns -> {"none", "backlog", "accepted", "closed"}]
  BY <1>0, <1>8 DEF Close, NetworkTypes
<1>9. ASSUME NEW w \in Workers, CloseFd(w)
      PROVE  NetworkTypes'
  BY <1>0, <1>8, <1>9 DEF CloseFd, NetworkTypes
<1>10. ASSUME NEW u \in Users, RunSend(u)
       PROVE  NetworkTypes'
  BY <1>0, <1>8, <1>10 DEF RunSend, NetworkTypes
<1>11. ASSUME NEW u \in Users, RunAck(u)
       PROVE  NetworkTypes'
  <2>1. inbox' \in [Conns -> Seq(Pieces)]
    <3>1. inbox' = inbox \/ \E c \in Conns : inbox' = [inbox EXCEPT ![c] = <<>>]
      <4>1. senderFd[u] \in Fds
        BY <1>11 DEF RunAck, TypeInv, TypeOK, NumInv, SenderTypes
      <4>2. table[senderFd[u]] \in Conns \cup {NoConn}
        BY <4>1 DEF TypeInv, TypeOK, EpollTypes
      <4> QED
        BY <1>11, <4>2 DEF RunAck
    <3>2. inbox \in [Conns -> Seq(Pieces)] /\ <<>> \in Seq(Pieces)
      BY <1>0 DEF NetworkTypes
    <3> QED
      BY <3>1, <3>2
  <2> QED
    BY <1>0, <1>8, <1>11, <2>1 DEF RunAck, NetworkTypes
<1> QED
  BY <1>1, <1>3, <1>4, <1>5, <1>6, <1>7, <1>9, <1>10, <1>11, NetworkSame

(* ... descriptors, ...                                                    *)
LEMMA EpollTypesNext == TypeInv /\ [Next]_vars => EpollTypes'
<1> SUFFICES ASSUME TypeInv, [Next]_vars PROVE EpollTypes'
  OBVIOUS
<1>0. EpollTypes /\ adding \in given \cup {0}
  BY DEF TypeInv, TypeOK, NumInv
<1>1. CASE UNCHANGED <<epoll, adding, recvQueue>>
  BY <1>0, <1>1 DEF EpollTypes, epoll
<1>2. ASSUME NEW c \in Conns, Request(c) \/ SecondHalf(c) \/ GoAway(c)
      PROVE  EpollTypes'
  BY <1>0, <1>2 DEF Request, SecondHalf, GoAway, Arrives, Watching, EpollTypes
<1>3. ASSUME NEW c \in Conns, Accept(c)
      PROVE  EpollTypes'
  BY <1>0, <1>3, VanAssumption DEF Accept, EpollTypes
<1>4. CASE EpollAdd
  BY <1>0, <1>4 DEF EpollAdd, EpollTypes
<1>5. ASSUME NEW f \in Fds, Event(f)
      PROVE  EpollTypes'
  <2>1. recvQueue' \in Seq(Fds)
    BY <1>0, <1>5 DEF Event, EpollTypes
  <2> QED
    BY <1>0, <1>5, <2>1 DEF Event, EpollTypes
<1>6. ASSUME NEW w \in Workers, Pop(w)
      PROVE  EpollTypes'
  BY <1>0, <1>6 DEF Pop, EpollTypes, epoll
<1>7. ASSUME NEW w \in Workers, EpollDel(w) \/ Unwatch(w)
      PROVE  EpollTypes'
  BY <1>0, <1>7 DEF EpollDel, Unwatch, ControlEpollDel, EpollTypes, epoll
<1>8. ASSUME NEW f, Close(f)
      PROVE  /\ table' \in [Fds -> Conns \cup {NoConn}]
             /\ \A g \in watched' : table'[g] # NoConn
             /\ ready' \subseteq watched' /\ watched' \subseteq given /\ given' = given
  BY <1>0, <1>8 DEF Close, EpollTypes
<1>9. ASSUME NEW w \in Workers, CloseFd(w)
      PROVE  EpollTypes'
  BY <1>0, <1>8, <1>9 DEF CloseFd, EpollTypes
<1>10. ASSUME NEW u \in Users, RunSend(u) \/ RunAck(u)
       PROVE  EpollTypes'
  <2>1. UNCHANGED epoll \/ Close(senderFd[u])
    BY <1>10 DEF RunSend, RunAck
  <2> QED
    BY <1>0, <1>8, <1>10, <2>1 DEF RunSend, RunAck, EpollTypes, epoll
<1> QED
  BY <1>1, <1>2, <1>3, <1>4, <1>5, <1>6, <1>7, <1>9, <1>10, EpollSame

(* ... workers ...                                                         *)
LEMMA WorkerTypesNext == TypeInv /\ [Next]_vars => WorkerTypes'
<1> SUFFICES ASSUME TypeInv, [Next]_vars PROVE WorkerTypes'
  OBVIOUS
<1>0. WorkerTypes /\ recvQueue \in Seq(Fds)
  BY DEF TypeInv, TypeOK, EpollTypes
<1>1. CASE UNCHANGED worker
  BY <1>0, <1>1 DEF WorkerTypes, worker
<1>2. ASSUME NEW w \in Workers, Pop(w)
      PROVE  WorkerTypes'
  BY <1>0, <1>2 DEF Pop, WorkerTypes
<1>3. ASSUME NEW w \in Workers, Recv(w)
      PROVE  WorkerTypes'
  <2>1. inbox[table[num[w]]] \in Seq(Pieces)
    <3>1. num[w] \in Fds
      BY <1>3 DEF Recv, TypeInv, TypeOK, NumInv, EpollTypes
    <3> QED
      BY <1>3, <3>1 DEF Recv, TypeInv, TypeOK, EpollTypes, NetworkTypes
  <2> QED
    BY <1>0, <1>3, <2>1 DEF Recv, WorkerTypes
<1>4. ASSUME NEW w \in Workers,
             \/ RecvRequest(w) \/ Send(w) \/ SendFails(w) \/ EpollDel(w) \/ SetChannel(w)
      PROVE  WorkerTypes'
  BY <1>0, <1>4 DEF RecvRequest, Send, SendFails, EpollDel, SetChannel, Goto, WorkerTypes
<1>5. ASSUME NEW w \in Workers, RecvNothing(w) \/ CloseFd(w) \/ Unwatch(w) \/ Notify(w)
      PROVE  WorkerTypes'
  <2>1. Return(w)
    BY <1>5 DEF RecvNothing, CloseFd, Unwatch, Notify
  <2> QED
    BY <1>0, <2>1 DEF Return, WorkerTypes
<1> QED
  BY <1>1, <1>2, <1>3, <1>4, <1>5, WorkerSame DEF WorkerStep

(* ... and senders.                                                        *)
LEMMA SenderTypesNext == TypeInv /\ [Next]_vars => SenderTypes'
<1> SUFFICES ASSUME TypeInv, [Next]_vars PROVE SenderTypes'
  OBVIOUS
<1>0. SenderTypes /\ MaxPackets \in Nat \ {0}
  BY VanAssumption DEF TypeInv, TypeOK
<1>1. CASE UNCHANGED sender
  BY <1>0, <1>1 DEF SenderTypes, sender
<1>2. ASSUME NEW w \in Workers, SetChannel(w)
      PROVE  SenderTypes'
  <2>1. num[w] \in Fds \cup {0}
    BY DEF TypeInv, TypeOK, WorkerTypes
  <2>2. packets' \in [Users -> 0..MaxPackets]
    <3>1. PICK u : packets' = [packets EXCEPT ![u] = 1]
      BY <1>2 DEF SetChannel
    <3>2. 1 \in 0..MaxPackets
      BY <1>0
    <3> QED
      BY <1>0, <3>1, <3>2 DEF SenderTypes
  <2> QED
    BY <1>0, <1>2, <2>1, <2>2 DEF SetChannel, SenderTypes
<1>3. ASSUME NEW w \in Workers, Notify(w)
      PROVE  SenderTypes'
  <2>1. ASSUME NEW u \in Users, packets[u] < MaxPackets, packets' = [packets EXCEPT ![u] = @ + 1]
        PROVE  packets' \in [Users -> 0..MaxPackets]
    BY <1>0, <2>1 DEF SenderTypes
  <2> QED
    BY <1>0, <1>3, <2>1 DEF Notify, SenderTypes
<1>4. ASSUME NEW u \in Users, RunSend(u)
      PROVE  SenderTypes'
  <2>1. packets' \in [Users -> 0..MaxPackets]
    BY <1>0, <1>4 DEF RunSend, SenderTypes
  <2>2. sentOn' \in [Users -> SUBSET Conns]
    <3>1. senderFd[u] \in Fds
      BY <1>0, <1>4 DEF RunSend, SenderTypes
    <3> QED
      BY <1>0, <1>4, <3>1 DEF RunSend, MayWork, SenderTypes, TypeInv, TypeOK, EpollTypes
  <2> QED
    BY <1>0, <1>4, <2>1, <2>2 DEF RunSend, SenderTypes
<1>5. ASSUME NEW u \in Users, RunAck(u)
      PROVE  SenderTypes'
  BY <1>0, <1>5 DEF RunAck, SenderTypes
<1> QED
  BY <1>1, <1>2, <1>3, <1>4, <1>5, SenderSame

(* The numbers.  Close takes the connection of one of them away.           *)
LEMMA NumNext == TypeInv /\ [Next]_vars => NumInv'
<1> SUFFICES ASSUME TypeInv, [Next]_vars PROVE NumInv'
  OBVIOUS
<1> DEFINE OpenInv == \A f \in Fds : table[f] # NoConn =>
                        /\ f \in given
                        /\ stage[table[f]] = "accepted"
                        /\ \A g \in Fds : table[g] = table[f] => g = f
           Table == <<stage, table, given>>
<1>0. /\ stage \in [Conns -> {"none", "backlog", "accepted", "closed"}]
      /\ table \in [Fds -> Conns \cup {NoConn}]
      /\ NoConn \notin Conns
      /\ NumInv /\ OpenInv
      /\ 0 \notin Fds /\ given \subseteq Fds /\ watched \subseteq given /\ ready \subseteq watched
  BY VanAssumption DEF TypeInv, TypeOK, NetworkTypes, EpollTypes, NumInv, Fds
<1>1. ASSUME UNCHANGED Table
      PROVE  OpenInv'
  BY <1>0, <1>1
<1>2. ASSUME NEW c \in Conns,
             \/ stage[c] = "none" /\ stage' = [stage EXCEPT ![c] = "backlog"]
             \/ UNCHANGED stage,
             UNCHANGED <<table, given>>
      PROVE  OpenInv'
  BY <1>0, <1>2
<1>3. ASSUME NEW f \in Fds, Close(f)
      PROVE  OpenInv' /\ given' = given
  BY <1>0, <1>3 DEF Close
<1>4. ASSUME NEW c \in Conns, Connect(c) \/ Request(c) \/ SecondHalf(c) \/ GoAway(c)
      PROVE  NumInv'
  <2>1. OpenInv' /\ UNCHANGED <<given, adding, recvQueue, worker, sender>>
    BY <1>2, <1>4 DEF Connect, Request, SecondHalf, GoAway, epoll
  <2> QED
    BY <1>0, <2>1 DEF NumInv, worker, sender
<1>5. ASSUME NEW c \in Conns, Accept(c)
      PROVE  NumInv'
  <2>1. OpenInv'
    BY <1>0, <1>5 DEF Accept
  <2> QED
    BY <1>0, <1>5, <2>1 DEF NumInv, Accept, worker, sender
<1>6. ASSUME UNCHANGED vars \/ BindServer \/ EpollAdd \/ \E c \in Conns : AcceptUnbound(c)
      PROVE  NumInv'
  <2>1. /\ UNCHANGED <<Table, recvQueue, worker, sender>>
        /\ adding' \in {adding, 0}
    BY <1>6 DEF vars, BindServer, EpollAdd, AcceptUnbound, network, epoll
  <2> QED
    BY <1>0, <1>1, <2>1 DEF NumInv, worker, sender
<1>7. ASSUME NEW f \in Fds, Event(f)
      PROVE  NumInv'
  <2>1. recvQueue' \in Seq(given)
    <3>1. recvQueue' = recvQueue \/ recvQueue' = Append(recvQueue, f)
      BY <1>7 DEF Event
    <3>2. recvQueue \in Seq(given) /\ f \in given
      BY <1>0, <1>7 DEF Event, NumInv
    <3> QED
      BY <3>1, <3>2
  <2>2. OpenInv'
    BY <1>1, <1>7 DEF Event, network
  <2> QED
    BY <1>0, <1>7, <2>1, <2>2 DEF Event, NumInv, network, worker, sender
<1>8. ASSUME NEW w \in Workers, Pop(w)
      PROVE  NumInv'
  <2>1. recvQueue' \in Seq(given) /\ Head(recvQueue) \in given
    BY <1>0, <1>8 DEF Pop, NumInv
  <2>2. OpenInv'
    BY <1>1, <1>8 DEF Pop, network, epoll
  <2> QED
    BY <1>0, <1>8, <2>1, <2>2
    DEF Pop, NumInv, network, epoll, sender, TypeInv, TypeOK, WorkerTypes
<1>9. ASSUME NEW w \in Workers, WorkerStep(w), ~Pop(w)
      PROVE  NumInv'
  <2>1. /\ UNCHANGED <<adding, recvQueue>>
        /\ \A u \in Users : senderFd'[u] = 0 => senderFd[u] = 0
        /\ acking' = acking
    BY <1>0, <1>9
    DEF WorkerStep, Recv, RecvNothing, RecvRequest, Send, SendFails, EpollDel, CloseFd, SetChannel,
        Unwatch, Notify, sender, NumInv, TypeInv, TypeOK, SenderTypes
  <2>2. OpenInv' /\ given' = given
    <3>1. CASE CloseFd(w)
      BY <1>0, <1>3, <3>1 DEF CloseFd, NumInv
    <3>2. CASE ~CloseFd(w)
      <4>1. UNCHANGED Table
        BY <1>9, <3>2
        DEF WorkerStep, Recv, RecvNothing, RecvRequest, Send, SendFails, EpollDel, SetChannel,
            Unwatch, Notify, ControlEpollDel, network, epoll
      <4> QED
        BY <1>1, <4>1
    <3> QED
      BY <3>1, <3>2
  <2>3. \A v \in Workers : IF step'[v] = "pop" THEN num'[v] = 0 /\ buf'[v] = <<>>
                                              ELSE num'[v] \in given
    <3>1. CASE Return(w)
      BY <1>0, <3>1 DEF Return, NumInv, TypeInv, TypeOK, WorkerTypes
    <3>2. ASSUME NEW l, Goto(w, l), step[w] # "pop", l # "pop"
          PROVE  \A v \in Workers : IF step'[v] = "pop" THEN num'[v] = 0 /\ buf'[v] = <<>>
                                                 ELSE num'[v] \in given
      BY <1>0, <3>2 DEF Goto, NumInv, TypeInv, TypeOK, WorkerTypes
    <3>3. CASE Recv(w)
      BY <1>0, <3>3 DEF Recv, NumInv, TypeInv, TypeOK, WorkerTypes
    <3> QED
      BY <1>9, <3>1, <3>2, <3>3
      DEF WorkerStep, RecvNothing, RecvRequest, Send, SendFails, EpollDel, CloseFd, SetChannel,
          Unwatch, Notify
  <2> QED
    BY <1>0, <2>1, <2>2, <2>3 DEF NumInv, TypeInv, TypeOK, SenderTypes
<1>10. ASSUME NEW u \in Users, ThreadStep(u)
       PROVE  NumInv'
  <2>1. /\ UNCHANGED <<adding, recvQueue, worker, senderFd>>
        /\ \A v \in acking' : v \in acking \/ senderFd[v] # 0
    BY <1>10 DEF ThreadStep, RunSend, RunAck
  <2>2. OpenInv' /\ given' = given
    <3>1. senderFd[u] \in Fds
      BY <1>0, <1>10 DEF ThreadStep, RunSend, RunAck, NumInv, TypeInv, TypeOK, SenderTypes
    <3>2. UNCHANGED <<stage, epoll>> \/ Close(senderFd[u])
      BY <1>10 DEF ThreadStep, RunSend, RunAck
    <3> QED
      BY <1>1, <1>3, <3>1, <3>2 DEF epoll
  <2> QED
    BY <1>0, <2>1, <2>2 DEF NumInv, worker
<1> QED
  BY <1>4, <1>5, <1>6, <1>7, <1>8, <1>9, <1>10 DEF Next, AcceptingStep

(* Types and numbers together.                                             *)
LEMMA TypeNext == TypeInv /\ [Next]_vars => TypeInv'
  BY ProcessNext, NetworkTypesNext, EpollTypesNext, WorkerTypesNext, SenderTypesNext, NumNext
  DEF TypeInv, TypeOK

(* The types are right in every reachable state, whoever goes away.        *)
THEOREM VanTypes == Spec => []TypeOK
<1>1. TypeInv => TypeOK
  BY DEF TypeInv
<1> QED
  BY <1>1, TypeInit, TypeNext, PTL DEF Spec
-----------------------------------------------------------------------------
(* The pieces of a request.                                                *)
LEMMA PieceFacts ==
  ASSUME NEW c, NEW d, NEW p, NEW q
  PROVE  /\ Piece(c, p).conn = c /\ Piece(c, p).part = p
         /\ Piece(c, p) = Piece(d, q) <=> c = d /\ p = q
  BY DEF Piece

(* Range, Head, Tail, Append and Last of sequences of no piece, ...        *)
LEMMA NoPiece == Range(<<>>) = {}
  BY DEF Range

(* ... of one piece ...                                                    *)
LEMMA OnePiece ==
  ASSUME NEW a
  PROVE  /\ Range(<<a>>) = {a}
         /\ Head(<<a>>) = a /\ Tail(<<a>>) = <<>> /\ Last(<<a>>) = a
         /\ Append(<<>>, a) = <<a>>
         /\ <<a>> # <<>> /\ \A b : <<a>> = <<b>> => a = b
<1>1. DOMAIN <<a>> = {1} /\ <<a>>[1] = a /\ Len(<<a>>) = 1
  OBVIOUS
<1>2. Range(<<a>>) = {a}
  BY <1>1 DEF Range
<1>3. Last(<<a>>) = a
  BY <1>1 DEF Last
<1>4. Tail(<<a>>) = <<>> /\ Append(<<>>, a) = <<a>>
  OBVIOUS
<1>5. <<a>> # <<>> /\ \A b : <<a>> = <<b>> => a = b
  OBVIOUS
<1> QED
  BY <1>1, <1>2, <1>3, <1>4, <1>5

(* ... and of two.                                                         *)
LEMMA TwoPieces ==
  ASSUME NEW a, NEW b
  PROVE  /\ Range(<<a, b>>) = {a, b}
         /\ Head(<<a, b>>) = a /\ Tail(<<a, b>>) = <<b>> /\ Last(<<a, b>>) = b
         /\ Append(<<a>>, b) = <<a, b>>
         /\ <<a, b>> # <<>> /\ \A e : <<a, b>> # <<e>>
         /\ \A e, f : <<a, b>> = <<e, f>> => a = e /\ b = f
<1>1. DOMAIN <<a, b>> = {1, 2} /\ <<a, b>>[1] = a /\ <<a, b>>[2] = b /\ Len(<<a, b>>) = 2
  OBVIOUS
<1>2. Range(<<a, b>>) = {a, b}
  BY <1>1 DEF Range
<1>3. Last(<<a, b>>) = b
  BY <1>1 DEF Last
<1>4. Tail(<<a, b>>) = <<b>>
  OBVIOUS
<1>5. Append(<<a>>, b) = <<a, b>>
  <2>1. <<a>> \in Seq({a, b}) /\ <<a, b>> \in Seq({a, b})
    OBVIOUS
  <2>2. Append(<<a>>, b) \in Seq({a, b})
    BY <2>1
  <2>3. Len(Append(<<a>>, b)) = 2 /\ Append(<<a>>, b)[1] = a /\ Append(<<a>>, b)[2] = b
    BY <2>1, AppendProperties
  <2>4. \A i \in 1..2 : Append(<<a>>, b)[i] = <<a, b>>[i]
    BY <1>1, <2>3
  <2> HIDE <1>1
  <2> QED
    BY <1>1, <2>1, <2>2, <2>3, <2>4, SeqEqual, Zenon
<1>6. <<a, b>> # <<>> /\ \A e : <<a, b>> # <<e>>
  OBVIOUS
<1>7. \A e, f : <<a, b>> = <<e, f>> => a = e /\ b = f
  OBVIOUS
<1> QED
  BY <1>1, <1>2, <1>3, <1>4, <1>5, <1>6, <1>7

(* A fragment is of one connection.                                        *)
LEMMA FragmentOf ==
  ASSUME NEW c, NEW s \in Fragments(c)
  PROVE  /\ s # <<>> /\ Last(s).conn = c
         /\ Range(s) # {}
         /\ \A d : s \in Fragments(d) => d = c
<1>1. ASSUME NEW d, NEW t \in Fragments(d)
      PROVE  t # <<>> /\ Last(t).conn = d /\ Range(t) # {}
  <2>1. PICK p \in {"first", "rest", "whole"} :
          t = <<Piece(d, p)>> \/ t = <<Piece(d, "first"), Piece(d, p)>>
    BY <1>1 DEF Fragments
  <2>2. CASE t = <<Piece(d, p)>>
    BY <2>2, OnePiece, PieceFacts
  <2>3. CASE t = <<Piece(d, "first"), Piece(d, p)>>
    <3>1. /\ Range(<<Piece(d, "first"), Piece(d, p)>>) = {Piece(d, "first"), Piece(d, p)}
          /\ Last(<<Piece(d, "first"), Piece(d, p)>>) = Piece(d, p)
          /\ <<Piece(d, "first"), Piece(d, p)>> # <<>>
      BY TwoPieces
    <3>2. Piece(d, p).conn = d
      BY PieceFacts
    <3> QED
      BY <2>3, <3>1, <3>2
  <2> QED
    BY <2>1, <2>2, <2>3
<1> QED
  BY <1>1

(* The operators of sequences on the three fragments of a split packet.    *)
SplitTerm(c, F, R, f, r, fr) ==
  /\ F = Piece(c, "first") /\ R = Piece(c, "rest") /\ F # R
  /\ Fragments(c) = {f, r, fr}
  /\ Range(f) = {F} /\ Range(r) = {R} /\ Range(fr) = {F, R} /\ Range(<<>>) = {}
  /\ Head(f) = F /\ Head(r) = R /\ Head(fr) = F
  /\ Tail(f) = <<>> /\ Tail(r) = <<>> /\ Tail(fr) = r
  /\ Append(<<>>, F) = f /\ Append(<<>>, R) = r /\ Append(f, R) = fr
  /\ ~Parses(f) /\ ~Parses(r)

LEMMA SplitTerms ==
  ASSUME NEW c \in Split
  PROVE  \E F, R, f, r, fr : SplitTerm(c, F, R, f, r, fr)
<1> DEFINE F == Piece(c, "first")
           R == Piece(c, "rest")
<1>1. F # R /\ F.part = "first" /\ R.part = "rest"
  BY PieceFacts
<1>2. Fragments(c) = {<<F>>, <<R>>, <<F, R>>}
  BY DEF Fragments
<1>3. /\ Range(<<F>>) = {F} /\ Head(<<F>>) = F /\ Tail(<<F>>) = <<>> /\ Append(<<>>, F) = <<F>>
      /\ Range(<<R>>) = {R} /\ Head(<<R>>) = R /\ Tail(<<R>>) = <<>> /\ Append(<<>>, R) = <<R>>
  BY OnePiece
<1>4. /\ Range(<<F, R>>) = {F, R} /\ Head(<<F, R>>) = F /\ Tail(<<F, R>>) = <<R>>
      /\ Append(<<F>>, R) = <<F, R>>
  BY TwoPieces
<1>5. ASSUME NEW a, a.part \in {"first", "rest"}, Parses(<<a>>)
      PROVE  FALSE
  <2>1. DOMAIN <<a>> = {1} /\ <<a>>[1] = a /\ Len(<<a>>) = 1
    OBVIOUS
  <2>2. /\ <<a>>[1].part = "first" => 1 < Len(<<a>>)
        /\ <<a>>[1].part = "rest" => 1 > 1
    BY <1>5, <2>1, Zenon DEF Parses
  <2> QED
    BY <1>5, <2>1, <2>2
<1>6. ~Parses(<<F>>) /\ ~Parses(<<R>>)
  BY <1>1, <1>5
<1>7. SplitTerm(c, F, R, <<F>>, <<R>>, <<F, R>>)
  BY <1>1, <1>2, <1>3, <1>4, <1>6, NoPiece, Zenon DEF SplitTerm
<1> QED
  BY <1>7

(* ... and on the one fragment of a packet that is not split.              *)
LEMMA WholeTerms ==
  ASSUME NEW c, c \notin Split
  PROVE  \E W, s : /\ W = Piece(c, "whole") /\ Fragments(c) = {s}
                   /\ Range(s) = {W} /\ Range(<<>>) = {} /\ Head(s) = W /\ Tail(s) = <<>>
                   /\ Append(<<>>, W) = s
<1>1. Fragments(c) = {<<Piece(c, "whole")>>}
  BY DEF Fragments
<1> QED
  BY <1>1, OnePiece, NoPiece, Zenon

(* Pieces that parse are a whole request: no other place has any of it.    *)
LEMMA WholeFragment ==
  ASSUME NEW c, NEW s \in Fragments(c), Parses(s)
  PROVE  /\ \A t \in Fragments(c) : Range(s) \cap Range(t) # {}
         /\ c \in Split => Piece(c, "rest") \in Range(s)
<1>1. CASE c \notin Split
  BY <1>1, WholeTerms
<1>2. CASE c \in Split
  <2>1. PICK F, R, f, r, fr : SplitTerm(c, F, R, f, r, fr)
    BY <1>2, SplitTerms
  <2> QED
    BY <2>1 DEF SplitTerm
<1> QED
  BY <1>1, <1>2

(* Reading the next piece of the rest of a request.                        *)
LEMMA NextPiece ==
  ASSUME NEW c, NEW s \in Fragments(c) \cup {<<>>}, NEW t \in Fragments(c),
         Range(s) \cap Range(t) = {},
         Piece(c, "rest") \in Range(s) => Piece(c, "first") \notin Range(t)
  PROVE  /\ Append(s, Head(t)) \in Fragments(c)
         /\ Tail(t) \in Fragments(c) \cup {<<>>}
         /\ Range(Append(s, Head(t))) = Range(s) \cup {Head(t)}
         /\ Range(t) = Range(Tail(t)) \cup {Head(t)}
         /\ Head(t) \notin Range(Tail(t))
         /\ Piece(c, "first") \notin Range(Tail(t))
<1>1. CASE c \notin Split
  <2>1. PICK W, x : /\ W = Piece(c, "whole") /\ Fragments(c) = {x}
                    /\ Range(x) = {W} /\ Range(<<>>) = {} /\ Head(x) = W /\ Tail(x) = <<>>
                    /\ Append(<<>>, W) = x
    BY <1>1, WholeTerms
  <2>2. t = x /\ s = <<>>
    BY <2>1
  <2> QED
    BY <2>1, <2>2
<1>2. CASE c \in Split
  <2>1. PICK F, R, f, r, fr : SplitTerm(c, F, R, f, r, fr)
    BY <1>2, SplitTerms
  <2> USE DEF SplitTerm
  <2>2. CASE t = r
    <3>1. s = <<>> \/ s = f
      BY <2>1, <2>2
    <3> QED
      BY <2>1, <2>2, <3>1
  <2>3. CASE t = f
    <3>1. s = <<>>
      BY <2>1, <2>3
    <3> QED
      BY <2>1, <2>3, <3>1
  <2>4. CASE t = fr
    <3>1. s = <<>>
      BY <2>1, <2>4
    <3> QED
      BY <2>1, <2>4, <3>1
  <2> QED
    BY <2>1, <2>2, <2>3, <2>4
<1> QED
  BY <1>1, <1>2

(* The second half arrives after the first.                                *)
LEMMA SecondPiece ==
  ASSUME NEW c \in Split, NEW s \in Fragments(c) \cup {<<>>}, Piece(c, "rest") \notin Range(s)
  PROVE  /\ Append(s, Piece(c, "rest")) \in Fragments(c)
         /\ Range(Append(s, Piece(c, "rest"))) = Range(s) \cup {Piece(c, "rest")}
<1>1. PICK F, R, f, r, fr : SplitTerm(c, F, R, f, r, fr)
  BY SplitTerms
<1> USE DEF SplitTerm
<1>2. s = <<>> \/ s = f
  BY <1>1
<1> QED
  BY <1>1, <1>2
-----------------------------------------------------------------------------
(* The inductive invariant.                                                *)
IInv == TypeInv /\ BufInv /\ OnceInv /\ ChannelInv /\ WatchInv

(* The worker that has a request has all of it, and the number it came on  *)
(* is still that of its connection.                                        *)
LEMMA Handled ==
  ASSUME IInv, NEW w \in Workers, step[w] \in {"send", "epollDel", "close"}
  PROVE  /\ Asker(w) \in Conns /\ Holds(w, Asker(w)) /\ Parses(buf[w])
         /\ table[num[w]] = Asker(w) /\ num[w] \in Fds
         /\ Asker(w) \in owed /\ Asker(w) \notin half
         /\ inbox[Asker(w)] = <<>>
         /\ \A v \in Workers \ {w} : ~Holds(v, Asker(w))
<1>1. Parses(buf[w]) /\ \E c \in Conns : buf[w] \in Fragments(c)
  BY DEF IInv, BufInv
<1>2. PICK c \in Conns : buf[w] \in Fragments(c)
  BY <1>1
<1>3. Asker(w) = c /\ Holds(w, c)
  BY <1>2, FragmentOf DEF Asker, Holds
<1>4. num[w] \in Fds
  BY DEF IInv, TypeInv, TypeOK, NumInv, EpollTypes
<1>5. /\ c \in owed /\ table[num[w]] = c
      /\ Range(buf[w]) \cap Range(inbox[c]) = {}
      /\ c \in half => Piece(c, "rest") \notin Range(buf[w])
      /\ \A v \in Workers \ {w} : Holds(v, c) => Range(buf[w]) \cap Range(buf[v]) = {}
  BY <1>2, <1>3 DEF IInv, OnceInv, Once
<1>6. inbox[c] = <<>> /\ \A v \in Workers \ {w} : ~Holds(v, c)
  BY <1>1, <1>2, <1>5, WholeFragment DEF IInv, BufInv, Holds
<1>7. c \notin half
  BY <1>1, <1>2, <1>5, WholeFragment DEF IInv, TypeInv, TypeOK, NetworkTypes
<1> QED
  BY <1>1, <1>2, <1>3, <1>4, <1>5, <1>6, <1>7

(* An answered request is not in anybody's hands.                          *)
LEMMA ServedIsNotHeld ==
  ASSUME IInv, NEW c \in Conns, c \notin owed
  PROVE  inbox[c] = <<>> /\ c \notin half /\ \A w \in Workers : ~Holds(w, c)
  BY DEF IInv, OnceInv, Once

(* A sender thread does not close a sound channel, and finds nothing there *)
(* but acks.                                                               *)
LEMMA SendersKeep ==
  ASSUME IInv, SoundChannels, NEW u \in Users, ThreadStep(u)
  PROVE  UNCHANGED <<bound, crashed, network, epoll, adding, recvQueue, worker, senderFd>>
<1> DEFINE c == table[senderFd[u]]
<1>1. senderFd[u] # 0
  BY DEF ThreadStep, RunSend, RunAck, IInv, TypeInv, NumInv
<1>2. Served(c)
  BY <1>1 DEF IInv, ChannelInv
<1>3. c \in Conns /\ c # NoConn /\ c \notin gone
  BY <1>2, VanAssumption DEF Served, SoundChannels, IInv, TypeInv, TypeOK, NetworkTypes
<1>4. inbox[c] = <<>>
  BY <1>2, <1>3, ServedIsNotHeld DEF Served
<1>5. Parses(inbox[c])
  BY <1>4 DEF Parses
<1>6. inbox \in [Conns -> Seq(Pieces)]
  BY DEF IInv, TypeInv, TypeOK, NetworkTypes
<1>7. [inbox EXCEPT ![c] = <<>>] = inbox
  BY <1>3, <1>4, <1>6
<1>8. CASE RunSend(u)
  BY <1>3, <1>8 DEF RunSend, MayFail, network
<1>9. CASE RunAck(u)
  BY <1>3, <1>5, <1>7, <1>9 DEF RunAck, network
<1> QED
  BY <1>8, <1>9 DEF ThreadStep

(* Who closes a number has it to itself.                                   *)
LEMMA CloseAlone ==
  ASSUME IInv, SoundChannels, NEW w \in Workers, step[w] = "close"
  PROVE  /\ \A v \in Workers \ {w} : \A c \in Conns : Holds(v, c) => num[v] # num[w]
         /\ \A v \in Workers : step[v] \in {"channel", "unwatch"} => num[v] # num[w]
         /\ \A u \in Users : senderFd[u] # num[w]
         /\ Asker(w) \notin Channels
<1>1. /\ table[num[w]] = Asker(w) /\ num[w] \in Fds
      /\ \A v \in Workers \ {w} : ~Holds(v, Asker(w))
  BY Handled
<1>2. Asker(w) \in gone
  BY DEF IInv, BufInv
<1>3. Asker(w) \notin Channels
  BY <1>2 DEF SoundChannels, IInv, TypeInv, TypeOK, NetworkTypes
<1>4. \A v \in Workers \ {w} : \A c \in Conns : Holds(v, c) => num[v] # num[w]
  BY <1>1 DEF IInv, OnceInv, Once
<1>5. \A v \in Workers : step[v] \in {"channel", "unwatch"} => num[v] # num[w]
  BY <1>1, <1>3 DEF IInv, ChannelInv, Served
<1>6. \A u \in Users : senderFd[u] # num[w]
  BY <1>1, <1>3 DEF IInv, ChannelInv, Served, Fds
<1> QED
  BY <1>3, <1>4, <1>5, <1>6

(* Only these steps change what was asked and what of it is where.         *)
LEMMA AskedSame ==
  ASSUME IInv, SoundChannels, [Next]_vars
  PROVE  \/ UNCHANGED <<asked, owed, half, inbox>>
         \/ \E c \in Conns : Request(c) \/ SecondHalf(c)
         \/ \E w \in Workers : Recv(w) \/ Send(w)
<1>1. ASSUME NEW u \in Users, ThreadStep(u)
      PROVE  UNCHANGED <<asked, owed, half, inbox>>
  BY <1>1, SendersKeep DEF network
<1>2. ASSUME NEW c \in Conns, Connect(c) \/ GoAway(c) \/ Accept(c)
      PROVE  UNCHANGED <<asked, owed, half, inbox>>
  BY <1>2 DEF Connect, GoAway, Accept
<1>3. ASSUME NEW w \in Workers, CloseFd(w)
      PROVE  UNCHANGED <<asked, owed, half, inbox>>
  BY <1>3 DEF CloseFd
<1> QED
  BY <1>1, <1>2, <1>3, NetworkSame DEF network, ThreadStep

(* Only these steps change what is open or watched.                        *)
LEMMA DescriptorsSame ==
  ASSUME IInv, SoundChannels, [Next]_vars
  PROVE  \/ UNCHANGED <<table, watched, adding>>
         \/ \E c \in Conns : Accept(c)
         \/ EpollAdd
         \/ \E w \in Workers : EpollDel(w) \/ Unwatch(w) \/ CloseFd(w)
<1>1. ASSUME NEW d \in Conns, Request(d) \/ SecondHalf(d) \/ GoAway(d)
      PROVE  UNCHANGED <<table, watched, adding>>
  BY <1>1 DEF Request, SecondHalf, GoAway
<1>2. ASSUME NEW f \in Fds, Event(f)
      PROVE  UNCHANGED <<table, watched, adding>>
  BY <1>2 DEF Event
<1>3. ASSUME NEW w \in Workers, Pop(w)
      PROVE  UNCHANGED <<table, watched, adding>>
  BY <1>3 DEF Pop, epoll
<1>4. ASSUME NEW u \in Users, ThreadStep(u)
      PROVE  UNCHANGED <<table, watched, adding>>
  BY <1>4, SendersKeep DEF epoll
<1> QED
  BY <1>1, <1>2, <1>3, <1>4, EpollSame DEF epoll, ThreadStep

(* Only Recv gives a worker pieces.  As long as it has them its number     *)
(* stays with the connection they came on.                                 *)
LEMMA HeldSame ==
  ASSUME IInv, SoundChannels, [Next]_vars, NEW c \in Conns, NEW v \in Workers, Holds(v, c)'
  PROVE  \/ Recv(v)
         \/ /\ Holds(v, c) /\ num'[v] = num[v] /\ buf'[v] = buf[v] /\ table'[num[v]] = c
            /\ step'[v] # step[v] => RecvRequest(v) \/ SendFails(v) \/ EpollDel(v)
<1> USE DEF IInv, TypeInv, TypeOK, WorkerTypes
<1>1. /\ step'[v] \in {"recv", "send", "epollDel", "close"}
      /\ buf'[v] \in Fragments(c) /\ buf'[v] # <<>>
  BY FragmentOf DEF Holds
<1>2. \/ Recv(v)
      \/ /\ Holds(v, c) /\ num'[v] = num[v] /\ buf'[v] = buf[v] /\ ~CloseFd(v)
         /\ step'[v] # step[v] => RecvRequest(v) \/ SendFails(v) \/ EpollDel(v)
  <2>1. CASE UNCHANGED worker
    BY <1>1, <2>1 DEF worker, Holds, CloseFd, Return
  <2>2. ASSUME NEW w \in Workers \ {v}, WorkerStep(w)
        PROVE  step'[v] = step[v] /\ num'[v] = num[v] /\ buf'[v] = buf[v]
    BY <2>2 DEF WorkerStep, Pop, Recv, RecvNothing, RecvRequest, Send, SendFails, EpollDel, CloseFd,
                SetChannel, Unwatch, Notify, Goto, Return
  <2>3. ASSUME WorkerStep(v), ~Recv(v)
        PROVE  RecvRequest(v) \/ SendFails(v) \/ EpollDel(v)
    <3>1. ~Pop(v)
      BY <1>1 DEF Pop, NumInv
    <3>2. ~Return(v)
      BY <1>1 DEF Return
    <3> QED
      BY <1>1, <2>3, <3>1, <3>2
      DEF WorkerStep, RecvNothing, Send, CloseFd, SetChannel, Unwatch, Notify, Goto
  <2>4. ASSUME RecvRequest(v) \/ SendFails(v) \/ EpollDel(v)
        PROVE  Holds(v, c) /\ num'[v] = num[v] /\ buf'[v] = buf[v]
    BY <1>1, <2>4 DEF RecvRequest, SendFails, EpollDel, Goto, Holds
  <2>5. ~CloseFd(v)
    BY <1>1 DEF CloseFd, Return
  <2> QED
    BY <1>1, <2>1, <2>2, <2>3, <2>4, <2>5, WorkerSame DEF Holds
<1>3. ASSUME Holds(v, c), num'[v] = num[v], ~CloseFd(v)
      PROVE  table'[num[v]] = c
  <2>1. table[num[v]] = c /\ num[v] \in Fds
    BY <1>3, FragmentOf DEF OnceInv, Once, Holds, NumInv, EpollTypes
  <2>2. CASE UNCHANGED table
    BY <2>1, <2>2
  <2>3. ASSUME NEW d \in Conns, Accept(d)
        PROVE  table'[num[v]] = c
    BY <2>1, <2>3, VanAssumption DEF Accept, EpollTypes
  <2>4. ASSUME NEW w \in Workers \ {v}, CloseFd(w)
        PROVE  table'[num[v]] = c
    <3>1. num[v] # num[w]
      BY <1>3, <2>4, CloseAlone DEF CloseFd
    <3> QED
      BY <2>1, <2>4, <3>1 DEF CloseFd, Close, EpollTypes
  <2> QED
    BY <1>3, <2>2, <2>3, <2>4, DescriptorsSame DEF EpollAdd, EpollDel, Unwatch, ControlEpollDel, epoll
<1> QED
  BY <1>2, <1>3

(* A worker that receives a piece has its predecessors, or nothing.        *)
Receives(w, c) ==
  /\ table[num[w]] = c /\ num[w] \in Fds /\ step[w] = "recv" /\ Holds(w, c)'
  /\ c \in owed
  /\ buf[w] # <<>> => Holds(w, c)
  /\ inbox'[c] \in Fragments(c) \cup {<<>>}
  /\ \A d \in Conns \ {c} : inbox'[d] = inbox[d]
  /\ \A v \in Workers \ {w} : buf'[v] = buf[v]
  /\ Range(buf'[w]) = Range(buf[w]) \cup {Head(inbox[c])}
  /\ Range(inbox[c]) = Range(inbox'[c]) \cup {Head(inbox[c])}
  /\ Range(buf[w]) \cap Range(inbox[c]) = {}
  /\ Range(buf'[w]) \cap Range(inbox'[c]) = {}
  /\ Piece(c, "first") \notin Range(inbox'[c])

LEMMA RecvPiece ==
  ASSUME IInv, NEW w \in Workers, Recv(w)
  PROVE  \E c \in Conns : Receives(w, c)
<1> USE DEF IInv, TypeInv, TypeOK, WorkerTypes, EpollTypes, NetworkTypes
<1>1. num[w] \in Fds
  BY DEF Recv, NumInv
<1>2. PICK c \in Conns : table[num[w]] = c /\ inbox[c] # <<>> /\ step[w] = "recv"
  BY <1>1 DEF Recv
<1> DEFINE s == buf[w]
           t == inbox[c]
<1>3. t \in Fragments(c) /\ c \in owed
  BY <1>2 DEF BufInv, OnceInv, Once
<1>4. s = <<>> \/ Holds(w, c)
  BY <1>2 DEF BufInv, OnceInv, Once, Holds
<1>5. /\ s \in Fragments(c) \cup {<<>>}
      /\ Range(s) \cap Range(t) = {}
      /\ Piece(c, "rest") \in Range(s) => Piece(c, "first") \notin Range(t)
  BY <1>2, <1>4, NoPiece DEF OnceInv, Once, Holds
<1>6. /\ buf'[w] = Append(s, Head(t)) /\ inbox'[c] = Tail(t) /\ step'[w] = "recv"
      /\ \A d \in Conns \ {c} : inbox'[d] = inbox[d]
      /\ \A v \in Workers \ {w} : buf'[v] = buf[v]
  BY <1>2 DEF Recv
<1> HIDE DEF s, t
<1>7. /\ Append(s, Head(t)) \in Fragments(c)
      /\ Tail(t) \in Fragments(c) \cup {<<>>}
      /\ Range(Append(s, Head(t))) = Range(s) \cup {Head(t)}
      /\ Range(t) = Range(Tail(t)) \cup {Head(t)}
      /\ Head(t) \notin Range(Tail(t))
      /\ Piece(c, "first") \notin Range(Tail(t))
  BY <1>3, <1>5, NextPiece
<1>8. Holds(w, c)'
  BY <1>6, <1>7 DEF Holds
<1>9. Receives(w, c)
  BY <1>1, <1>2, <1>3, <1>4, <1>5, <1>6, <1>7, <1>8 DEF s, t, Receives
<1> QED
  BY <1>9

(* BufInv, for the pieces that arrive and for those a worker has.          *)
LEMMA BufNext == IInv /\ SoundChannels /\ [Next]_vars => BufInv'
<1> SUFFICES ASSUME IInv, SoundChannels, [Next]_vars PROVE BufInv'
  OBVIOUS
<1> USE DEF IInv, TypeInv, TypeOK
<1>0. /\ inbox \in [Conns -> Seq(Pieces)]
      /\ step \in [Workers -> {"pop", "recv", "send", "epollDel", "close",
                               "channel", "unwatch", "notify"}]
      /\ num \in [Workers -> Fds \cup {0}]
      /\ buf \in [Workers -> Seq(Pieces)]
  BY DEF NetworkTypes, WorkerTypes
<1>1. ASSUME NEW c \in Conns
      PROVE  inbox'[c] \in Fragments(c) \cup {<<>>}
  <2>1. inbox[c] \in Fragments(c) \cup {<<>>}
    BY DEF BufInv
  <2>2. ASSUME NEW d \in Conns, Request(d)
        PROVE  inbox'[c] \in Fragments(c) \cup {<<>>}
    <3>1. CASE c = d
      <4>1. inbox[c] = <<>>
        BY <2>2, <3>1, ServedIsNotHeld DEF Request
      <4>2. PICK part : /\ inbox'[c] = Append(<<>>, Piece(c, part))
                        /\ part = IF c \in Split THEN "first" ELSE "whole"
        BY <1>0, <2>2, <3>1, <4>1 DEF Request, Arrives, Piece
      <4>3. inbox'[c] = <<Piece(c, part)>>
        BY <4>2, OnePiece
      <4> QED
        BY <4>2, <4>3 DEF Fragments
    <3>2. CASE c # d
      BY <1>0, <2>1, <2>2, <3>2 DEF Request, Arrives
    <3> QED
      BY <3>1, <3>2
  <2>3. ASSUME NEW d \in Conns, SecondHalf(d)
        PROVE  inbox'[c] \in Fragments(c) \cup {<<>>}
    <3>1. CASE c = d
      <4>1. inbox'[c] = Append(inbox[c], Piece(c, "rest"))
        BY <1>0, <2>3, <3>1 DEF SecondHalf, Arrives, Piece
      <4>2. c \in Split /\ Piece(c, "rest") \notin Range(inbox[c])
        BY <2>3, <3>1 DEF SecondHalf, NetworkTypes, OnceInv, Once
      <4> QED
        BY <2>1, <4>1, <4>2, SecondPiece
    <3>2. CASE c # d
      BY <1>0, <2>1, <2>3, <3>2 DEF SecondHalf, Arrives
    <3> QED
      BY <3>1, <3>2
  <2>4. ASSUME NEW w \in Workers, Recv(w)
        PROVE  inbox'[c] \in Fragments(c) \cup {<<>>}
    BY <2>1, <2>4, RecvPiece DEF Receives
  <2>5. ASSUME NEW w \in Workers, Send(w)
        PROVE  inbox'[c] \in Fragments(c) \cup {<<>>}
    BY <2>1, <2>5 DEF Send
  <2> QED
    BY <2>1, <2>2, <2>3, <2>4, <2>5, AskedSame
<1>2. gone \subseteq gone'
  <2>1. ASSUME NEW c \in Conns, Connect(c) \/ Request(c) \/ SecondHalf(c) \/ GoAway(c) \/ Accept(c)
        PROVE  gone \subseteq gone'
    BY <2>1 DEF Connect, Request, SecondHalf, GoAway, Accept
  <2>2. ASSUME NEW w \in Workers, Recv(w) \/ Send(w) \/ CloseFd(w)
        PROVE  gone \subseteq gone'
    BY <2>2 DEF Recv, Send, CloseFd
  <2>3. ASSUME NEW u \in Users, ThreadStep(u)
        PROVE  gone \subseteq gone'
    BY <2>3, SendersKeep DEF network
  <2> QED
    BY <2>1, <2>2, <2>3, NetworkSame DEF network, ThreadStep
<1> DEFINE Good(w) ==
      /\ \/ step[w] \in {"pop", "recv"} /\ buf[w] = <<>>
         \/ \E c \in Conns : buf[w] \in Fragments(c)
      /\ step[w] \notin {"pop", "recv"} => Parses(buf[w])
      /\ step[w] \in {"channel", "unwatch"} => Asker(w) \in Channels
      /\ step[w] \in {"epollDel", "close"} => Asker(w) \in gone
<1>3. ASSUME NEW w \in Workers
      PROVE  Good(w)'
  <2>1. Good(w)
    BY DEF BufInv
  <2>2. ASSUME step'[w] = step[w], buf'[w] = buf[w]
        PROVE  Good(w)'
    BY <1>2, <2>1, <2>2 DEF Asker
  <2>3. ASSUME NEW v \in Workers \ {w}, WorkerStep(v)
        PROVE  step'[w] = step[w] /\ buf'[w] = buf[w]
    BY <1>0, <2>3
    DEF WorkerStep, Pop, Recv, RecvNothing, RecvRequest, Send, SendFails, EpollDel, CloseFd,
        SetChannel, Unwatch, Notify, Goto, Return
  <2>4. CASE Return(w)
    BY <1>0, <2>4 DEF Return
  <2>5. CASE Pop(w)
    BY <1>0, <2>1, <2>5 DEF Pop, NumInv
  <2>6. CASE Recv(w)
    <3>1. step'[w] = "recv" /\ \E c \in Conns : buf'[w] \in Fragments(c)
      BY <2>6, RecvPiece DEF Receives, Holds, Recv
    <3> QED
      BY <3>1
  <2>7. CASE RecvRequest(w)
    BY <1>0, <2>1, <2>7 DEF RecvRequest, Goto
  <2>8. CASE Send(w)
    BY <1>0, <2>1, <2>8 DEF Send, Goto, Asker
  <2>9. CASE SendFails(w)
    <3>1. Asker(w) \in gone
      BY <2>9, Handled, VanAssumption DEF SendFails, MayFail
    <3> QED
      BY <1>0, <1>2, <2>1, <2>9, <3>1 DEF SendFails, Goto, Asker
  <2>10. CASE EpollDel(w) \/ SetChannel(w)
    BY <1>0, <1>2, <2>1, <2>10 DEF EpollDel, SetChannel, Goto, Asker
  <2>11. RecvNothing(w) \/ CloseFd(w) \/ Unwatch(w) \/ Notify(w) => Return(w)
    BY DEF RecvNothing, CloseFd, Unwatch, Notify
  <2> QED
    BY <2>2, <2>3, <2>4, <2>5, <2>6, <2>7, <2>8, <2>9, <2>10, <2>11, WorkerSame
    DEF WorkerStep, worker
<1> QED
  BY <1>1, <1>3 DEF BufInv

(* OnceInv: pieces move, but there are no more of them.                    *)
LEMMA OnceNext == IInv /\ SoundChannels /\ [Next]_vars => OnceInv'
<1> SUFFICES ASSUME IInv, SoundChannels, [Next]_vars, NEW c \in Conns
             PROVE  Once(c)'
  BY DEF OnceInv
<1>0. /\ Once(c)
      /\ half \subseteq Conns \cap Split
      /\ owed \subseteq Conns
      /\ asked \in [Conns -> Nat]
      /\ inbox \in [Conns -> Seq(Pieces)]
      /\ step \in [Workers -> {"pop", "recv", "send", "epollDel", "close",
                               "channel", "unwatch", "notify"}]
      /\ num \in [Workers -> Fds \cup {0}]
      /\ buf \in [Workers -> Seq(Pieces)]
  BY DEF IInv, OnceInv, TypeInv, TypeOK, NetworkTypes, WorkerTypes
<1>1. ASSUME UNCHANGED <<asked, owed, half, inbox>>
      PROVE  Once(c)'
  <2>1. ASSUME NEW v \in Workers, Holds(v, c)'
        PROVE  Holds(v, c) /\ num'[v] = num[v] /\ buf'[v] = buf[v] /\ table'[num[v]] = c
    <3>1. ~Recv(v)
      <4>1. ASSUME Recv(v) PROVE FALSE
        <5>1. PICK d \in Conns : /\ Range(inbox[d]) = Range(inbox'[d]) \cup {Head(inbox[d])}
                                 /\ Range(buf'[v]) = Range(buf[v]) \cup {Head(inbox[d])}
                                 /\ Range(buf'[v]) \cap Range(inbox'[d]) = {}
          BY <4>1, RecvPiece DEF Receives
        <5> QED
          BY <1>1, <5>1
      <4> QED
        BY <4>1
    <3> QED
      BY <2>1, <3>1, HeldSame
  <2> QED
    BY <1>0, <1>1, <2>1 DEF Once
<1>2. ASSUME UNCHANGED <<table, worker>>, NEW v \in Workers
      PROVE  /\ Holds(v, c)' <=> Holds(v, c)
             /\ buf'[v] = buf[v] /\ num'[v] = num[v] /\ table'[num[v]] = table[num[v]]
  BY <1>2 DEF Holds, worker
<1>3. ASSUME NEW d \in Conns, Request(d)
      PROVE  Once(c)'
  <2>1. UNCHANGED <<table, worker>>
    BY <1>3 DEF Request
  <2>2. CASE c # d
    <3>1. /\ inbox'[c] = inbox[c] /\ asked'[c] = asked[c]
          /\ c \in owed' <=> c \in owed
          /\ c \in half' <=> c \in half
      BY <1>0, <1>3, <2>2 DEF Request, Arrives
    <3> QED
      BY <1>0, <1>2, <2>1, <3>1 DEF Once
  <2>3. CASE c = d
    <3>1. inbox[c] = <<>> /\ \A w \in Workers : ~Holds(w, c)
      BY <1>3, <2>3, ServedIsNotHeld DEF Request
    <3>2. PICK part : /\ inbox'[c] = Append(<<>>, Piece(c, part))
                      /\ part = IF c \in Split THEN "first" ELSE "whole"
      BY <1>0, <1>3, <2>3, <3>1 DEF Request, Arrives, Piece
    <3>3. Piece(c, "rest") \notin Range(inbox'[c])
      BY <3>2, OnePiece, PieceFacts
    <3>4. c \in owed' /\ asked'[c] # 0
      BY <1>0, <1>3, <2>3 DEF Request
    <3> QED
      BY <1>2, <2>1, <3>1, <3>3, <3>4 DEF Once
  <2> QED
    BY <2>2, <2>3
<1>4. ASSUME NEW d \in Conns, SecondHalf(d)
      PROVE  Once(c)'
  <2>1. UNCHANGED <<table, worker, asked, owed>>
    BY <1>4 DEF SecondHalf
  <2>2. CASE c # d
    <3>1. inbox'[c] = inbox[c] /\ (c \in half' <=> c \in half)
      BY <1>0, <1>4, <2>2 DEF SecondHalf, Arrives
    <3> QED
      BY <1>0, <1>2, <2>1, <3>1 DEF Once
  <2>3. CASE c = d
    <3>1. c \in half /\ c \notin half' /\ c \in Split
      BY <1>0, <1>4, <2>3 DEF SecondHalf
    <3>2. inbox'[c] = Append(inbox[c], Piece(c, "rest"))
      BY <1>0, <1>4, <2>3 DEF SecondHalf, Arrives, Piece
    <3>3. Range(inbox'[c]) = Range(inbox[c]) \cup {Piece(c, "rest")}
      BY <1>0, <3>1, <3>2, SecondPiece DEF Once, IInv, BufInv
    <3> QED
      BY <1>0, <1>2, <2>1, <3>1, <3>3 DEF Once
  <2> QED
    BY <2>2, <2>3
<1>5. ASSUME NEW w \in Workers, Recv(w)
      PROVE  Once(c)'
  <2>1. UNCHANGED <<table, step, num, asked, owed, half>>
    BY <1>5 DEF Recv, epoll
  <2>2. PICK d \in Conns : Receives(w, d)
    BY <1>5, RecvPiece
  <2>3. \A v \in Workers \ {w} : /\ buf'[v] = buf[v]
                                 /\ Holds(v, c)' <=> Holds(v, c)
    BY <2>1, <2>2 DEF Holds, Receives
  <2>4. CASE c # d
    <3>1. ~Holds(w, c)' /\ inbox'[c] = inbox[c]
      BY <2>2, <2>4, FragmentOf DEF Holds, Receives
    <3> QED
      BY <1>0, <2>1, <2>3, <3>1 DEF Once
  <2>5. CASE c = d
    <3>1. inbox[c] # <<>>
      BY <2>2, <2>5, NoPiece DEF Receives
    <3>2. /\ c \in half => Piece(c, "rest") \notin Range(buf'[w]) \cup Range(inbox'[c])
          /\ \A v \in Workers \ {w} : Holds(v, c) => Range(buf'[w]) \cap Range(buf[v]) = {}
      <4>1. CASE buf[w] = <<>>
        BY <1>0, <2>2, <2>5, <4>1, NoPiece DEF Once, Receives
      <4>2. CASE Holds(w, c)
        BY <1>0, <2>2, <2>5, <4>2 DEF Once, Receives
      <4> QED
        BY <2>2, <2>5, <4>1, <4>2 DEF Receives
    <3>3. /\ c \in owed /\ table[num[w]] = c
          /\ Range(inbox'[c]) \subseteq Range(inbox[c])
          /\ Range(buf'[w]) \cap Range(inbox'[c]) = {}
          /\ Piece(c, "first") \notin Range(inbox'[c])
      BY <2>2, <2>5 DEF Receives
    <3>4. \A v \in Workers \ {w} : Holds(v, c)' =>
            /\ table[num[v]] = c
            /\ Range(buf[v]) \cap Range(inbox'[c]) = {}
            /\ c \in half => Piece(c, "rest") \notin Range(buf[v])
            /\ Range(buf[v]) \cap Range(buf'[w]) = {}
            /\ \A u \in Workers \ {v, w} : Holds(u, c)' => Range(buf[v]) \cap Range(buf[u]) = {}
      BY <1>0, <2>3, <3>2, <3>3 DEF Once
    <3>5. c \in owed => asked[c] # 0
      BY <1>0 DEF Once
    <3> QED
      BY <2>1, <2>3, <3>2, <3>3, <3>4, <3>5 DEF Once
  <2> QED
    BY <2>4, <2>5
<1>6. ASSUME NEW w \in Workers, Send(w)
      PROVE  Once(c)'
  <2>1. /\ table[num[w]] = Asker(w)
        /\ Asker(w) \notin half /\ inbox[Asker(w)] = <<>>
        /\ \A v \in Workers \ {w} : ~Holds(v, Asker(w))
    BY <1>6, Handled DEF Send
  <2>2. /\ UNCHANGED <<table, num, buf, asked, half, inbox>>
        /\ owed' = owed \ {Asker(w)}
        /\ step'[w] \in {"channel", "notify"}
        /\ \A v \in Workers \ {w} : step'[v] = step[v]
    BY <1>0, <1>6, <2>1 DEF Send, Goto, epoll
  <2>3. \A v \in Workers : Holds(v, c)' => Holds(v, c) /\ c # Asker(w)
    BY <2>1, <2>2 DEF Holds
  <2> QED
    BY <1>0, <2>1, <2>2, <2>3 DEF Once
<1> QED
  BY <1>1, <1>3, <1>4, <1>5, <1>6, AskedSame

(* A served channel asks no more and stays where it is.                    *)
LEMMA ServedStays ==
  ASSUME IInv, SoundChannels, [Next]_vars, NEW c \in Conns, Served(c)
  PROVE  Served(c)'
<1>0. Bound[c] = 1 /\ c \notin half /\ asked \in [Conns -> Nat]
  BY VanAssumption, ServedIsNotHeld DEF Served, IInv, TypeInv, TypeOK, NetworkTypes
<1>1. CASE UNCHANGED <<asked, owed, half, inbox>>
  BY <1>1 DEF Served
<1>2. ASSUME NEW d \in Conns, Request(d)
      PROVE  Served(c)'
  BY <1>0, <1>2 DEF Request, Served
<1>3. ASSUME NEW d \in Conns, SecondHalf(d)
      PROVE  Served(c)'
  BY <1>3 DEF SecondHalf, Served
<1>4. ASSUME NEW w \in Workers, Recv(w) \/ Send(w)
      PROVE  Served(c)'
  BY <1>4 DEF Recv, Send, Served
<1> QED
  BY <1>1, <1>2, <1>3, <1>4, AskedSame

(* ... because nobody closes it.                                           *)
LEMMA ServedKeepsNumber ==
  ASSUME IInv, SoundChannels, [Next]_vars, NEW f \in Fds, Served(table[f])
  PROVE  table'[f] = table[f]
<1>0. table[f] \in Channels /\ table[f] \in Conns /\ table[f] # NoConn
  BY VanAssumption DEF Served
<1>1. table \in [Fds -> Conns \cup {NoConn}]
  BY DEF IInv, TypeInv, TypeOK, EpollTypes
<1>2. ASSUME NEW c \in Conns, Accept(c)
      PROVE  table'[f] = table[f]
  BY <1>0, <1>1, <1>2 DEF Accept
<1>3. ASSUME NEW w \in Workers, CloseFd(w)
      PROVE  table'[f] = table[f]
  <2>1. table[num[w]] # table[f] /\ num[w] \in Fds
    BY <1>0, <1>3, Handled, CloseAlone DEF CloseFd
  <2> QED
    BY <1>1, <1>3, <2>1 DEF CloseFd, Close
<1> QED
  BY <1>2, <1>3, DescriptorsSame DEF EpollAdd, EpollDel, Unwatch, ControlEpollDel, epoll

(* A worker that has a request has a number that is watched, or is being   *)
(* added, unless it has taken it out itself.                               *)
LEMMA HandledIsWatched ==
  ASSUME IInv, NEW w \in Workers, step[w] \in {"send", "epollDel"}
  PROVE  num[w] \in watched \cup {adding}
<1>1. /\ Asker(w) \in Conns /\ table[num[w]] = Asker(w) /\ num[w] \in Fds
      /\ Asker(w) \in owed
      /\ \A v \in Workers \ {w} : ~Holds(v, Asker(w))
  BY Handled
<1>2. ~Served(Asker(w)) /\ table[num[w]] # NoConn
  BY <1>1, VanAssumption DEF Served
<1>3. ASSUME NEW v \in Workers, step[v] = "close", num[v] = num[w]
      PROVE  FALSE
  <2>1. v # w /\ table[num[v]] = Asker(v) /\ Holds(v, Asker(v))
    BY <1>3, Handled
  <2> QED
    BY <1>1, <1>3, <2>1
<1> QED
  BY <1>1, <1>2, <1>3 DEF IInv, WatchInv

(* EPOLL_CTL_DEL by one worker is not about a number that another one is   *)
(* setting up as a channel.                                                *)
LEMMA SetUpAlone ==
  ASSUME IInv, SoundChannels, NEW w \in Workers, step[w] \in {"channel", "unwatch"},
         NEW v \in Workers \ {w}, step[v] \in {"epollDel", "close", "unwatch"}
  PROVE  num[v] # num[w]
<1>1. Served(Asker(w)) /\ table[num[w]] = Asker(w)
  BY DEF IInv, ChannelInv
<1>2. CASE step[v] = "unwatch"
  BY <1>1, <1>2 DEF IInv, ChannelInv
<1>3. CASE step[v] \in {"epollDel", "close"}
  BY <1>1, <1>3, Handled DEF Served
<1> QED
  BY <1>2, <1>3

(* ChannelInv: a channel is set up by one worker, after its reply.         *)
LEMMA ChannelNext == IInv /\ SoundChannels /\ [Next]_vars => ChannelInv'
<1> SUFFICES ASSUME IInv, SoundChannels, [Next]_vars PROVE ChannelInv'
  OBVIOUS
<1> USE DEF IInv, TypeInv, TypeOK
<1>0. /\ step \in [Workers -> {"pop", "recv", "send", "epollDel", "close",
                               "channel", "unwatch", "notify"}]
      /\ num \in [Workers -> Fds \cup {0}]
      /\ buf \in [Workers -> Seq(Pieces)]
      /\ senderFd \in [Users -> Fds \cup {0}]
      /\ \A w \in Workers : step[w] # "pop" => num[w] \in Fds
  BY DEF WorkerTypes, SenderTypes, NumInv, EpollTypes
<1>1. ASSUME NEW u \in Users, senderFd'[u] # 0
      PROVE  Served(table[senderFd[u]])'
  <2>1. CASE senderFd'[u] = senderFd[u]
    <3>1. PICK f \in Fds : f = senderFd[u]
      BY <1>0, <1>1, <2>1
    <3>2. PICK c : c = table[f]
      OBVIOUS
    <3>3. Served(c) /\ c \in Conns
      BY <1>1, <2>1, <3>1, <3>2, VanAssumption DEF ChannelInv, Served
    <3>4. table'[f] = c /\ Served(c)'
      BY <3>2, <3>3, ServedKeepsNumber, ServedStays
    <3> QED
      BY <2>1, <3>1, <3>4 DEF Served
  <2>2. ASSUME NEW w \in Workers, SetChannel(w), senderFd'[u] # senderFd[u]
        PROVE  Served(table[senderFd[u]])'
    <3>1. PICK f \in Fds : f = num[w] /\ senderFd'[u] = f
      BY <1>0, <2>2 DEF SetChannel
    <3>2. PICK c : c = table[f]
      OBVIOUS
    <3>3. Served(c) /\ c \in Conns
      BY <2>2, <3>1, <3>2, VanAssumption DEF SetChannel, ChannelInv, Served
    <3>4. table'[f] = c /\ Served(c)'
      BY <3>2, <3>3, ServedKeepsNumber, ServedStays
    <3> QED
      BY <3>1, <3>4 DEF Served
  <2>3. ASSUME NEW w \in Workers, Notify(w)
        PROVE  senderFd' = senderFd
    BY <2>3 DEF Notify
  <2>4. ASSUME NEW v \in Users, ThreadStep(v)
        PROVE  senderFd' = senderFd
    BY <2>4 DEF ThreadStep, RunSend, RunAck
  <2> QED
    BY <2>1, <2>2, <2>3, <2>4, SenderSame DEF sender, ThreadStep
<1> DEFINE SetUp(w) == step[w] \in {"channel", "unwatch"}
<1>2. ASSUME NEW w \in Workers, SetUp(w)'
      PROVE  \/ SetUp(w) /\ num'[w] = num[w] /\ buf'[w] = buf[w]
             \/ Send(w) /\ step'[w] = "channel" /\ num'[w] = num[w] /\ buf'[w] = buf[w]
  <2>1. ASSUME NEW v \in Workers \ {w}, WorkerStep(v)
        PROVE  step'[w] = step[w] /\ num'[w] = num[w] /\ buf'[w] = buf[w]
    BY <1>0, <2>1
    DEF WorkerStep, Pop, Recv, RecvNothing, RecvRequest, Send, SendFails, EpollDel, CloseFd,
        SetChannel, Unwatch, Notify, Goto, Return
  <2>2. ~Return(w)
    BY <1>0, <1>2 DEF Return
  <2>3. ASSUME WorkerStep(w)
        PROVE  Send(w) \/ SetChannel(w)
    BY <1>0, <1>2, <2>2, <2>3
    DEF WorkerStep, Pop, Recv, RecvNothing, RecvRequest, SendFails, EpollDel, CloseFd,
        Unwatch, Notify, Goto
  <2>4. CASE Send(w)
    BY <1>0, <1>2, <2>4 DEF Send, Goto
  <2>5. CASE SetChannel(w)
    BY <1>0, <1>2, <2>5 DEF SetChannel, Goto
  <2> QED
    BY <1>2, <2>1, <2>3, <2>4, <2>5, WorkerSame DEF worker
<1>3. ASSUME NEW w \in Workers, Send(w), step'[w] = "channel"
      PROVE  /\ Asker(w) \in Channels /\ asked'[Asker(w)] = 1 /\ Asker(w) \notin owed'
             /\ table'[num[w]] = Asker(w)
             /\ num[w] \in watched' \cup {adding'}
             /\ \A v \in Workers \ {w} : SetUp(v)' => SetUp(v) /\ Asker(v) # Asker(w)
  <2>1. /\ Asker(w) \in Conns /\ table[num[w]] = Asker(w) /\ num[w] \in Fds
        /\ Asker(w) \in owed
    BY <1>3, Handled DEF Send
  <2>2. Asker(w) \in Channels
    BY <1>0, <1>3 DEF Send, Goto
  <2>3. asked[Asker(w)] = 1
    BY <2>1, <2>2, VanAssumption DEF OnceInv, Once, NetworkTypes
  <2>4. num[w] \in watched \cup {adding}
    BY <1>3, HandledIsWatched DEF Send
  <2>5. UNCHANGED <<asked, table, watched, adding>> /\ owed' = owed \ {Asker(w)}
    BY <1>3, <2>1 DEF Send, epoll
  <2>6. ASSUME NEW v \in Workers \ {w}, SetUp(v)'
        PROVE  SetUp(v) /\ Asker(v) # Asker(w)
    <3>1. SetUp(v)
      BY <1>0, <1>3, <2>6 DEF Send, Goto
    <3> QED
      BY <2>1, <3>1 DEF ChannelInv, Served
  <2> QED
    BY <2>1, <2>2, <2>3, <2>4, <2>5, <2>6
<1>4. ASSUME NEW w \in Workers, SetUp(w), SetUp(w)', num'[w] = num[w]
      PROVE  num[w] \in watched' \cup {adding'}
  <2>0. /\ num[w] \in watched \cup {adding} /\ num[w] \in Fds
        /\ table[num[w]] # NoConn
    BY <1>0, <1>4, VanAssumption DEF ChannelInv, Served
  <2>1. ASSUME NEW c \in Conns, Accept(c)
        PROVE  num[w] \in watched'
    BY <2>0, <2>1 DEF Accept, Fds
  <2>2. CASE EpollAdd
    BY <2>0, <2>2 DEF EpollAdd
  <2>3. ASSUME NEW v \in Workers, EpollDel(v) \/ Unwatch(v) \/ CloseFd(v)
        PROVE  num[w] \in watched' \cup {adding'}
    <3>1. v # w
      BY <1>0, <1>4, <2>3 DEF EpollDel, Unwatch, CloseFd, Goto, Return
    <3>2. num[v] # num[w]
      BY <1>4, <2>3, <3>1, SetUpAlone DEF EpollDel, Unwatch, CloseFd
    <3> QED
      BY <2>0, <2>3, <3>2 DEF EpollDel, Unwatch, CloseFd, ControlEpollDel, Close, epoll
  <2> QED
    BY <2>0, <2>1, <2>2, <2>3, DescriptorsSame
<1>5. ASSUME NEW w \in Workers, SetUp(w)'
      PROVE  /\ Served(Asker(w))' /\ table'[num'[w]] = Asker(w)' /\ Asker(w)' = Asker(w)
             /\ num'[w] \in watched' \cup {adding'}
             /\ \A v \in Workers \ {w} : SetUp(v)' => Asker(v)' # Asker(w)'
  <2>1. Asker(w)' = Asker(w)
    BY <1>2, <1>5 DEF Asker
  <2>2. \A v \in Workers : SetUp(v)' => Asker(v)' = Asker(v)
    BY <1>2 DEF Asker
  <2>3. CASE SetUp(w) /\ num'[w] = num[w]
    <3>1. Served(Asker(w)) /\ table[num[w]] = Asker(w) /\ num[w] \in Fds /\ Asker(w) \in Conns
      BY <1>0, <2>3, VanAssumption DEF ChannelInv, Served
    <3>2. PICK c \in Conns : c = Asker(w)
      BY <3>1
    <3>3. Served(c)' /\ table'[num[w]] = c
      BY <3>1, <3>2, ServedStays, ServedKeepsNumber
    <3>4. num'[w] \in watched' \cup {adding'}
      BY <1>4, <1>5, <2>3
    <3>5. ASSUME NEW v \in Workers \ {w}, SetUp(v)'
          PROVE  Asker(v) # Asker(w)
      <4>1. CASE SetUp(v)
        BY <2>3, <4>1 DEF ChannelInv
      <4>2. CASE Send(v) /\ step'[v] = "channel"
        BY <1>3, <1>5, <4>2
      <4> QED
        BY <1>2, <3>5, <4>1, <4>2
    <3> QED
      BY <2>1, <2>2, <2>3, <3>2, <3>3, <3>4, <3>5 DEF Served
  <2>4. CASE Send(w) /\ step'[w] = "channel" /\ num'[w] = num[w]
    BY <1>3, <2>1, <2>2, <2>4 DEF Served
  <2> QED
    BY <1>2, <1>5, <2>3, <2>4
<1> QED
  BY <1>1, <1>5 DEF ChannelInv

(* What leaves epoll is a channel that was served, or is closed next.      *)
LEMMA WatchNext == IInv /\ SoundChannels /\ [Next]_vars => WatchInv'
<1> SUFFICES ASSUME IInv, SoundChannels, [Next]_vars, NEW f \in Fds, table'[f] # NoConn
             PROVE  \/ f \in watched' \cup {adding'}
                    \/ Served(table[f])'
                    \/ \E w \in Workers : step'[w] = "close" /\ num'[w] = f
  BY DEF WatchInv
<1> DEFINE Closing == \E w \in Workers : step[w] = "close" /\ num[w] = f
           Watched == f \in watched \cup {adding}
<1>0. /\ step \in [Workers -> {"pop", "recv", "send", "epollDel", "close",
                               "channel", "unwatch", "notify"}]
      /\ num \in [Workers -> Fds \cup {0}]
      /\ table \in [Fds -> Conns \cup {NoConn}]
      /\ 0 \notin Fds
  BY DEF IInv, TypeInv, TypeOK, WorkerTypes, EpollTypes, Fds
<1>1. ASSUME Served(table[f])
      PROVE  Served(table[f])'
  <2>1. PICK c \in Conns : c = table[f]
    BY <1>1, VanAssumption DEF Served
  <2>2. Served(c)' /\ table'[f] = c
    BY <1>1, <2>1, ServedStays, ServedKeepsNumber
  <2> QED
    BY <2>2 DEF Served
<1>2. ASSUME Closing
      PROVE  Closing'
  <2>1. PICK w \in Workers : step[w] = "close" /\ num[w] = f
    BY <1>2
  <2>2. CASE CloseFd(w)
    BY <1>0, <2>1, <2>2 DEF CloseFd, Close
  <2>3. CASE UNCHANGED worker
    BY <2>1, <2>3 DEF worker
  <2>4. ASSUME NEW v \in Workers \ {w}, WorkerStep(v)
        PROVE  step'[w] = step[w] /\ num'[w] = num[w]
    BY <1>0, <2>4
    DEF WorkerStep, Pop, Recv, RecvNothing, RecvRequest, Send, SendFails, EpollDel, CloseFd,
        SetChannel, Unwatch, Notify, Goto, Return
  <2>5. WorkerStep(w) => CloseFd(w)
    BY <2>1 DEF WorkerStep, Pop, Recv, RecvNothing, RecvRequest, Send, SendFails, EpollDel,
                SetChannel, Unwatch, Notify
  <2> QED
    BY <2>1, <2>2, <2>3, <2>4, <2>5, WorkerSame
<1>3. ASSUME Watched, table[f] # NoConn
      PROVE  Watched' \/ Closing' \/ Served(table[f])'
  <2>1. ASSUME NEW c \in Conns, Accept(c)
        PROVE  Watched'
    BY <1>0, <1>3, <2>1 DEF Accept
  <2>2. CASE EpollAdd
    BY <1>0, <1>3, <2>2 DEF EpollAdd
  <2>3. ASSUME NEW w \in Workers, EpollDel(w)
        PROVE  Watched' \/ Closing'
    BY <1>0, <1>3, <2>3 DEF EpollDel, ControlEpollDel, Goto, epoll
  <2>4. ASSUME NEW w \in Workers, Unwatch(w)
        PROVE  Watched' \/ Served(table[f])'
    <3>1. num[w] = f => Served(table[f])
      BY <2>4 DEF Unwatch, IInv, ChannelInv
    <3>2. num[w] # f => Watched'
      BY <1>3, <2>4 DEF Unwatch, ControlEpollDel, epoll
    <3> QED
      BY <1>1, <3>1, <3>2
  <2>5. ASSUME NEW w \in Workers, CloseFd(w)
        PROVE  Watched'
    BY <1>0, <1>3, <2>5 DEF CloseFd, Close
  <2> QED
    BY <1>3, <2>1, <2>2, <2>3, <2>4, <2>5, DescriptorsSame
<1>4. CASE table[f] # NoConn
  BY <1>1, <1>2, <1>3, <1>4 DEF IInv, WatchInv
<1>5. CASE table[f] = NoConn
  <2>1. ASSUME NEW c \in Conns, Accept(c)
        PROVE  Watched'
    BY <1>0, <1>5, <2>1 DEF Accept
  <2>2. ASSUME NEW w \in Workers, CloseFd(w)
        PROVE  FALSE
    BY <1>0, <1>5, <2>2 DEF CloseFd, Close
  <2> QED
    BY <1>5, <2>1, <2>2, DescriptorsSame
    DEF EpollAdd, EpollDel, Unwatch, ControlEpollDel, epoll
<1> QED
  BY <1>4, <1>5

(* The inductive invariant, for channels whose clients do not go away.     *)
LEMMA IInvInit == Init => IInv
<1> SUFFICES ASSUME Init PROVE IInv
  OBVIOUS
<1>1. BufInv /\ OnceInv
  BY FragmentOf DEF Init, BufInv, OnceInv, Once, Holds
<1>2. ChannelInv /\ WatchInv
  BY DEF Init, ChannelInv, WatchInv
<1> QED
  BY <1>1, <1>2, TypeInit DEF IInv

(* Every step keeps it, as long as channels are sound.                     *)
LEMMA IInvNext == SoundChannels /\ IInv /\ [Next]_vars => IInv'
  BY TypeNext, BufNext, OnceNext, ChannelNext, WatchNext DEF IInv

(* It holds of every reachable state.                                      *)
LEMMA IInvAlways == SoundChannels => (Spec => []IInv)
<1> SUFFICES ASSUME SoundChannels PROVE Spec => []IInv
  OBVIOUS
<1>1. IInv /\ [Next]_vars => IInv'
  BY IInvNext
<1> QED
  BY <1>1, IInvInit, PTL DEF Spec

(* While a worker has a request, the number it came on stays with the      *)
(* connection that made it, whichever other client goes away and however   *)
(* many descriptors are closed and given out again (Server.cpp:528).       *)
THEOREM RepliesGoToAskers == SoundChannels => (Spec => []ReplyToAsker)
<1> SUFFICES ASSUME SoundChannels PROVE Spec => []ReplyToAsker
  OBVIOUS
<1>1. IInv => ReplyToAsker
  BY Handled DEF ReplyToAsker
<1> QED
  BY <1>1, IInvAlways, PTL

(* An open descriptor that epoll does not watch is being added to it, is a *)
(* channel's, or is closed by the worker that has just taken it out.       *)
THEOREM OpenAreWatched == SoundChannels => (Spec => []OpenIsWatched)
<1> SUFFICES ASSUME SoundChannels PROVE Spec => []OpenIsWatched
  OBVIOUS
<1>1. IInv => OpenIsWatched
  BY DEF IInv, WatchInv, OpenIsWatched, Served
<1> QED
  BY <1>1, IInvAlways, PTL
-----------------------------------------------------------------------------
(* Accept gives out a new number, or one more connection than there are    *)
(* numbers has been accepted; nothing takes either back.                   *)
LEMMA CountNext ==
  ASSUME TypeInv, FreshInv, [Next]_vars
  PROVE  /\ Cardinality(given') <= Cardinality(Accepted')
         /\ Reused => Reused'
         /\ \A c \in Conns : Accept(c) => Reused' \/ adding' \notin given
<1>0. /\ stage \in [Conns -> {"none", "backlog", "accepted", "closed"}]
      /\ table \in [Fds -> Conns \cup {NoConn}]
      /\ given \subseteq Fds /\ NoConn \notin Conns
      /\ \A f \in Fds : table[f] # NoConn => stage[table[f]] = "accepted"
      /\ \A w \in Workers : step[w] # "pop" => num[w] \in Fds
      /\ \A u \in Users : senderFd[u] # 0 => senderFd[u] \in Fds
      /\ \A u \in acking : senderFd[u] # 0
  BY VanAssumption
  DEF TypeInv, TypeOK, NetworkTypes, EpollTypes, SenderTypes, NumInv
<1>1. IsFiniteSet(Accepted) /\ IsFiniteSet(given)
  <2>1. IsFiniteSet(Conns)
    BY VanAssumption
  <2>2. Cardinality(Conns) \in Nat
    BY <2>1, FS_CardinalityType
  <2>3. IsFiniteSet(Fds)
    BY <2>2, FS_Interval DEF Fds
  <2> QED
    BY <1>0, <2>1, <2>3, FS_Subset DEF Accepted
<1>2. Cardinality(Accepted) \in Nat /\ Cardinality(given) \in Nat
  BY <1>1, FS_CardinalityType
<1>3. Reused <=> Cardinality(Accepted) > Cardinality(given)
  BY DEF Reused, Accepted
<1>4. Reused' <=> Cardinality(Accepted') > Cardinality(given')
  BY DEF Reused, Accepted
<1>5. ASSUME NEW c \in Conns, Accept(c)
      PROVE  /\ Cardinality(given') <= Cardinality(Accepted')
             /\ Reused => Reused'
             /\ Reused' \/ adding' \notin given
  <2>1. Accepted' = Accepted \cup {c} /\ c \notin Accepted
    BY <1>0, <1>5 DEF Accept, Accepted
  <2>2. Cardinality(Accepted') = Cardinality(Accepted) + 1
    BY <1>1, <2>1, FS_AddElement
  <2>3. given' = given \cup {adding'}
    BY <1>5 DEF Accept
  <2>4. Cardinality(given') = IF adding' \in given THEN Cardinality(given)
                                                  ELSE Cardinality(given) + 1
    BY <1>1, <2>3, FS_AddElement
  <2> QED
    BY <1>2, <1>3, <1>4, <2>2, <2>4 DEF FreshInv
<1>6. ASSUME NEW f \in Fds, Close(f)
      PROVE  Accepted' = Accepted /\ given' = given
  BY <1>0, <1>6 DEF Close, Accepted
<1>7. ASSUME NEW u \in Users, RunSend(u) \/ RunAck(u)
      PROVE  Accepted' = Accepted /\ given' = given
  <2>1. senderFd[u] \in Fds
    BY <1>0, <1>7 DEF RunSend, RunAck
  <2>2. UNCHANGED <<stage, epoll>> \/ Close(senderFd[u])
    BY <1>7 DEF RunSend, RunAck
  <2> QED
    BY <1>6, <2>1, <2>2 DEF Accepted, epoll
<1>8. ASSUME NEW w \in Workers, CloseFd(w)
      PROVE  Accepted' = Accepted /\ given' = given
  BY <1>0, <1>6, <1>8 DEF CloseFd
<1>9. ASSUME \A c \in Conns : ~Accept(c)
      PROVE  Accepted' = Accepted
  <2>1. ASSUME NEW c \in Conns, Connect(c) \/ Request(c) \/ SecondHalf(c) \/ GoAway(c)
        PROVE  Accepted' = Accepted
    BY <1>0, <2>1 DEF Connect, Request, SecondHalf, GoAway, Accepted
  <2>2. ASSUME NEW w \in Workers, Recv(w) \/ Send(w)
        PROVE  Accepted' = Accepted
    BY <2>2 DEF Recv, Send, Accepted
  <2> QED
    BY <1>7, <1>8, <1>9, <2>1, <2>2, NetworkSame DEF network, Accepted
<1>10. ASSUME \A c \in Conns : ~Accept(c)
       PROVE  given' = given
  <2>1. ASSUME NEW c \in Conns, Request(c) \/ SecondHalf(c) \/ GoAway(c)
        PROVE  given' = given
    BY <2>1 DEF Request, SecondHalf, GoAway
  <2>2. ASSUME EpollAdd \/ \E f \in Fds : Event(f)
        PROVE  given' = given
    BY <2>2 DEF EpollAdd, Event
  <2>3. ASSUME NEW w \in Workers, Pop(w) \/ EpollDel(w) \/ Unwatch(w)
        PROVE  given' = given
    BY <2>3 DEF Pop, EpollDel, Unwatch, ControlEpollDel, epoll
  <2> QED
    BY <1>7, <1>8, <1>10, <2>1, <2>2, <2>3, EpollSame DEF epoll
<1>11. CASE \A c \in Conns : ~Accept(c)
  BY <1>3, <1>4, <1>9, <1>10, <1>11 DEF FreshInv
<1>12. CASE \E c \in Conns : Accept(c)
  BY <1>5, <1>12
<1> QED
  BY <1>5, <1>11, <1>12

(* FreshInv: only a number that is given out again is known to anybody.    *)
LEMMA FreshNext == SoundChannels /\ IInv /\ FreshInv /\ [Next]_vars => FreshInv'
<1> SUFFICES ASSUME SoundChannels, IInv, FreshInv, [Next]_vars, adding' # 0, ~Reused'
             PROVE  /\ table'[adding'] # NoConn
                    /\ adding' \notin Range(recvQueue')
                    /\ \A w \in Workers : num'[w] # adding'
  BY CountNext DEF FreshInv, IInv
<1> DEFINE Fresh == /\ table[adding] # NoConn
                    /\ adding \notin Range(recvQueue)
                    /\ \A w \in Workers : num[w] # adding
<1>0. /\ step \in [Workers -> {"pop", "recv", "send", "epollDel", "close",
                               "channel", "unwatch", "notify"}]
      /\ num \in [Workers -> Fds \cup {0}]
      /\ table \in [Fds -> Conns \cup {NoConn}]
      /\ recvQueue \in Seq(given) /\ NoConn \notin Conns /\ 0 \notin given
      /\ \A w \in Workers : num[w] \in given \cup {0}
      /\ NumInv /\ TypeInv
  BY VanAssumption DEF IInv, TypeInv, TypeOK, WorkerTypes, EpollTypes, NumInv, Fds
<1>1. ~Reused
  BY <1>0, CountNext
<1>2. adding # 0 => Fresh
  BY <1>1 DEF FreshInv
<1>3. ASSUME NEW c \in Conns, Accept(c)
      PROVE  Fresh'
  <2>1. adding' \notin given
    BY <1>0, <1>3, CountNext
  <2>2. adding' \notin Range(recvQueue)
    BY <1>0, <2>1 DEF Range
  <2>3. \A w \in Workers : num[w] # adding'
    BY <1>0, <2>1
  <2>4. table'[adding'] = c
    BY <1>0, <1>3 DEF Accept
  <2> QED
    BY <1>0, <1>3, <2>2, <2>3, <2>4 DEF Accept, worker
<1>4. ASSUME NEW w \in Workers, Pop(w)
      PROVE  Fresh'
  <2>1. adding' = adding /\ UNCHANGED table
    BY <1>4 DEF Pop, epoll
  <2>2. Head(recvQueue) \in Range(recvQueue) /\ Range(Tail(recvQueue)) \subseteq Range(recvQueue)
    <3>1. /\ DOMAIN recvQueue = 1..Len(recvQueue) /\ Len(recvQueue) \in Nat \ {0}
          /\ DOMAIN Tail(recvQueue) = 1..(Len(recvQueue) - 1)
          /\ \A i \in 1..(Len(recvQueue) - 1) : Tail(recvQueue)[i] = recvQueue[i + 1]
          /\ Head(recvQueue) = recvQueue[1]
      BY <1>0, <1>4 DEF Pop
    <3>2. \A i \in 1..(Len(recvQueue) - 1) : i + 1 \in 1..Len(recvQueue)
      BY <3>1
    <3> QED
      BY <3>1, <3>2 DEF Range
  <2>3. Fresh
    BY <1>2, <2>1
  <2> QED
    BY <1>0, <1>4, <2>1, <2>2, <2>3 DEF Pop
<1>5. ASSUME NEW f \in Fds, Close(f), adding # f, adding \in Fds, Fresh
      PROVE  table'[adding] # NoConn
  BY <1>0, <1>5 DEF Close
<1>6. ASSUME NEW w \in Workers, WorkerStep(w), ~Pop(w)
      PROVE  Fresh'
  <2>1. /\ UNCHANGED <<adding, recvQueue>>
        /\ \A v \in Workers : num'[v] \in {num[v], 0}
    BY <1>0, <1>6
    DEF WorkerStep, Recv, RecvNothing, RecvRequest, Send, SendFails, EpollDel, CloseFd,
        SetChannel, Unwatch, Notify, Goto, Return
  <2>2. Fresh
    BY <1>2, <2>1
  <2>3. CASE CloseFd(w)
    <3>1. num[w] \in Fds /\ num[w] # adding /\ adding \in Fds
      BY <1>0, <2>1, <2>2, <2>3 DEF CloseFd, NumInv, TypeInv, TypeOK, EpollTypes
    <3> QED
      BY <1>5, <2>1, <2>2, <2>3, <3>1 DEF CloseFd
  <2>4. CASE ~CloseFd(w)
    <3>1. UNCHANGED table
      BY <1>6, <2>4
      DEF WorkerStep, Recv, RecvNothing, RecvRequest, Send, SendFails, EpollDel,
          SetChannel, Unwatch, Notify, ControlEpollDel, epoll
    <3> QED
      BY <2>1, <2>2, <3>1
  <2> QED
    BY <2>3, <2>4
<1>7. ASSUME UNCHANGED <<adding, recvQueue, worker, table>>
      PROVE  Fresh'
  BY <1>2, <1>7 DEF worker
<1>8. ASSUME NEW u \in Users, ThreadStep(u)
      PROVE  Fresh'
  BY <1>7, <1>8, SendersKeep DEF epoll
<1>9. ASSUME NEW c \in Conns,
             Connect(c) \/ Request(c) \/ SecondHalf(c) \/ GoAway(c) \/ AcceptUnbound(c)
      PROVE  UNCHANGED <<adding, recvQueue, worker, table>>
  BY <1>9 DEF Connect, Request, SecondHalf, GoAway, AcceptUnbound, epoll
<1>10. UNCHANGED vars \/ BindServer => UNCHANGED <<adding, recvQueue, worker, table>>
  BY DEF vars, BindServer, epoll
<1>11. ~EpollAdd /\ \A f \in Fds : ~Event(f)
  BY DEF EpollAdd, Event
<1> QED
  BY <1>3, <1>4, <1>6, <1>7, <1>8, <1>9, <1>10, <1>11 DEF Next, AcceptingStep

(* The steps that can end the process do so only for a good reason.        *)
LEMMA FatalNext ==
  SoundChannels /\ IInv /\ FreshInv /\ FatalNeedsReuse /\ [Next]_vars => FatalNeedsReuse'
<1> SUFFICES ASSUME SoundChannels, IInv, FreshInv, FatalNeedsReuse, [Next]_vars, crashed'
             PROVE  ~bound' \/ Reused'
  BY DEF FatalNeedsReuse
<1>0. Reused => Reused'
  BY CountNext DEF IInv
<1>1. CASE UNCHANGED vars
  <2>1. UNCHANGED <<bound, crashed, stage, given>>
    BY <1>1 DEF vars, network, epoll
  <2> QED
    BY <1>0, <2>1 DEF FatalNeedsReuse
<1> SUFFICES ASSUME Next PROVE ~bound' \/ Reused'
  BY <1>1
<1>2. ~crashed
  BY DEF Next
<1>3. ASSUME NEW c \in Conns, AcceptUnbound(c)
      PROVE  ~bound'
  BY <1>3 DEF AcceptUnbound
<1>4. CASE EpollAdd
  <2>1. adding # 0 /\ table[adding] = NoConn
    BY <1>2, <1>4 DEF EpollAdd
  <2> QED
    BY <1>0, <2>1 DEF FreshInv
<1>5. ASSUME NEW w \in Workers, EpollDel(w) \/ Unwatch(w)
      PROVE  Reused'
  <2>1. num[w] \notin watched
    BY <1>2, <1>5 DEF EpollDel, Unwatch, ControlEpollDel
  <2>2. num[w] \in watched \cup {adding}
    BY <1>5, HandledIsWatched DEF EpollDel, Unwatch, IInv, ChannelInv
  <2>3. num[w] # 0
    <3>1. num[w] \in given /\ 0 \notin given
      BY <1>5 DEF EpollDel, Unwatch, IInv, TypeInv, TypeOK, EpollTypes, NumInv, Fds
    <3> QED
      BY <3>1
  <2> QED
    BY <1>0, <2>1, <2>2, <2>3 DEF FreshInv
<1>6. ASSUME NEW c \in Conns, Connect(c) \/ Request(c) \/ SecondHalf(c) \/ GoAway(c) \/ Accept(c)
      PROVE  crashed' = crashed
  BY <1>6 DEF Connect, Request, SecondHalf, GoAway, Accept
<1>7. BindServer \/ (\E f \in Fds : Event(f)) => crashed' = crashed
  BY DEF BindServer, Event
<1>8. ASSUME NEW w \in Workers, WorkerStep(w), ~EpollDel(w), ~Unwatch(w)
      PROVE  crashed' = crashed
  BY <1>8
  DEF WorkerStep, Pop, Recv, RecvNothing, RecvRequest, Send, SendFails, CloseFd, SetChannel, Notify
<1>9. ASSUME NEW u \in Users, ThreadStep(u)
      PROVE  crashed' = crashed
  BY <1>9 DEF ThreadStep, RunSend, RunAck
<1> QED
  BY <1>2, <1>3, <1>4, <1>5, <1>6, <1>7, <1>8, <1>9 DEF Next, AcceptingStep

(* Once the user manager is bound, EPOLL_CTL_ADD and EPOLL_CTL_DEL end the *)
(* process only after the kernel has given a number out twice              *)
(* (server_van.h:61-70).                                                   *)
THEOREM FatalNeedsReusedNumber == SoundChannels => (Spec => []FatalNeedsReuse)
<1> SUFFICES ASSUME SoundChannels PROVE Spec => []FatalNeedsReuse
  OBVIOUS
<1>1. Init => FreshInv /\ FatalNeedsReuse
  <2> SUFFICES ASSUME Init PROVE FreshInv /\ FatalNeedsReuse
    OBVIOUS
  <2>1. given = {} /\ Accepted = {}
    BY DEF Init, Accepted
  <2>2. Cardinality(given) <= Cardinality(Accepted)
    BY <2>1, FS_EmptySet
  <2> QED
    BY <2>2 DEF Init, FreshInv, FatalNeedsReuse
<1>2. IInv /\ FreshInv /\ FatalNeedsReuse /\ [Next]_vars => FreshInv' /\ FatalNeedsReuse'
  BY FreshNext, FatalNext
<1> QED
  BY <1>1, <1>2, IInvAlways, PTL DEF Spec
-----------------------------------------------------------------------------
(* A sender has the number of a channel of its user.                       *)
OwnerInv == \A u \in Users : senderFd[u] # 0 => Owner[table[senderFd[u]]] = u

(* SetChannel stores the number under the user that the channel is of.     *)
LEMMA OwnerNext ==
  SoundChannels /\ IInv /\ OwnerInv /\ PacketGoesToOwner /\ [Next]_vars
    => OwnerInv' /\ PacketGoesToOwner'
<1> SUFFICES ASSUME SoundChannels, IInv, OwnerInv, PacketGoesToOwner, [Next]_vars
             PROVE  OwnerInv' /\ PacketGoesToOwner'
  OBVIOUS
<1>0. /\ senderFd \in [Users -> Fds \cup {0}]
      /\ sentOn \in [Users -> SUBSET Conns]
  BY DEF IInv, TypeInv, TypeOK, SenderTypes
<1>1. ASSUME NEW u \in Users, senderFd[u] # 0
      PROVE  table'[senderFd[u]] = table[senderFd[u]]
  BY <1>0, <1>1, ServedKeepsNumber DEF IInv, ChannelInv
<1>2. CASE UNCHANGED <<senderFd, sentOn>>
  BY <1>1, <1>2 DEF OwnerInv, PacketGoesToOwner
<1>3. ASSUME NEW w \in Workers, SetChannel(w)
      PROVE  OwnerInv' /\ PacketGoesToOwner'
  <2>1. PICK v : /\ v = Owner[Asker(w)] /\ senderFd' = [senderFd EXCEPT ![v] = num[w]]
                 /\ UNCHANGED <<table, sentOn>>
    BY <1>3 DEF SetChannel, epoll
  <2>2. table[num[w]] = Asker(w)
    BY <1>3 DEF SetChannel, IInv, ChannelInv
  <2> QED
    BY <1>0, <2>1, <2>2 DEF OwnerInv, PacketGoesToOwner
<1>4. ASSUME NEW u \in Users, RunSend(u)
      PROVE  OwnerInv' /\ PacketGoesToOwner'
  <2>1. senderFd[u] # 0 /\ senderFd' = senderFd
    BY <1>4 DEF RunSend
  <2>2. Served(table[senderFd[u]]) /\ Owner[table[senderFd[u]]] = u
    BY <2>1 DEF OwnerInv, IInv, ChannelInv
  <2>3. sentOn' = sentOn \/ sentOn' = [sentOn EXCEPT ![u] = @ \cup {table[senderFd[u]]}]
    BY <1>4 DEF RunSend
  <2> QED
    BY <1>0, <1>1, <2>1, <2>2, <2>3 DEF OwnerInv, PacketGoesToOwner, Served
<1>5. ASSUME NEW u \in Users, RunAck(u)
      PROVE  UNCHANGED <<senderFd, sentOn>>
  BY <1>5 DEF RunAck
<1>6. ASSUME NEW w \in Workers, Notify(w)
      PROVE  UNCHANGED <<senderFd, sentOn>>
  BY <1>6 DEF Notify
<1> QED
  BY <1>2, <1>3, <1>4, <1>5, <1>6, SenderSame DEF sender

(* What is sent to a user goes out on a channel of his, as user_manager.h  *)
(* has it: it takes a channel that breaks to make a sender send elsewhere. *)
THEOREM SoundPacketsGoToOwner == SoundChannels => (Spec => []PacketGoesToOwner)
<1> SUFFICES ASSUME SoundChannels PROVE Spec => []PacketGoesToOwner
  OBVIOUS
<1>1. Init => OwnerInv /\ PacketGoesToOwner
  BY DEF Init, OwnerInv, PacketGoesToOwner
<1>2. IInv /\ OwnerInv /\ PacketGoesToOwner /\ [Next]_vars => OwnerInv' /\ PacketGoesToOwner'
  BY OwnerNext
<1> QED
  BY <1>1, <1>2, IInvAlways, PTL DEF Spec
=============================================================================
