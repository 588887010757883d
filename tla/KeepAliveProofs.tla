-------------------------- MODULE KeepAliveProofs --------------------------
(***************************************************************************)
(* Proofs about KeepAlive for any number of workers, users, connections    *)
(* and packets: types, that an ack is read from the connection its packet  *)
(* was sent on, and that a channel's first contact list is never lost.     *)
(***************************************************************************)
EXTENDS KeepAlive, SequenceTheorems, TLAPS

(* The map is locked exactly by the worker that replaces a channel.        *)
MapLock == \A w \in Workers : mapMu = w <=> op[w] \in {"setFd", "clear"}

(* mu_ is held by the thread exactly from Send to the ack.                 *)
ThreadLock == \A u \in Uids : mu[u] <=> run[u] \in {"send", "ack"}

(* A user has a sender thread exactly when the map has a sender.           *)
ThreadRuns == \A u \in Uids : run[u] # "none" <=> HasSender(u)

(* A thread past WaitAndPop has a packet in hand.                          *)
HandFull == \A u \in Uids : run[u] \in {"lock", "send"} => hand[u] \in Packets

(* What a worker needs for its next step is there.                         *)
ArgReady(w) ==
  /\ op[w] \in {"setKpAliveSender", "setFd"} => arg[w].conn \in Conns
  /\ op[w] \in {"setFd", "clear", "push"} => HasSender(arg[w].user)
  /\ op[w] \in {"isOnline", "getSender", "push"} => arg[w].pkt \in Packets

IInv == /\ TypeOK /\ MapLock /\ ThreadLock /\ ThreadRuns /\ HandFull
        /\ \A w \in Workers : ArgReady(w)
        /\ AckFromSameChannel /\ ContactListOwed

(* ContactListOwed for one user.                                           *)
Owed(u) == HasSender(u) =>
             \/ fd[u] \in closed
             \/ sent[fd[u]] \cap Lists # {}
             \/ Range(queue[u]) \cap Lists # {}
             \/ InHand(u)
             \/ \E w \in Workers : arg[w].user = u /\ OwesList(w)
-----------------------------------------------------------------------------
(* What Append adds to the elements of a queue.                            *)
LEMMA RangeAppend ==
  ASSUME NEW S, NEW s \in Seq(S), NEW e \in S
  PROVE  Range(Append(s, e)) = Range(s) \cup {e}
<1>1. /\ DOMAIN s = 1..Len(s) /\ Len(s) \in Nat
      /\ DOMAIN Append(s, e) = 1..(Len(s) + 1)
      /\ \A i \in 1..Len(s) : Append(s, e)[i] = s[i]
      /\ Append(s, e)[Len(s) + 1] = e
  BY AppendProperties, LenProperties
<1>2. Range(Append(s, e)) \subseteq Range(s) \cup {e}
  BY <1>1 DEF Range
<1>3. Range(s) \cup {e} \subseteq Range(Append(s, e))
  BY <1>1 DEF Range
<1> QED
  BY <1>2, <1>3

(* What a pop takes from the elements of a queue.                          *)
LEMMA RangeHeadTail ==
  ASSUME NEW S, NEW s \in Seq(S), s # <<>>
  PROVE  Range(s) \subseteq {Head(s)} \cup Range(Tail(s))
<1>1. /\ DOMAIN s = 1..Len(s) /\ Len(s) \in Nat
      /\ DOMAIN Tail(s) = 1..(Len(s) - 1)
      /\ \A i \in 1..(Len(s) - 1) : Tail(s)[i] = s[i + 1]
      /\ Head(s) = s[1]
  BY HeadTailProperties, LenProperties
<1> SUFFICES ASSUME NEW i \in 1..Len(s), i # 1
             PROVE  s[i] \in Range(Tail(s))
  BY <1>1 DEF Range
<1>2. i - 1 \in 1..(Len(s) - 1) /\ s[i] = Tail(s)[i - 1]
  BY <1>1
<1> QED
  BY <1>1, <1>2 DEF Range
-----------------------------------------------------------------------------
(* The inductive invariant holds when nobody is connected.                 *)
LEMMA IInvInit == Init => IInv
<1> SUFFICES ASSUME Init PROVE IInv
  OBVIOUS
<1> USE KeepAliveAssumption DEF Init, Uids, HasSender, NoArg
<1>1. TypeOK
  BY EmptySeq DEF TypeOK, Args
<1>2. MapLock /\ ThreadLock /\ ThreadRuns /\ HandFull
  BY DEF MapLock, ThreadLock, ThreadRuns, HandFull
<1>3. \A w \in Workers : ArgReady(w)
  BY DEF ArgReady
<1>4. AckFromSameChannel /\ ContactListOwed
  BY DEF AckFromSameChannel, ContactListOwed
<1> QED
  BY <1>1, <1>2, <1>3, <1>4 DEF IInv

(* Starting a callback.                                                    *)
LEMMA IInvStart ==
  ASSUME IInv, NEW w \in Workers,
         \/ \E u \in Uids, c \in Conns : SetupChannel(w, u, c)
         \/ \E u \in Users, n \in Notes : Notify(w, u, n)
  PROVE  IInv'
<1> USE KeepAliveAssumption DEF IInv, TypeOK, Goto
<1>1. PICK a \in Args, l \in {"setKpAliveSender", "isOnline"} :
        /\ op[w] = "idle"
        /\ op' = [op EXCEPT ![w] = l] /\ arg' = [arg EXCEPT ![w] = a]
        /\ l = "setKpAliveSender" => a.conn \in Conns
        /\ l = "isOnline" => a.pkt \in Packets
        /\ channels' \in SUBSET Conns
        /\ UNCHANGED <<mapMu, fd, mu, queue, run, hand, on, sent, closed>>
  <2>1. ASSUME NEW u \in Uids, NEW c \in Conns, SetupChannel(w, u, c)
        PROVE  [user |-> u, conn |-> c, pkt |-> NoPkt] \in Args
    BY DEF Args
  <2>2. ASSUME NEW u \in Users, NEW n \in Notes, Notify(w, u, n)
        PROVE  [user |-> u, conn |-> NoConn, pkt |-> n] \in Args
    BY DEF Args, Uids, Packets
  <2> QED
    BY <2>1, <2>2 DEF SetupChannel, Notify, Packets
<1>2. TypeOK'
  BY <1>1
<1>3. MapLock' /\ ThreadLock' /\ ThreadRuns' /\ HandFull' /\ AckFromSameChannel'
  BY <1>1 DEF MapLock, ThreadLock, ThreadRuns, HandFull, AckFromSameChannel, HasSender
<1>4. ASSUME NEW v \in Workers PROVE ArgReady(v)'
  BY <1>1 DEF ArgReady, HasSender
<1>5. ContactListOwed'
  BY <1>1 DEF ContactListOwed, HasSender, InHand, OwesList
<1> QED
  BY <1>2, <1>3, <1>4, <1>5

(* setKpAliveSender, in its four steps.                                    *)
LEMMA IInvSetKpAliveSender ==
  ASSUME IInv, NEW w \in Workers,
         NewSender(w) \/ OldSender(w) \/ SetFd(w) \/ Clear(w)
  PROVE  IInv'
<1> USE KeepAliveAssumption DEF IInv, TypeOK, Goto
<1>1. arg[w].user \in Uids /\ arg' = arg /\ hand' = hand
  BY DEF Args, NewSender, OldSender, SetFd, Clear
<1>2. CASE NewSender(w)
  <2>1. arg[w].conn \in Conns
    BY <1>2 DEF NewSender, ArgReady
  <2>2. TypeOK'
    BY <1>1, <1>2, <2>1 DEF NewSender
  <2>3. MapLock' /\ ThreadLock' /\ ThreadRuns' /\ HandFull' /\ AckFromSameChannel'
    BY <1>1, <1>2, <2>1 DEF NewSender, MapLock, ThreadLock, ThreadRuns, HandFull,
                            AckFromSameChannel, HasSender
  <2>4. ASSUME NEW v \in Workers PROVE ArgReady(v)'
    BY <1>1, <1>2, <2>1 DEF NewSender, ArgReady, HasSender, Args
  <2>5. ContactListOwed'
    <3> SUFFICES ASSUME NEW u \in Users PROVE Owed(u)'
      BY DEF ContactListOwed, Owed
    <3>1. CASE u = arg[w].user
      BY <1>1, <1>2, <3>1 DEF NewSender, Owed, OwesList
    <3>2. CASE u # arg[w].user
      <4>1. Owed(u)
        BY DEF ContactListOwed, Owed
      <4> QED
        BY <1>1, <1>2, <3>2, <4>1 DEF NewSender, Owed, HasSender, InHand, OwesList, Uids
    <3> QED
      BY <3>1, <3>2
  <2> QED
    BY <2>2, <2>3, <2>4, <2>5
<1>3. CASE OldSender(w)
  <2>1. TypeOK'
    BY <1>1, <1>3 DEF OldSender
  <2>2. MapLock' /\ ThreadLock' /\ ThreadRuns' /\ HandFull' /\ AckFromSameChannel'
    BY <1>1, <1>3 DEF OldSender, MapLock, ThreadLock, ThreadRuns, HandFull,
                      AckFromSameChannel, HasSender
  <2>3. ASSUME NEW v \in Workers PROVE ArgReady(v)'
    BY <1>1, <1>3 DEF OldSender, ArgReady, HasSender
  <2>4. ContactListOwed'
    <3> SUFFICES ASSUME NEW u \in Users PROVE Owed(u)'
      BY DEF ContactListOwed, Owed
    <3>1. Owed(u)
      BY DEF ContactListOwed, Owed
    <3>2. ASSUME NEW v \in Workers, OwesList(v) PROVE OwesList(v)'
      BY <1>1, <1>3, <3>2 DEF OldSender, OwesList
    <3> QED
      BY <1>1, <1>3, <3>1, <3>2 DEF OldSender, Owed, HasSender, InHand
  <2> QED
    BY <2>1, <2>2, <2>3, <2>4
<1>4. CASE SetFd(w)
  <2>1. arg[w].conn \in Conns
    BY <1>4 DEF SetFd, ArgReady
  <2>2. TypeOK'
    BY <1>1, <1>4, <2>1 DEF SetFd
  <2>3. MapLock' /\ ThreadLock' /\ HandFull'
    BY <1>1, <1>4 DEF SetFd, MapLock, ThreadLock, HandFull
  <2>4. ThreadRuns'
    BY <1>1, <1>4, <2>1 DEF SetFd, ThreadRuns, ArgReady, HasSender
  <2>5. AckFromSameChannel'
    BY <1>1, <1>4 DEF SetFd, ThreadLock, AckFromSameChannel
  <2>6. ASSUME NEW v \in Workers PROVE ArgReady(v)'
    BY <1>1, <1>4, <2>1 DEF SetFd, ArgReady, HasSender, Args
  <2>7. ContactListOwed'
    <3> SUFFICES ASSUME NEW u \in Users PROVE Owed(u)'
      BY DEF ContactListOwed, Owed
    <3>1. CASE u = arg[w].user
      BY <1>1, <1>4, <3>1 DEF SetFd, Owed, OwesList
    <3>2. CASE u # arg[w].user
      <4>1. Owed(u)
        BY DEF ContactListOwed, Owed
      <4> QED
        BY <1>1, <1>4, <3>2, <4>1 DEF SetFd, Owed, HasSender, InHand, OwesList, Uids
    <3> QED
      BY <3>1, <3>2
  <2> QED
    BY <2>2, <2>3, <2>4, <2>5, <2>6, <2>7
<1>5. CASE Clear(w)
  <2>1. TypeOK'
    BY <1>1, <1>5, EmptySeq DEF Clear
  <2>2. MapLock'
    BY <1>5 DEF Clear, MapLock
  <2>3. ThreadLock' /\ ThreadRuns' /\ HandFull' /\ AckFromSameChannel'
    BY <1>1, <1>5 DEF Clear, ThreadLock, ThreadRuns, HandFull, AckFromSameChannel,
                      HasSender
  <2>4. ASSUME NEW v \in Workers PROVE ArgReady(v)'
    BY <1>1, <1>5 DEF Clear, ArgReady, HasSender
  <2>5. ContactListOwed'
    <3> SUFFICES ASSUME NEW u \in Users PROVE Owed(u)'
      BY DEF ContactListOwed, Owed
    <3>1. CASE u = arg[w].user
      BY <1>1, <1>5, <3>1 DEF Clear, Owed, OwesList
    <3>2. CASE u # arg[w].user
      <4>1. Owed(u)
        BY DEF ContactListOwed, Owed
      <4> QED
        BY <1>1, <1>5, <3>2, <4>1 DEF Clear, Owed, HasSender, InHand, OwesList, Uids
    <3> QED
      BY <3>1, <3>2
  <2> QED
    BY <2>1, <2>2, <2>3, <2>4, <2>5
<1> QED
  BY <1>2, <1>3, <1>4, <1>5

(* Building the list, looking the sender up and queueing the packet.       *)
LEMMA IInvQueue ==
  ASSUME IInv, NEW w \in Workers,
         \/ \E l \in Lists : MakeContactList(w, l)
         \/ IsOnline(w) \/ GetSender(w) \/ AddSendTask(w)
  PROVE  IInv'
<1> USE KeepAliveAssumption DEF IInv, TypeOK
<1>1. arg[w] \in Args /\ NoArg \in Args /\ NoArg.user \notin Users
  BY DEF Args, NoArg, Uids
<1>2. ASSUME NEW l \in Lists, MakeContactList(w, l) PROVE IInv'
  <2>1. [arg[w] EXCEPT !.pkt = l] \in Args /\ l \in Packets
    BY <1>1 DEF Args, Packets
  <2>2. TypeOK'
    BY <1>2, <2>1 DEF MakeContactList, Goto
  <2>3. MapLock' /\ ThreadLock' /\ ThreadRuns' /\ HandFull' /\ AckFromSameChannel'
    BY <1>2 DEF MakeContactList, Goto, MapLock, ThreadLock, ThreadRuns, HandFull,
                AckFromSameChannel, HasSender
  <2>4. ASSUME NEW v \in Workers PROVE ArgReady(v)'
    BY <1>1, <1>2, <2>1 DEF MakeContactList, Goto, ArgReady, HasSender, Args
  <2>5. ASSUME NEW v \in Workers, OwesList(v)
        PROVE  OwesList(v)' /\ arg'[v].user = arg[v].user
    BY <1>1, <1>2, <2>5 DEF MakeContactList, Goto, OwesList, Args
  <2>6. ContactListOwed'
    <3> SUFFICES ASSUME NEW u \in Users PROVE Owed(u)'
      BY DEF ContactListOwed, Owed
    <3>1. Owed(u)
      BY DEF ContactListOwed, Owed
    <3> QED
      BY <1>2, <2>5, <3>1 DEF MakeContactList, Owed, HasSender, InHand
  <2> QED
    BY <2>2, <2>3, <2>4, <2>6
<1>3. ASSUME IsOnline(w) \/ GetSender(w) PROVE IInv'
  <2>1. /\ UNCHANGED <<mapMu, fd, mu, queue, run, hand, on, channels, sent, closed>>
        /\ op[w] \in {"isOnline", "getSender"}
        /\ \/ op' = [op EXCEPT ![w] = "idle"] /\ arg' = [arg EXCEPT ![w] = NoArg]
           \/ op' = [op EXCEPT ![w] = "getSender"] /\ arg' = arg
           \/ /\ op' = [op EXCEPT ![w] = "push"] /\ arg' = arg
              /\ HasSender(arg[w].user)
    BY <1>3 DEF IsOnline, GetSender, Goto, Return
  <2>2. TypeOK'
    BY <1>1, <2>1
  <2>3. MapLock' /\ ThreadLock' /\ ThreadRuns' /\ HandFull' /\ AckFromSameChannel'
    BY <2>1 DEF MapLock, ThreadLock, ThreadRuns, HandFull, AckFromSameChannel, HasSender
  <2>4. ASSUME NEW v \in Workers PROVE ArgReady(v)'
    BY <2>1 DEF ArgReady, HasSender
  <2>5. ASSUME NEW u \in Users, HasSender(u), NEW v \in Workers,
               arg[v].user = u, OwesList(v)
        PROVE  OwesList(v)' /\ arg'[v].user = u
    <3>1. CASE v # w
      BY <2>1, <2>5, <3>1 DEF OwesList
    <3>2. CASE v = w
      BY <1>3, <2>5, <3>2 DEF IsOnline, GetSender, Goto, Return, OwesList, Uids
    <3> QED
      BY <3>1, <3>2
  <2>6. ContactListOwed'
    <3> SUFFICES ASSUME NEW u \in Users PROVE Owed(u)'
      BY DEF ContactListOwed, Owed
    <3>1. Owed(u)
      BY DEF ContactListOwed, Owed
    <3> QED
      BY <2>1, <2>5, <3>1 DEF Owed, HasSender, InHand
  <2> QED
    BY <2>2, <2>3, <2>4, <2>6
<1>4. CASE AddSendTask(w)
  <2> DEFINE x == arg[w].user
             p == arg[w].pkt
  <2>1. x \in Uids /\ p \in Packets /\ HasSender(x) /\ op[w] = "push"
    BY <1>1, <1>4 DEF AddSendTask, ArgReady, Args
  <2>2. /\ queue' = [queue EXCEPT ![x] = Append(queue[x], p)]
        /\ op' = [op EXCEPT ![w] = "idle"] /\ arg' = [arg EXCEPT ![w] = NoArg]
        /\ UNCHANGED <<mapMu, fd, mu, run, hand, on, channels, sent, closed>>
    BY <1>4 DEF AddSendTask, Goto, Return
  <2>3. queue[x] \in Seq(Packets) /\ Append(queue[x], p) \in Seq(Packets)
    BY <2>1, AppendProperties
  <2>4. Range(Append(queue[x], p)) = Range(queue[x]) \cup {p}
    BY <2>1, <2>3, RangeAppend
  <2> HIDE DEF x, p
  <2>5. TypeOK'
    BY <1>1, <2>1, <2>2, <2>3
  <2>6. MapLock' /\ ThreadLock' /\ ThreadRuns' /\ HandFull' /\ AckFromSameChannel'
    BY <2>1, <2>2 DEF MapLock, ThreadLock, ThreadRuns, HandFull, AckFromSameChannel,
                      HasSender
  <2>7. ASSUME NEW v \in Workers PROVE ArgReady(v)'
    BY <2>1, <2>2 DEF ArgReady, HasSender
  <2>8. ContactListOwed'
    <3> SUFFICES ASSUME NEW u \in Users PROVE Owed(u)'
      BY DEF ContactListOwed, Owed
    <3>1. Owed(u) /\ u \in Uids
      BY DEF ContactListOwed, Owed, Uids
    <3>2. CASE u = x /\ p \in Lists
      <4>1. Range(queue'[u]) \cap Lists # {}
        BY <2>1, <2>2, <2>4, <3>2
      <4> QED
        BY <4>1 DEF Owed
    <3>3. CASE ~(u = x /\ p \in Lists)
      <4>1. ASSUME NEW v \in Workers, arg[v].user = u, OwesList(v)
            PROVE  OwesList(v)' /\ arg'[v].user = u
        <5>1. v # w
          BY <2>1, <3>3, <4>1 DEF OwesList, x, p
        <5> QED
          BY <2>2, <4>1, <5>1 DEF OwesList
      <4>2. Range(queue[u]) \subseteq Range(queue'[u])
        BY <2>1, <2>2, <2>4, <3>1
      <4> QED
        BY <2>2, <3>1, <4>1, <4>2 DEF Owed, HasSender, InHand
    <3> QED
      BY <3>2, <3>3
  <2> QED
    BY <2>5, <2>6, <2>7, <2>8
<1> QED
  BY <1>2, <1>3, <1>4

(* The steps of a sender thread.                                           *)
LEMMA IInvThread ==
  ASSUME IInv, NEW x \in Uids, ThreadStep(x)
  PROVE  IInv'
<1> USE KeepAliveAssumption DEF IInv, TypeOK
<1>1. /\ UNCHANGED <<mapMu, fd, op, arg, channels>>
      /\ \A v \in Workers : OwesList(v)' <=> OwesList(v)
      /\ \A u \in Uids : HasSender(u)' <=> HasSender(u)
  BY DEF ThreadStep, RunPop, RunLock, RunSend, RunAck, OwesList, HasSender
<1>2. MapLock' /\ \A v \in Workers : ArgReady(v)'
  BY <1>1 DEF MapLock, ArgReady, HasSender
<1>3. fd[x] \in Conns
  BY DEF ThreadStep, RunPop, RunLock, RunSend, RunAck, ThreadRuns, HasSender
<1>4. CASE RunPop(x)
  <2>1. /\ Head(queue[x]) \in Packets /\ Tail(queue[x]) \in Seq(Packets)
        /\ Range(queue[x]) \subseteq {Head(queue[x])} \cup Range(Tail(queue[x]))
    BY <1>4, HeadTailProperties, RangeHeadTail DEF RunPop
  <2>2. TypeOK'
    BY <1>4, <2>1 DEF RunPop
  <2>3. ThreadLock' /\ ThreadRuns' /\ HandFull' /\ AckFromSameChannel'
    BY <1>1, <1>4, <2>1 DEF RunPop, ThreadLock, ThreadRuns, HandFull,
                            AckFromSameChannel
  <2>4. ContactListOwed'
    <3> SUFFICES ASSUME NEW u \in Users PROVE Owed(u)'
      BY DEF ContactListOwed, Owed
    <3>1. Owed(u) /\ u \in Uids
      BY DEF ContactListOwed, Owed, Uids
    <3>2. CASE u # x
      BY <1>1, <1>4, <3>1, <3>2 DEF RunPop, Owed, InHand
    <3>3. CASE u = x
      <4>1. ~InHand(u)
        BY <1>4, <3>3 DEF RunPop, InHand
      <4>2. Range(queue[u]) \cap Lists # {} =>
              Range(queue'[u]) \cap Lists # {} \/ InHand(u)'
        BY <1>4, <2>1, <3>3 DEF RunPop, InHand
      <4> QED
        BY <1>1, <1>4, <3>1, <4>1, <4>2 DEF RunPop, Owed
    <3> QED
      BY <3>2, <3>3
  <2> QED
    BY <1>2, <2>2, <2>3, <2>4
<1>5. CASE RunLock(x)
  <2>1. TypeOK'
    BY <1>5 DEF RunLock
  <2>2. ThreadLock' /\ ThreadRuns' /\ HandFull' /\ AckFromSameChannel'
    BY <1>1, <1>5 DEF RunLock, ThreadLock, ThreadRuns, HandFull, AckFromSameChannel
  <2>3. ContactListOwed'
    BY <1>1, <1>5 DEF RunLock, ContactListOwed, InHand, Uids
  <2> QED
    BY <1>2, <2>1, <2>2, <2>3
<1>6. CASE RunSend(x)
  <2>1. hand[x] \in Packets
    BY <1>6 DEF RunSend, HandFull
  <2>2. TypeOK'
    BY <1>3, <1>6, <2>1 DEF RunSend
  <2>3. ThreadLock' /\ ThreadRuns' /\ HandFull' /\ AckFromSameChannel'
    BY <1>1, <1>6 DEF RunSend, ThreadLock, ThreadRuns, HandFull, AckFromSameChannel
  <2>4. \A c \in Conns : sent[c] \subseteq sent'[c]
    BY <1>6 DEF RunSend
  <2>5. closed \subseteq closed'
    BY <1>6 DEF RunSend
  <2>6. ContactListOwed'
    <3> SUFFICES ASSUME NEW u \in Users PROVE Owed(u)'
      BY DEF ContactListOwed, Owed
    <3>1. Owed(u) /\ u \in Uids
      BY DEF ContactListOwed, Owed, Uids
    <3>2. HasSender(u) => fd[u] \in Conns
      BY <3>1 DEF HasSender
    <3>3. InHand(u) /\ u = x => fd'[u] \in closed' \/ sent'[fd'[u]] \cap Lists # {}
      BY <1>3, <1>6 DEF RunSend, InHand
    <3>4. InHand(u) /\ u # x => InHand(u)'
      BY <1>6 DEF RunSend, InHand
    <3>5. queue' = queue
      BY <1>6 DEF RunSend
    <3> QED
      BY <1>1, <2>4, <2>5, <3>1, <3>2, <3>3, <3>4, <3>5 DEF Owed
  <2> QED
    BY <1>2, <2>2, <2>3, <2>6
<1>7. CASE RunAck(x)
  <2>1. TypeOK'
    BY <1>3, <1>7 DEF RunAck
  <2>2. ThreadLock' /\ ThreadRuns' /\ HandFull' /\ AckFromSameChannel'
    BY <1>1, <1>7 DEF RunAck, ThreadLock, ThreadRuns, HandFull, AckFromSameChannel
  <2>3. closed \subseteq closed'
    BY <1>7 DEF RunAck
  <2>4. ContactListOwed'
    <3> SUFFICES ASSUME NEW u \in Users PROVE Owed(u)'
      BY DEF ContactListOwed, Owed
    <3>1. Owed(u) /\ u \in Uids
      BY DEF ContactListOwed, Owed, Uids
    <3>2. InHand(u) => InHand(u)'
      BY <1>7 DEF RunAck, InHand
    <3> QED
      BY <1>1, <1>7, <2>3, <3>1, <3>2 DEF RunAck, Owed
  <2> QED
    BY <1>2, <2>1, <2>2, <2>4
<1> QED
  BY <1>4, <1>5, <1>6, <1>7 DEF ThreadStep

(* Every step keeps the inductive invariant.                               *)
LEMMA IInvNext == IInv /\ [Next]_kaVars => IInv'
<1> SUFFICES ASSUME IInv, [Next]_kaVars PROVE IInv'
  OBVIOUS
<1>1. CASE UNCHANGED kaVars
  BY <1>1 DEF kaVars, IInv, TypeOK, MapLock, ThreadLock, ThreadRuns, HandFull,
              ArgReady, AckFromSameChannel, ContactListOwed, HasSender, InHand, OwesList
<1> QED
  BY <1>1, IInvStart, IInvSetKpAliveSender, IInvQueue, IInvThread DEF Next, WorkerStep
-----------------------------------------------------------------------------
(* The types are right in every reachable state.                           *)
THEOREM KeepAliveTypes == Spec => []TypeOK
<1>1. IInv => TypeOK
  BY DEF IInv
<1> QED
  BY <1>1, IInvInit, IInvNext, PTL DEF Spec

(* KeepAliveMsgSender::run reads an ack from the connection it has sent    *)
(* the packet on, whatever setFd does meanwhile.                           *)
THEOREM AckFromSameChannelHolds == Spec => []AckFromSameChannel
<1>1. IInv => AckFromSameChannel
  BY DEF IInv
<1> QED
  BY <1>1, IInvInit, IInvNext, PTL DEF Spec

(* However many workers set up channels for a user at once, the current    *)
(* one is never left without a contact list on its way.                    *)
THEOREM ContactListIsOwed == Spec => []ContactListOwed
<1>1. IInv => ContactListOwed
  BY DEF IInv
<1> QED
  BY <1>1, IInvInit, IInvNext, PTL DEF Spec
=============================================================================
