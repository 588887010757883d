----------------------- MODULE ThreadsafeQueueProofs -----------------------
(***************************************************************************)
(* Proofs about ThreadsafeQueue for any number of pushers, poppers and     *)
(* clearers and any set of items: types, no lost wake-up, no pop of an     *)
(* empty queue, and that it implements FifoQueue.                          *)
(***************************************************************************)
EXTENDS ThreadsafeQueue, SequenceTheorems, TLAPS

(* mu_ is held by exactly the thread that is inside a critical section.    *)
LockInv == \A t \in Threads : pc[t] \in InMutex <=> mu = t

(* A pusher that is about to store holds an item.                          *)
ArgInv == \A p \in Pushers : pc[p] = "store" => arg[p] \in Items

(* Stronger than NoLostWakeup, and inductive: even one sleeping popper on  *)
(* a queue that is not empty is still going to be notified.                *)
SleepInv == (queue # <<>> /\ \E c \in Poppers : pc[c] = "asleep")
              => \E p \in Pushers : pc[p] \in {"unlock", "notify"}

IInv == TypeOK /\ LockInv /\ ArgInv /\ SleepInv /\ NeverPopsEmpty
-----------------------------------------------------------------------------
(* The inductive invariant holds of the empty queue with all threads idle. *)
LEMMA IInvInit == Init => IInv
<1> SUFFICES ASSUME Init PROVE IInv
  OBVIOUS
<1> USE QueueAssumption DEF Init, Threads, InMutex
<1>1. TypeOK
  BY EmptySeq DEF TypeOK
<1>2. LockInv /\ ArgInv /\ SleepInv /\ NeverPopsEmpty
  BY DEF LockInv, ArgInv, SleepInv, NeverPopsEmpty
<1> QED
  BY <1>1, <1>2 DEF IInv

(* Every step of Push keeps the inductive invariant.                       *)
LEMMA IInvPush ==
  ASSUME IInv, NEW p \in Pushers,
         (\E i \in Items : PushLock(p, i)) \/ PushStep(p)
  PROVE  IInv'
<1> USE QueueAssumption DEF IInv, TypeOK, Threads, InMutex, Goto, Acquire
<1>1. ASSUME NEW i \in Items, PushLock(p, i) PROVE IInv'
  BY <1>1 DEF PushLock, LockInv, ArgInv, SleepInv, NeverPopsEmpty
<1>2. CASE PushStore(p)
  <2>1. arg[p] \in Items
    BY <1>2 DEF PushStore, ArgInv
  <2>2. queue' \in Seq(Items) /\ queue' # <<>>
    BY <1>2, <2>1, AppendProperties DEF PushStore
  <2>3. TypeOK'
    BY <1>2, <2>2 DEF PushStore
  <2>4. LockInv' /\ ArgInv'
    BY <1>2 DEF PushStore, LockInv, ArgInv
  <2>5. SleepInv' /\ NeverPopsEmpty'
    BY <1>2, <2>2 DEF PushStore, SleepInv, NeverPopsEmpty
  <2> QED
    BY <2>3, <2>4, <2>5
<1>3. CASE PushUnlock(p)
  BY <1>3 DEF PushUnlock, LockInv, ArgInv, SleepInv, NeverPopsEmpty
<1>4. CASE PushNotify(p)
  <2>1. TypeOK' /\ LockInv' /\ ArgInv' /\ NeverPopsEmpty'
    BY <1>4 DEF PushNotify, LockInv, ArgInv, NeverPopsEmpty
  <2>2. \A c \in Poppers : pc'[c] # "asleep"
    BY <1>4 DEF PushNotify
  <2> QED
    BY <2>1, <2>2 DEF SleepInv
<1> QED
  BY <1>1, <1>2, <1>3, <1>4 DEF PushStep

(* Every step of WaitAndPop keeps the inductive invariant.                 *)
LEMMA IInvPop ==
  ASSUME IInv, NEW c \in Poppers, PopStep(c) \/ PopWakeUnasked(c)
  PROVE  IInv'
<1> USE QueueAssumption DEF IInv, TypeOK, Threads, InMutex, Goto, Acquire
<1>1. CASE PopLock(c)
  BY <1>1 DEF PopLock, LockInv, ArgInv, SleepInv, NeverPopsEmpty
<1>2. CASE PopSleep(c)
  BY <1>2 DEF PopSleep, LockInv, ArgInv, SleepInv, NeverPopsEmpty
<1>3. CASE PopWakeUnasked(c)
  BY <1>3 DEF PopWakeUnasked, LockInv, ArgInv, SleepInv, NeverPopsEmpty
<1>4. CASE PopReady(c)
  BY <1>4 DEF PopReady, LockInv, ArgInv, SleepInv, NeverPopsEmpty
<1>5. CASE PopTake(c)
  <2>1. queue # <<>>
    BY <1>5 DEF PopTake, NeverPopsEmpty
  <2>2. queue' \in Seq(Items) /\ got' \in [Poppers -> Items \cup {NoItem}]
    BY <1>5, <2>1, HeadTailProperties DEF PopTake
  <2>3. TypeOK'
    BY <1>5, <2>2 DEF PopTake
  <2>4. LockInv' /\ ArgInv'
    BY <1>5 DEF PopTake, LockInv, ArgInv
  <2>5. SleepInv'
    BY <1>5, <2>1 DEF PopTake, SleepInv
  <2>6. NeverPopsEmpty'
    BY <1>5 DEF PopTake, LockInv, NeverPopsEmpty
  <2> QED
    BY <2>3, <2>4, <2>5, <2>6
<1>6. CASE PopRelease(c)
  BY <1>6 DEF PopRelease, LockInv, ArgInv, SleepInv, NeverPopsEmpty
<1> QED
  BY <1>1, <1>2, <1>3, <1>4, <1>5, <1>6 DEF PopStep

(* Every step of Clear keeps the inductive invariant.                      *)
LEMMA IInvClear ==
  ASSUME IInv, NEW d \in Clearers, ClearLock(d) \/ ClearStep(d)
  PROVE  IInv'
<1> USE QueueAssumption DEF IInv, TypeOK, Threads, InMutex, Goto, Acquire
<1>1. CASE ClearLock(d)
  BY <1>1 DEF ClearLock, LockInv, ArgInv, SleepInv, NeverPopsEmpty
<1>2. CASE ClearPop(d)
  <2>1. queue' \in Seq(Items)
    BY <1>2, HeadTailProperties DEF ClearPop
  <2>2. NeverPopsEmpty'
    BY <1>2 DEF ClearPop, LockInv, NeverPopsEmpty
  <2> QED
    BY <1>2, <2>1, <2>2 DEF ClearPop, LockInv, ArgInv, SleepInv
<1>3. CASE ClearUnlock(d)
  BY <1>3 DEF ClearUnlock, LockInv, ArgInv, SleepInv, NeverPopsEmpty
<1> QED
  BY <1>1, <1>2, <1>3 DEF ClearStep

(* Every step keeps the inductive invariant.                               *)
LEMMA IInvNext == IInv /\ [Next]_vars => IInv'
<1> SUFFICES ASSUME IInv, [Next]_vars PROVE IInv'
  OBVIOUS
<1>1. CASE UNCHANGED vars
  BY <1>1 DEF vars, IInv, TypeOK, LockInv, ArgInv, SleepInv, NeverPopsEmpty
<1> QED
  BY <1>1, IInvPush, IInvPop, IInvClear DEF Next

(* In every reachable state the types are right, the mutex is held by the  *)
(* thread in its critical section, and SleepInv and NeverPopsEmpty hold.   *)
THEOREM QueueInvariant == Spec => []IInv
BY IInvInit, IInvNext, PTL DEF Spec

(* The queue, the mutex and the program counters keep their types: what is *)
(* in queue_ was pushed, and mu_ is held by one thread or by none.         *)
THEOREM QueueTypes == Spec => []TypeOK
<1>1. IInv => TypeOK
  BY DEF IInv
<1> QED
  BY <1>1, QueueInvariant, PTL

(* Notifying after the unlock, as Push does, loses no wake-up.             *)
THEOREM NoLostWakeupHolds == Spec => []NoLostWakeup
<1>1. ASSUME IInv PROVE NoLostWakeup
  <2> SUFFICES ASSUME queue # <<>>, \A c \in Poppers : pc[c] = "asleep"
               PROVE  \E p \in Pushers : pc[p] \in {"unlock", "notify"}
    BY DEF NoLostWakeup
  <2> QED
    BY <1>1, QueueAssumption DEF IInv, SleepInv
<1> QED
  BY <1>1, QueueInvariant, PTL

(* WaitAndPop never calls front() on an empty queue.                       *)
THEOREM NeverPopsEmptyHolds == Spec => []NeverPopsEmpty
<1>1. IInv => NeverPopsEmpty
  BY DEF IInv
<1> QED
  BY <1>1, QueueInvariant, PTL
-----------------------------------------------------------------------------
(* While a thread drains, no other thread is in a critical section.        *)
LEMMA DrainExcludes ==
  ASSUME IInv, NEW t \in Threads, pc[t] \in InMutex, pc[t] # "drain"
  PROVE  ~Draining
BY DEF IInv, LockInv, Draining, Threads, InMutex

(* Every step of the implementation is a step of the queue or a stutter.   *)
LEMMA FifoNext == IInv /\ [Next]_vars => [Fifo!Next]_Fifo!vars
<1> SUFFICES ASSUME IInv, [Next]_vars PROVE [Fifo!Next]_Fifo!vars
  OBVIOUS
<1> USE DEF Fifo!vars, IInv, TypeOK, Threads, InMutex, Goto, Acquire
<1>1. CASE UNCHANGED vars
  BY <1>1 DEF vars, Draining
<1>2. ASSUME NEW p \in Pushers, NEW i \in Items, PushLock(p, i)
      PROVE  UNCHANGED Fifo!vars
  BY <1>2 DEF PushLock, Draining
<1>3. ASSUME NEW p \in Pushers, PushStore(p)
      PROVE  Fifo!Push(arg[p]) /\ arg[p] \in Items
  <2>1. ~Draining /\ ~Draining'
    BY <1>3, DrainExcludes DEF PushStore, Draining
  <2> QED
    BY <1>3, <2>1 DEF PushStore, ArgInv, Fifo!Push
<1>4. ASSUME NEW p \in Pushers, PushUnlock(p) \/ PushNotify(p)
      PROVE  UNCHANGED Fifo!vars
  <2>1. Draining' = Draining
    BY <1>4 DEF PushUnlock, PushNotify, Draining
  <2> QED
    BY <1>4, <2>1 DEF PushUnlock, PushNotify
<1>5. ASSUME NEW c \in Poppers,
             PopLock(c) \/ PopSleep(c) \/ PopWakeUnasked(c) \/ PopReady(c) \/ PopRelease(c)
      PROVE  UNCHANGED Fifo!vars
  <2>1. Draining' = Draining
    BY <1>5 DEF PopLock, PopSleep, PopWakeUnasked, PopReady, PopRelease, Draining
  <2> QED
    BY <1>5, <2>1 DEF PopLock, PopSleep, PopWakeUnasked, PopReady, PopRelease
<1>6. ASSUME NEW c \in Poppers, PopTake(c)
      PROVE  Fifo!WaitAndPop(c)
  <2>1. ~Draining /\ ~Draining'
    BY <1>6, DrainExcludes DEF PopTake, Draining
  <2> QED
    BY <1>6, <2>1 DEF PopTake, NeverPopsEmpty, Fifo!WaitAndPop
<1>7. ASSUME NEW d \in Clearers, ClearLock(d)
      PROVE  Fifo!Clear
  <2>1. Draining'
    BY <1>7 DEF ClearLock, Draining
  <2> QED
    BY <1>7, <2>1 DEF ClearLock, Fifo!Clear
<1>8. ASSUME NEW d \in Clearers, ClearPop(d)
      PROVE  UNCHANGED Fifo!vars
  BY <1>8 DEF ClearPop, Draining
<1>9. ASSUME NEW d \in Clearers, ClearUnlock(d)
      PROVE  UNCHANGED Fifo!vars
  BY <1>9 DEF ClearUnlock
<1> QED
  BY <1>1, <1>2, <1>3, <1>4, <1>5, <1>6, <1>7, <1>8, <1>9
  DEF Next, PushStep, PopStep, ClearStep, Fifo!Next

(* ThreadsafeQueue implements the first-in first-out queue.                *)
THEOREM QueueImplementsFifo == Spec => ImplementsFifo
<1>1. Init => Fifo!Init
  BY DEF Init, Fifo!Init, Draining, Threads
<1> QED
  BY <1>1, FifoNext, QueueInvariant, PTL DEF Spec, ImplementsFifo, Fifo!Spec
=============================================================================
