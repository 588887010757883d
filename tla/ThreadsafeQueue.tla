-------------------------- MODULE ThreadsafeQueue --------------------------
(***************************************************************************)
(* ThreadsafeQueue<T> of include/threadsafe_queue.h: a std::queue behind a *)
(* mutex mu_ and a condition variable cond_.  The accepting thread and the *)
(* ten workers share one (RecvSocketQueue_), and every KeepAliveMsgSender  *)
(* has one (msg_queue_), pushed to and cleared by the workers and popped   *)
(* by its own thread.                                                      *)
(*                                                                         *)
(* pc[t] says where thread t is inside an operation:                       *)
(*   Push        idle -> store -> unlock -> notify -> idle                 *)
(*   WaitAndPop  idle -> check -> take -> release -> idle                  *)
(*               with  check -> asleep -> relock -> check  when empty      *)
(*   Clear       idle -> drain ... drain -> idle                           *)
(***************************************************************************)
EXTENDS Naturals, Sequences, Functions

CONSTANTS Pushers, Poppers, Clearers,  \* the threads, by what they call
          Items,                       \* values that are queued, each once
          NoItem, NoThread

ASSUME QueueAssumption == /\ NoThread \notin Pushers \cup Poppers \cup Clearers
                          /\ NoItem \notin Items
                          /\ Poppers # {}

VARIABLES mu,      \* the thread that holds mu_, or NoThread
          queue,   \* queue_
          pc,      \* where each thread is
          arg,     \* arg[p]: the value pusher p pushes
          got,     \* got[c]: the value last stored through *value for c
          pushed   \* the items that were ever given to Push

vars == <<mu, queue, pc, arg, got, pushed>>

Threads == Pushers \cup Poppers \cup Clearers
InMutex == {"store", "unlock", "check", "take", "release", "drain"}

Goto(t, l) == pc' = [pc EXCEPT ![t] = l]
Acquire(t) == mu = NoThread /\ mu' = t

Init == /\ mu = NoThread
        /\ queue = <<>>
        /\ pc = [t \in Threads |-> "idle"]
        /\ arg = [p \in Pushers |-> NoItem]
        /\ got = [c \in Poppers |-> NoItem]
        /\ pushed = {}
-----------------------------------------------------------------------------
(* Wrong variants of the operations, one for each property below: with one *)
(* of them in place of the operation it is named after, the property of    *)
(* that comment must fail.                                                 *)

(* TypeOK: the value was moved away before it is stored.                   *)
PushLockMovedArg(p, i) == /\ pc[p] = "idle"
                          /\ i \notin pushed
                          /\ Acquire(p)
                          /\ pushed' = pushed \cup {i}
                          /\ Goto(p, "store")
                          /\ UNCHANGED <<queue, arg, got>>

(* NoLostWakeup: Push returns without notifying.                           *)
PushUnlockAndReturn(p) == /\ pc[p] = "unlock"
                          /\ mu' = NoThread
                          /\ Goto(p, "idle")
                          /\ UNCHANGED <<queue, arg, got, pushed>>

(* QueuedIsServed: the notification reaches nobody.                        *)
PushNotifyNobody(p) == /\ pc[p] = "notify"
                       /\ Goto(p, "idle")
                       /\ UNCHANGED <<mu, queue, arg, got, pushed>>

(* NeverPopsEmpty: wait without its predicate takes any wake-up for an item. *)
PopReadyAnyway(c) == /\ pc[c] = "check"
                     /\ Goto(c, "take")
                     /\ UNCHANGED <<mu, queue, arg, got, pushed>>

(* ImplementsFifo: Clear stops after any number of items.                  *)
ClearUnlockEarly(d) == /\ pc[d] = "drain"
                       /\ mu' = NoThread
                       /\ Goto(d, "idle")
                       /\ UNCHANGED <<queue, arg, got, pushed>>
-----------------------------------------------------------------------------
(* Push: lock, append, unlock, and only then notify every waiting thread.  *)
PushLock(p, i) == /\ pc[p] = "idle"
                  /\ i \notin pushed
                  /\ Acquire(p)
                  /\ arg' = [arg EXCEPT ![p] = i]
                  /\ pushed' = pushed \cup {i}
                  /\ Goto(p, "store")
                  /\ UNCHANGED <<queue, got>>

PushStore(p) == /\ pc[p] = "store"
                /\ queue' = Append(queue, arg[p])
                /\ Goto(p, "unlock")
                /\ UNCHANGED <<mu, arg, got, pushed>>

PushUnlock(p) == /\ pc[p] = "unlock"
                 /\ mu' = NoThread
                 /\ Goto(p, "notify")
                 /\ UNCHANGED <<queue, arg, got, pushed>>

PushNotify(p) == /\ pc[p] = "notify"
                 /\ pc' = [t \in Threads |->
                             IF t = p THEN "idle"
                             ELSE IF pc[t] = "asleep" THEN "relock" ELSE pc[t]]
                 /\ UNCHANGED <<mu, queue, arg, got, pushed>>
-----------------------------------------------------------------------------
(* WaitAndPop: the condition is tested with mu_ held; to sleep and to give *)
(* mu_ up is one step of cond_.wait, which may also wake up unasked.       *)
PopLock(c) == /\ pc[c] \in {"idle", "relock"}
              /\ Acquire(c)
              /\ Goto(c, "check")
              /\ UNCHANGED <<queue, arg, got, pushed>>

PopSleep(c) == /\ pc[c] = "check"
               /\ queue = <<>>
               /\ mu' = NoThread
               /\ Goto(c, "asleep")
               /\ UNCHANGED <<queue, arg, got, pushed>>

PopWakeUnasked(c) == /\ pc[c] = "asleep"
                     /\ Goto(c, "relock")
                     /\ UNCHANGED <<mu, queue, arg, got, pushed>>

PopReady(c) == /\ pc[c] = "check"
               /\ queue # <<>>
               /\ Goto(c, "take")
               /\ UNCHANGED <<mu, queue, arg, got, pushed>>

PopTake(c) == /\ pc[c] = "take"
              /\ got' = [got EXCEPT ![c] = Head(queue)]
              /\ queue' = Tail(queue)
              /\ Goto(c, "release")
              /\ UNCHANGED <<mu, arg, pushed>>

PopRelease(c) == /\ pc[c] = "release"
                 /\ mu' = NoThread
                 /\ Goto(c, "idle")
                 /\ UNCHANGED <<queue, arg, got, pushed>>
-----------------------------------------------------------------------------
(* Clear: pop until empty, with mu_ held throughout.                       *)
ClearLock(d) == /\ pc[d] = "idle"
                /\ Acquire(d)
                /\ Goto(d, "drain")
                /\ UNCHANGED <<queue, arg, got, pushed>>

ClearPop(d) == /\ pc[d] = "drain"
               /\ queue # <<>>
               /\ queue' = Tail(queue)
               /\ UNCHANGED <<mu, pc, arg, got, pushed>>

ClearUnlock(d) == /\ pc[d] = "drain"
                  /\ queue = <<>>
                  /\ mu' = NoThread
                  /\ Goto(d, "idle")
                  /\ UNCHANGED <<queue, arg, got, pushed>>
-----------------------------------------------------------------------------
PushStep(p) == PushStore(p) \/ PushUnlock(p) \/ PushNotify(p)
PopStep(c) == PopLock(c) \/ PopSleep(c) \/ PopReady(c) \/ PopTake(c) \/ PopRelease(c)
ClearStep(d) == ClearPop(d) \/ ClearUnlock(d)

Next == \/ \E p \in Pushers : (\E i \in Items : PushLock(p, i)) \/ PushStep(p)
        \/ \E c \in Poppers : PopStep(c) \/ PopWakeUnasked(c)
        \/ \E d \in Clearers : ClearLock(d) \/ ClearStep(d)

Spec == Init /\ [][Next]_vars

(* Threads that entered an operation go on; a popper calls again and again *)
(* (RevcSocketThreadFunc_ and KeepAliveMsgSender::run loop forever); no    *)
(* thread has to push or clear, and nobody has to wake up unasked.         *)
Fairness == /\ \A p \in Pushers : WF_vars(PushStep(p))
            /\ \A c \in Poppers : WF_vars(PopStep(c))
            /\ \A d \in Clearers : WF_vars(ClearStep(d))

FairSpec == Spec /\ Fairness
-----------------------------------------------------------------------------
TypeOK == /\ mu \in Threads \cup {NoThread}
          /\ queue \in Seq(Items)
          /\ pc \in [Threads -> InMutex \cup {"idle", "notify", "asleep", "relock"}]
          /\ arg \in [Pushers -> Items \cup {NoItem}]
          /\ got \in [Poppers -> Items \cup {NoItem}]
          /\ pushed \in SUBSET Items

(* No wake-up is lost although Push notifies after it has unlocked mu_:    *)
(* when an item is queued and every thread that could pop it sleeps in     *)
(* cond_.wait, a pusher has yet to call notify_all.                        *)
NoLostWakeup ==
  (queue # <<>> /\ \A c \in Poppers : pc[c] = "asleep")
    => \E p \in Pushers : pc[p] \in {"unlock", "notify"}

(* The front() and pop() of WaitAndPop only run on a queue that is not     *)
(* empty, whatever the other poppers and a Clear did since the thread was  *)
(* woken up: the condition it tested still holds.                          *)
NeverPopsEmpty == \A c \in Poppers : pc[c] = "take" => queue # <<>>

(* An item that was queued does not stay queued for ever: some popper      *)
(* takes it, or a Clear drops it.                                          *)
QueuedIsServed == \A i \in Items : (i \in Range(queue)) ~> (i \notin Range(queue))

(* Seen from outside, a Clear empties the queue when it gets mu_.          *)
Draining == \E d \in Clearers : pc[d] = "drain"
Fifo == INSTANCE FifoQueue WITH queue <- IF Draining THEN <<>> ELSE queue

(* Each operation is atomic: the queue behind its mutex implements the     *)
(* one-step first-in first-out queue.                                      *)
ImplementsFifo == Fifo!Spec
=============================================================================
