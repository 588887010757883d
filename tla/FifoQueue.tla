----------------------------- MODULE FifoQueue -----------------------------
(***************************************************************************)
(* What ThreadsafeQueue<T> (include/threadsafe_queue.h) promises to the    *)
(* threads that share it: every operation takes effect at one instant, on  *)
(* a first-in first-out queue.  ThreadsafeQueue.tla, with its mutex and    *)
(* its condition variable, is shown to implement this specification, and   *)
(* the modules that only use a queue use these one-step operations.        *)
(***************************************************************************)
EXTENDS Sequences

CONSTANTS Pushers,   \* threads that call Push
          Poppers,   \* threads that call WaitAndPop
          Items,     \* what is queued
          NoItem     \* "nothing popped yet"

VARIABLES queue,     \* the queued items, oldest first
          got        \* got[c]: the last item handed to popper c

vars == <<queue, got>>

Init == /\ queue = <<>>
        /\ got = [c \in Poppers |-> NoItem]

Push(i) == /\ queue' = Append(queue, i)
           /\ UNCHANGED got

WaitAndPop(c) == /\ queue # <<>>
                 /\ got' = [got EXCEPT ![c] = Head(queue)]
                 /\ queue' = Tail(queue)

Clear == /\ queue' = <<>>
         /\ UNCHANGED got

Next == \/ \E i \in Items : Push(i)
        \/ \E c \in Poppers : WaitAndPop(c)
        \/ Clear

Spec == Init /\ [][Next]_vars
=============================================================================
