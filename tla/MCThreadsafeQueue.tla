------------------------- MODULE MCThreadsafeQueue -------------------------
(* ThreadsafeQueue for TLC: a worker that pushes and clears, another that  *)
(* pushes, and two poppers, as for msg_queue_ and RecvSocketQueue_.        *)
EXTENDS ThreadsafeQueue

CONSTANTS w1, w2, c1, c2, i1, i2, i3

MCPushers == {w1, w2}
MCPoppers == {c1, c2}
MCClearers == {w2}
MCItems == {i1, i2, i3}
=============================================================================
