---------------------------- MODULE MCKeepAlive ----------------------------
(* KeepAlive for TLC: two workers, a user who reconnects, a token that is  *)
(* no longer known, one contact list and one notification.                 *)
EXTENDS KeepAlive

CONSTANTS w1, w2, alice, bob, c1, c2, l1, n1

MCWorkers == {w1, w2}
TwoUsers == {alice, bob}
TwoConns == {c1, c2}
OneBreakable == {c1}
MCLists == {l1}
MCNotes == {n1}
=============================================================================
