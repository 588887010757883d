---------------------------- MODULE MCChatServer ----------------------------
(* ChatServer for TLC: alice is registered; bob is too, or registers.      *)
EXTENDS ChatServer, TLC

CONSTANTS w1, w2, alice, bob, c1, c2

MCWorkers == {w1, w2}
MCNames == {alice, bob}
OnlyAlice == <<alice>>
AliceAndBob == <<alice, bob>>
WorkerSymmetry == Permutations(MCWorkers)
OneConn == {c1}
TwoConns == {c1, c2}
Nobody == {}
=============================================================================
