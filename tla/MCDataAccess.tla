---------------------------- MODULE MCDataAccess ----------------------------
(* DataAccess for TLC: two registered users and a third name.              *)
EXTENDS DataAccess

CONSTANTS w1, w2, alice, bob, carol

TwoWorkers == {w1, w2}
MCNames == {alice, bob, carol}
MCStartUsers == <<alice, bob>>
Alice == {1}
Nobody == {}
=============================================================================
