------------------------------ MODULE MCLogin -------------------------------
(* Login for TLC: a patient and an impatient user.                         *)
EXTENDS Login, TLC

CONSTANTS w1, w2, w3, alice, bob, ch1, ch2, t1, t2

MCWorkers == {w1, w2, w3}
MCUsers == {alice, bob}
JustAlice == {alice}
MCChallenges == {ch1, ch2}
MCTokens == {t1, t2}
MCSymmetry == Permutations(MCWorkers) \cup Permutations(MCChallenges)
                \cup Permutations(MCTokens)
=============================================================================
