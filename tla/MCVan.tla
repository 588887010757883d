------------------------------- MODULE MCVan -------------------------------
(* Van for TLC: a connection that stays, one that goes away, a channel.    *)
EXTENDS Van, TLC

CONSTANTS w1, w2, alice, c1, c2, c3

MCWorkers == {w1, w2}
JustAlice == {alice}
ThreeConns == {c1, c2, c3}
TheFirst == {c1}
TheSecond == {c2}
TheThird == {c3}
Nothing == {}
OfAlice == [c \in Channels |-> alice]
TwoOnTheFirst == [c \in Conns |-> IF c = c1 THEN 2 ELSE 1]
=============================================================================
