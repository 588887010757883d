--------------------------- MODULE MCFileTransfer ---------------------------
(* FileTransfer for TLC: one ordinary and one contested file.              *)
EXTENDS FileTransfer, TLC

CONSTANTS w1, w2, bob, f1, f2, x1, x2

MCWorkers == {w1, w2}
JustBob == {bob}
OneFile == {f1}
TwoFiles == {f1, f2}
TwoContents == {x1, x2}
TheSecond == {f2}
Nothing == {}
WorkerAndContentSymmetry == Permutations(MCWorkers) \cup Permutations(TwoContents)
=============================================================================
