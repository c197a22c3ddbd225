---------------------------- MODULE MCCollector -----------------------------
(***************************************************************************)
(* Small instances of Collector for TLC: one gRPC and one HTTP handler.    *)
(***************************************************************************)
EXTENDS Collector

CONSTANTS g, h, w1, w2, c1, c2

MCHandlers == {g, h}
MCGrpc == {g}
OneWorker == {w1}
TwoWorkers == {w1, w2}
TwoChunks == {c1, c2}
TwoSizes == [c \in TwoChunks |-> IF c = c1 THEN 2 ELSE 1]
=============================================================================
