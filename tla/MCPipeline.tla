----------------------------- MODULE MCPipeline -----------------------------
(***************************************************************************)
(* Small instances of Pipeline for TLC.                                    *)
(***************************************************************************)
EXTENDS Pipeline

CONSTANTS h1, h2, w1, w2, c1, c2, c3

MCHandlers == {h1, h2}
MCWorkers == {w1, w2}
MCChunks == {c1, c2, c3}
MCSize == [c \in MCChunks |-> IF c = c1 THEN 3 ELSE IF c = c2 THEN 2 ELSE 1]
=============================================================================
