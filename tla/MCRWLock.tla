------------------------------- MODULE MCRWLock -------------------------------
(* Instances of RWLock for TLC: the r's only read and the w's only write, which *)
(* lets fairness tell a starved role from a finished one; t1 does both, as      *)
(* every thread of EmbeddingEngine.                                             *)
EXTENDS RWLock

CONSTANTS r1, r2, w1, w2, t1
=============================================================================
