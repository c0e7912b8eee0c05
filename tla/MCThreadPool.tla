---------------------------- MODULE MCThreadPool ----------------------------
(* Small instance of ThreadPool: three workers.                            *)
EXTENDS ThreadPool

CONSTANTS w1, w2, w3

ThreeWorkers == {w1, w2, w3}
=============================================================================
