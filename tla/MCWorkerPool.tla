---------------------------- MODULE MCWorkerPool ----------------------------
(* Model values for model checking WorkerPool. *)
EXTENDS WorkerPool, TLC

CONSTANTS w1, w2, w3, a, b, c

Workers == {w1, w2, w3}
Tokens == {a, b, c}

(* Two tasks that end before their lock can expire, one that may outlive it. *)
Limits == w1 :> 1 @@ w2 :> 1 @@ w3 :> 2
=============================================================================
