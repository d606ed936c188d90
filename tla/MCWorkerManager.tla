-------------------------- MODULE MCWorkerManager --------------------------
EXTENDS WorkerManager

CONSTANTS w1, w2, w3, w4, w5

(* The view of a folder starts nothing, that of a host only host workers,   *)
(* that of a VM its own ones and general ones.                              *)
MCViews == {<<>>, <<"host", "host">>, <<"general", "detail", "config">>}
=============================================================================
