--------------------------- MODULE MCWorkerRoute ---------------------------
(* An instance of WorkerRoute for TLC: two Workers in a fixed order. *)
EXTENDS WorkerRoute

CONSTANTS w1, w2

MCConfigured == <<w1, w2>>
=============================================================================
