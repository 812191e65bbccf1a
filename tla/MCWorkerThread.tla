--------------------------- MODULE MCWorkerThread ---------------------------
(* Three caller threads: an RPC thread that sends transactions, one that   *)
(* reopens the chain, and the one that destroys the object.                *)
EXTENDS WorkerThread
=============================================================================
