---------------------------- MODULE MCWorkerPool ----------------------------
(* Three apps, two of which are downloaded, on two CPUs. *)
EXTENDS WorkerPool

MCUrls == {1, 3}
=============================================================================
