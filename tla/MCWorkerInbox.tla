---------------------------- MODULE MCWorkerInbox -----------------------------
(* A small instance of WorkerInbox for TLC. *)
EXTENDS WorkerInbox
=============================================================================
