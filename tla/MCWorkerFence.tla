---------------------------- MODULE MCWorkerFence -----------------------------
(* A small instance of WorkerFence for TLC. *)
EXTENDS WorkerFence

CONSTANTS attempt, other

MCInitialFence == [recovery |-> 2, generation |-> 1, attempt |-> attempt,
                   lease |-> 2, expires |-> 2]
=============================================================================
