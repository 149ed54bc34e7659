---------------------------- MODULE MCWorkerUsage -----------------------------
(***************************************************************************)
(* A small instance of WorkerUsage for TLC: two attempts, a provider       *)
(* request both of them report, and amounts that together overflow MaxInt. *)
(***************************************************************************)
EXTENDS WorkerUsage

CONSTANTS a1, a2, p1, p2, o1, o2, o3

Seen(p, o, a, units) ==
    [provider |-> p, observation |-> o, attempt |-> a, units |-> units]

MCUsages ==
    {Seen(p1, o1, a1, 2), Seen(p1, o2, a2, 3), Seen(p1, o2, a1, 2),
     Seen(p2, o1, a1, 3), Seen(p2, o3, a2, 1),
     Seen(Missing, o1, a1, 1), Seen(Missing, o1, a2, 2), Seen(Missing, o2, a1, 4),
     Seen(Missing, o2, a2, 0), Seen(Missing, o3, a2, 4), Seen(Missing, o3, a1, 2)}
=============================================================================
