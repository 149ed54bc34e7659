---------------------------- MODULE MCPagixPersist ----------------------------
(***************************************************************************)
(* A small instance of PagixPersist for TLC: commands chosen so that every *)
(* check of Persist has a pair of commands only it can tell apart.         *)
(***************************************************************************)
EXTENDS PagixPersist

CONSTANTS w1, w2, k1, k2, k3, d1, d2, o1, o2, a1, a2, a3, b1, b2, b3

Cmd(w, k, d, o, a, b, e) ==
    [workspace |-> w, key |-> k, digest |-> d, operation |-> o,
     authorization |-> a, bytes |-> b, expected |-> e]

MCCommands ==
    {Cmd(w1, k1, d1, o1, a1, b1, 0),
     Cmd(w1, k1, d2, o1, a1, b1, 0),   \* the same key, another request
     Cmd(w1, k2, d1, o1, a2, b2, 0),   \* the same base, and the operation again
     Cmd(w1, k3, d1, o2, a3, b3, 1),   \* on top of the first one applied
     Cmd(w2, k1, d1, o1, a1, b1, 0),   \* the authorization in another workspace
     Cmd(w2, k2, d1, o2, a2, b1, 0),   \* other bytes for it, and other's bytes
     Cmd(w2, k3, d2, o2, a3, b3, 1)}
=============================================================================
