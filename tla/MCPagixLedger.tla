---------------------------- MODULE MCPagixLedger -----------------------------
(***************************************************************************)
(* A small instance of PagixLedger for TLC: offers that repeat an id under *)
(* another key and workspace, or open with amounts of their own, and usage *)
(* that exactly fills, overfills and follows the final observation.        *)
(***************************************************************************)
EXTENDS PagixLedger

CONSTANTS w1, w2, k1, k2, d1, d2, r1, r2, u1, u2, u3, u4

Ask(w, k, d, id, g, upper, observed, final, released) ==
    [key |-> k, digest |-> d, id |-> id,
     value |-> [workspace |-> w, generation |-> g, upper |-> upper,
                observed |-> observed, final |-> final, released |-> released]]

Empty(w, k, d, id, g, upper) == Ask(w, k, d, id, g, upper, 0, FALSE, FALSE)

Used(u, id, cost, final) ==
    [id |-> u, reservation |-> id, cost |-> cost, final |-> final]

\* Two that open with a charge, one of them released as well, one above its
\* upper bound, one final at the smallest amount there is.
MCOffers ==
    {Empty(w1, k1, d1, r1, 1, 4), Empty(w1, k1, d2, r2, 1, 2),
     Empty(w1, k2, d1, r1, 2, 3), Empty(w2, k1, d1, r2, 2, 3),
     Ask(w2, k2, d1, r1, 2, 3, 1, FALSE, FALSE),
     Ask(w1, k2, d2, r2, 1, 3, 1, TRUE, TRUE),
     Ask(w2, k1, d2, r1, 1, 2, 3, TRUE, FALSE),
     Ask(w2, k2, d2, r2, 1, 2, -MaxMicros - 1, TRUE, FALSE)}

MCReports ==
    {Used(u1, r1, 2, FALSE), Used(u1, r1, 1, TRUE), Used(u2, r1, 1, FALSE),
     Used(u2, r2, 2, TRUE), Used(u3, r1, 1, TRUE), Used(u3, r2, 1, FALSE),
     Used(u4, r1, 0, FALSE)}

MCFinalCosts == {-MaxMicros - 1} \cup 0..5
=============================================================================
