--------------------------- MODULE MCDeploymentMock ---------------------------
(***************************************************************************)
(* Two connections, a deployment that two export workers race to move      *)
(* along the export path, and five pointers: one, the same with a count    *)
(* that rounds to the same float64, the same manifest with other routes or *)
(* with a number beyond float64, and another manifest.                     *)
(***************************************************************************)
EXTENDS DeploymentMock, TLC

CONSTANTS d1, queued, exporting, ready, k1, k2, g1, x1, x1r, x2, huge, v1, v2

P(k, x) == [storageKey |-> k, digest |-> g1, extra |-> x]

MCRequests ==
    {Get(d1)}
    \cup {Patch(d1, queued, exporting), Patch(d1, exporting, ready)}
    \cup {Post(d1, P(k1, x1)), Post(d1, P(k1, x1r)), Post(d1, P(k1, x2)),
          Post(d1, P(k1, huge)), Post(d1, P(k2, x1))}

MCDecoded == [x \in Extras |-> CASE x \in {x1, x1r} -> v1
                                 [] x = x2 -> v2
                                 [] x = huge -> None]

\* The connections are told apart by nothing but their names.
AnyConnection == Permutations(Connections)
=============================================================================
