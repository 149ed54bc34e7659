--------------------------- MODULE MCKernelEvidence ---------------------------
(***************************************************************************)
(* The scripts on two gates, with one check of each kind: one that passes  *)
(* or fails, the listing of the binary, and a suite.                       *)
(***************************************************************************)
EXTENDS KernelEvidence

MCChecks == <<"contracts", "closure", "recovery-matrix">>
=============================================================================
