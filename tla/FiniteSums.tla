----------------------------- MODULE FiniteSums -------------------------------
(***************************************************************************)
(* The sum of a function over a finite set of its arguments, as the        *)
(* properties of the two ledgers use it.                                   *)
(***************************************************************************)
EXTENDS Integers, FiniteSetsExt

SumOver(f, S) == MapThenSumSet(LAMBDA x : f[x], S)
=============================================================================
