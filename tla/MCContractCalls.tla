---------------------------- MODULE MCContractCalls ----------------------------
(* A small instance of ContractCalls for TLC. *)
EXTENDS ContractCalls
=============================================================================
