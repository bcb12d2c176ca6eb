---------------------------- MODULE MCPipeline ----------------------------
(***************************************************************************)
(* CodexPipeline for TLC: requests and documents are interchangeable.      *)
(***************************************************************************)
EXTENDS CodexPipeline, TLC

RequestSymmetry == Permutations(Requests)

\* Documents are interchangeable too; tenants are not, one of them is the default.
Symmetry == RequestSymmetry \cup Permutations(Docs)
=============================================================================
