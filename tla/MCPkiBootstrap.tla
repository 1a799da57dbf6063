---------------------------- MODULE MCPkiBootstrap ----------------------------
(* PkiBootstrap.tla for TLC. *)
EXTENDS PkiBootstrap, TLC

Symmetry == Permutations(Requests) \cup Permutations(Pairs)
================================================================================
