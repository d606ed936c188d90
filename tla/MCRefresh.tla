----------------------------- MODULE MCRefresh -----------------------------
(* Instances of Refresh for TLC. *)
EXTENDS Refresh, TLC

CONSTANTS h1, h2, o1

Symmetry == Permutations(Hosts) \cup Permutations(Ops)
=============================================================================
