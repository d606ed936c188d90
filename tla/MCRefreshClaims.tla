-------------------------- MODULE MCRefreshClaims --------------------------
(* Instances of RefreshClaims for TLC. *)
EXTENDS RefreshClaims

CONSTANTS h1, h2, o1
=============================================================================
