---------------------------- MODULE MCDetailView ----------------------------
EXTENDS DetailView, TLC

CONSTANTS v1, v2, w1, w2, w3, w4

Symmetry == Permutations(Vms) \cup Permutations(Workers)
=============================================================================
