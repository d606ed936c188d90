------------------------------ MODULE MCFetch ------------------------------
EXTENDS Fetch

CONSTANTS n1, n2
=============================================================================
