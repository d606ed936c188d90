------------------------- MODULE MCVmActionsClaims -------------------------
EXTENDS VmActionsClaims

CONSTANTS v1, a1, a2
=============================================================================
