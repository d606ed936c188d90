---------------------------- MODULE MCVmActions ----------------------------
EXTENDS VmActions

CONSTANTS v1, a1, a2

=============================================================================
