-------------------------- MODULE VmActionsClaims --------------------------
(* What comments of the repository say of optimistic actions, and the code  *)
(* does not do.                                                             *)
EXTENDS VmActions

VARIABLE owner   \* history: the worker of the last action applied to a VM

claimVars == <<vars, owner>>

NextOwner ==
    owner' = [v \in Vms |->
        IF \E w \in Workers : work[w] = None /\ work'[w] # None /\ work'[w].vm = v
        THEN CHOOSE w \in Workers : work[w] = None /\ work'[w] # None
        ELSE owner[v]]

ClaimSpec ==
    Init /\ owner = [v \in Vms |-> None] /\ [][Next /\ NextOwner]_claimVars

(* "A handle of one optimistic change: confirm/rollback by the answer"      *)
(* (OptimisticToken, optimistic.py:101): a pending change is ended by the   *)
(* answer to its own action.                                                *)
EndedByItsOwnAnswer ==
    [][\A v \in Vms : pending[v] # None /\ pending'[v] = None
                      => owner[v] # None /\ work[owner[v]] # None /\ work'[owner[v]] = None]_claimVars
=============================================================================
