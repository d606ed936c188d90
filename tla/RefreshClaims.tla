--------------------------- MODULE RefreshClaims ---------------------------
(* What a comment of soft_refresh says of hosts that do not fit into the    *)
(* pool, and the code does not do.                                          *)
EXTENDS Refresh

VARIABLE leftOut   \* history: the configs the last soft tick had no slot for

claimVars == <<vars, leftOut>>

NextLeftOut ==
    leftOut' = IF SoftTickLaunch
               THEN {cfgs[i] : i \in (softExpected' + 1)..Len(cfgs)}
               ELSE IF UserRefresh \/ Restart THEN {} ELSE leftOut

ClaimSpec == Init /\ leftOut = {} /\ [][Next /\ NextLeftOut]_claimVars
----------------------------------------------------------------------------
(* "We start only those that fit, the rest - next tick"                     *)
(* (mainwindow.py:1668-1670): of the configs a soft tick left out, the next *)
(* tick that starts workers takes at least one.                             *)
RestNextTick ==
    [][SoftTickLaunch /\ leftOut # {}
        => \E w \in inflight' \ inflight : w.host \in leftOut]_claimVars
=============================================================================
