--------------------------- MODULE FetchContract ---------------------------
(***************************************************************************)
(* What the refresh cycles (module Refresh) rely on in one fetch: it sends *)
(* at most one result, nothing after it but finished, finished once and in *)
(* any case, and it goes without a result only when it was cancelled.      *)
(***************************************************************************)
VARIABLES
    told,       \* what result_ready carried: "nothing" yet, "ok" or "error"
    ended,      \* finished has been emitted
    cancelled   \* cancel() has been called

vars == <<told, ended, cancelled>>

Init == told = "nothing" /\ ended = FALSE /\ cancelled = FALSE

Cancel == cancelled' = TRUE /\ UNCHANGED <<told, ended>>

Tell ==
    /\ told = "nothing" /\ ~ended
    /\ told' \in {"ok", "error"}
    /\ UNCHANGED <<ended, cancelled>>

End ==
    /\ ~ended
    /\ told # "nothing" \/ cancelled
    /\ ended' = TRUE
    /\ UNCHANGED <<told, cancelled>>

Next == Cancel \/ Tell \/ End

Spec == Init /\ [][Next]_vars /\ WF_vars(Tell \/ End)
=============================================================================
