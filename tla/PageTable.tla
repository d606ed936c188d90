----------------------------- MODULE PageTable -----------------------------
(***************************************************************************)
(* The pages of the detail panel and of the PBS panel that a worker fills, *)
(* named after the method that loads them (ui/detail_panel/_host_tabs.py,  *)
(* _storage_tabs.py, ui/pbs_panel.py): what tells one from another.  What  *)
(* these mean is in module Pages.                                          *)
(*                                                                         *)
(* guard:   which answers are taken: of the object that is shown, of the   *)
(*          last selection, of the last load; any while an object with     *)
(*          such a page is shown ("pane"), or any at all                   *)
(* clears:  when the old rows give way to "Loading...": when another       *)
(*          object is selected, with every load, or never; or it covers    *)
(*          them with every load, and they go with another selection       *)
(*          ("covers")                                                     *)
(* without: what an object without a configuration finds there             *)
(* fans:    one worker, or one for each member, whose rows are added as    *)
(*          they come, also counted, or shown when all are there           *)
(* fails:   whether an error is written where the rows were, nothing at    *)
(*          all is done, or only the spinner taken away ("uncovers")       *)
(* off:     what else takes the spinner away, though the page is not its:  *)
(*          errors, all answers, or nothing ("taken")                      *)
(* first:   it is loaded for the first storage of that name that the list  *)
(*          has for the host or the cluster, whichever of them is selected *)
(* caches:  answers are kept until the lists are replaced, by node name    *)
(* acts:    whose server a change from the page goes to: of the object     *)
(*          shown, of the last one loaded; again: what its success loads:  *)
(*          that one, the one it was for, the one shown                    *)
(***************************************************************************)
Guards == {"object", "selection", "load", "pane", "any"}
Page == [guard : Guards, clears : {"select", "load", "covers", "never"},
         without : {"message", "loading", "stays"}, fans : {"one", "adds", "counts", "all"},
         fails : {"message", "stays", "uncovers"}, off : {"taken", "errors", "all"},
         acts : {"shown", "kept", "nobody"}, again : {"shown", "kept", "captured", "never"},
         selects : BOOLEAN, asks : BOOLEAN, first : BOOLEAN, caches : BOOLEAN]

View(guard, clears, without, fans) ==
    [guard |-> guard, clears |-> clears, without |-> without, fans |-> fans, fails |-> "message",
     off |-> "taken", acts |-> "nobody", again |-> "never", selects |-> TRUE, asks |-> FALSE,
     first |-> FALSE, caches |-> FALSE]
Changes(view, acts, again) == [view EXCEPT !.acts = acts, !.again = again]
----------------------------------------------------------------------------
(* A host.                                                                  *)
fetch_host_network == Changes(View("object", "select", "message", "one"), "shown", "captured")
fetch_host_services == View("object", "select", "message", "one")
fetch_host_disks == View("object", "select", "message", "one")
fetch_host_snapshots == View("object", "select", "message", "one")
fetch_host_health == View("object", "select", "message", "one")
(* Also when the time frame changes and when the tree is refreshed.         *)
fetch_host_metrics ==
    [View("selection", "covers", "message", "one")
        EXCEPT !.fails = "uncovers", !.off = "errors", !.asks = TRUE, !.caches = TRUE]

(* A cluster.                                                               *)
_fetch_cluster_snapshots == View("selection", "load", "loading", "adds")
_fetch_cluster_health == View("selection", "load", "message", "all")
_fetch_cluster_status == View("any", "never", "stays", "one")
fetch_ha == [Changes(View("any", "never", "stays", "one"), "shown", "captured") EXCEPT !.asks = TRUE]

(* Both.  The tokens are loaded when the users have come, for these.        *)
_fetch_backup_jobs == Changes(View("any", "load", "message", "one"), "kept", "captured")
_fetch_access_users == Changes(View("pane", "load", "message", "one"), "kept", "captured")
_fetch_access_groups == Changes(View("pane", "load", "message", "one"), "kept", "captured")
_fetch_access_roles == Changes(View("pane", "load", "message", "one"), "kept", "captured")
_fetch_access_acl == Changes(View("pane", "load", "message", "one"), "kept", "captured")
_fetch_access_tokens ==
    [Changes(View("load", "load", "stays", "counts"), "kept", "captured")
        EXCEPT !.selects = FALSE, !.asks = TRUE]

(* A storage.                                                               *)
OfFirst(view) == [view EXCEPT !.first = TRUE]
load_storage_content ==
    OfFirst(Changes(View("object", "load", "message", "all"), "kept", "shown"))
fetch_storage_backups_simple ==
    OfFirst(Changes(View("object", "load", "message", "one"), "kept", "kept"))
fetch_storage_disks_simple ==
    OfFirst(Changes(View("object", "load", "message", "one"), "kept", "shown"))
fetch_storage_metrics ==
    [OfFirst(View("object", "load", "stays", "one"))
        EXCEPT !.fails = "uncovers", !.off = "all", !.asks = TRUE]

(* A backup server or a datastore: the tag of the worker names it.          *)
_load_datastores == [View("object", "never", "stays", "one") EXCEPT !.fails = "stays"]
_load_snapshots ==
    [Changes(View("object", "never", "stays", "one"), "shown", "shown") EXCEPT !.fails = "stays"]
_load_jobs ==
    [Changes(View("object", "never", "stays", "one"), "shown", "shown") EXCEPT !.fails = "stays"]

AllPages == {
    fetch_host_network, fetch_host_services, fetch_host_disks, fetch_host_snapshots,
    fetch_host_health, fetch_host_metrics, _fetch_cluster_snapshots, _fetch_cluster_health,
    _fetch_cluster_status, fetch_ha, _fetch_backup_jobs, _fetch_access_users,
    _fetch_access_groups, _fetch_access_roles, _fetch_access_acl, _fetch_access_tokens,
    load_storage_content, fetch_storage_backups_simple, fetch_storage_disks_simple,
    fetch_storage_metrics, _load_datastores, _load_snapshots, _load_jobs}
=============================================================================
