----------------------------- MODULE DetailView -----------------------------
(***************************************************************************)
(* The VM tabs of the detail panel (ui/detail_panel/__init__.py,           *)
(* _vm_tabs.py): what they show while objects are selected one after the   *)
(* other, answers come late, changes end and reload their tab, and         *)
(* refreshes replace the lists.                                            *)
(*                                                                         *)
(* The tabs have the selection, _last_vm_data and the generation in common *)
(* and nothing else, so a behaviour follows one of them.  The limits of    *)
(* the worker manager are in WorkerManager: here every worker is started,  *)
(* and Workers bounds how many are under way.                              *)
(***************************************************************************)
EXTENDS Naturals, FiniteSets

CONSTANTS
    Vms,       \* VMs of configured hosts
    Workers,   \* the workers of the panel
    Storages,  \* how many storages of a node take backups
    None       \* no VM, no job

Panes == {"hardware", "history", "snapshots", "metrics", "backups"}

VARIABLES
    pane,      \* the tab this behaviour follows
    view,      \* the VM selected; None stands for any other object
    last,      \* _last_vm_data
    cache,     \* VMs in config_cache, task_history_cache, ...: the pane's own
    shown,     \* VMs the pane shows data of
    loading,   \* it shows "Loading..."
    work,      \* [Workers -> the worker's job, or None]
    due,       \* _vm_backup_pending, 0 when it has been removed
    found,     \* VMs whose archives are in _vm_backup_all
    counting   \* _vm_backup_gen: "none", that of the current view ("now"), "old"

display == <<shown, loading>>
backups == <<due, found, counting>>
vars == <<pane, view, last, cache, display, work, backups>>
----------------------------------------------------------------------------
(* "load" is started with the view, "reload" after a change; "detail" are   *)
(* the VmDetailWorkers of a view, "after" those that follow a power action. *)
(* now: the generation a slot has bound is still the panel's.               *)
Deeds == {"load", "reload", "detail", "after", "power", "change"}
Job == [does : Deeds, vm : Vms, now : BOOLEAN]
For(does, v) == [does |-> does, vm |-> v, now |-> TRUE]

ASSUME DetailAssumption ==
    /\ Storages \in Nat \ {0}
    /\ None \notin Vms \cup Job

Idle == {w \in Workers : work[w] = None}
TrackedByView(job) ==
    \/ job.does = "detail"
    \/ job.does = "load" /\ pane \in {"hardware", "history", "snapshots"}
Tracked(job) ==
    \/ job.does \in {"detail", "after"}
    \/ job.does = "load" /\ pane \in {"hardware", "history", "snapshots"}

(* show_details: the tracked workers are disconnected, the others go on     *)
(* with a generation that has passed.                                       *)
AfterSelection ==
    [w \in Workers |-> IF work[w] = None \/ Tracked(work[w]) THEN None
                       ELSE [work[w] EXCEPT !.now = FALSE]]
(* cancel_detail_worker *)
WithoutDetail ==
    [w \in Workers |-> IF work[w] # None /\ work[w].does \in {"detail", "after"} THEN None
                       ELSE work[w]]

(* The workers in ws take up a job; how many a pane needs.                  *)
Given(base, ws, job) == [w \in Workers |-> IF w \in ws THEN job ELSE base[w]]
Freed(base, w) == [base EXCEPT ![w] = None]
Needs == IF pane = "backups" THEN Storages ELSE 1
Crews(base) == {ws \in SUBSET Workers : Cardinality(ws) = Needs /\ \A w \in ws : base[w] = None}

Init ==
    /\ pane \in Panes
    /\ view = None /\ last = None
    /\ cache = {}
    /\ shown = {} /\ loading = FALSE
    /\ work = [w \in Workers |-> None]
    /\ due = 0 /\ found = {} /\ counting = "none"
----------------------------------------------------------------------------
(* What of the last load the next one finds in the panel's attributes.      *)
Passed == IF counting = "now" THEN "old" ELSE counting
CountOnTop ==
    IF pane = "backups" THEN due' = due + Storages /\ found' = {} /\ counting' = "now"
    ELSE UNCHANGED backups
CountAnew ==
    IF pane = "backups" THEN due' = Storages /\ found' = {} /\ counting' = "now"
    ELSE UNCHANGED backups

ShowOther ==
    /\ view' = None
    /\ shown' = IF pane = "metrics" THEN {} ELSE shown
    /\ work' = AfterSelection
    /\ counting' = Passed
    /\ UNCHANGED <<pane, last, cache, loading, due, found>>

(* show_vm_info_init: the pane from its cache, or empty and a worker.  The  *)
(* details, which another cache holds, may be asked for too.                *)
Opened(base, v) ==
    IF v \in cache
    THEN /\ shown' = {v} /\ loading' = FALSE
         /\ work' = base
         /\ counting' = Passed /\ UNCHANGED <<due, found>>
    ELSE /\ shown' = {} /\ loading' = (pane # "hardware")
         /\ \E ws \in Crews(base) : work' = Given(base, ws, For("load", v))
         /\ CountAnew

ShowVm(v) ==
    /\ view' = v /\ last' = v
    /\ \/ Opened(AfterSelection, v)
       \/ \E w \in Workers :
            /\ AfterSelection[w] = None
            /\ Opened(Given(AfterSelection, {w}, For("detail", v)), v)
    /\ UNCHANGED <<pane, cache>>

(* show_vm_metrics *)
MetricsAgain(v) ==
    IF v \in cache
    THEN shown' = {v} /\ loading' = FALSE /\ UNCHANGED work
    ELSE /\ loading' = TRUE /\ UNCHANGED shown
         /\ \E ws \in Crews(work) : work' = Given(work, ws, For("load", v))

(* set_lists of a refresh, which empties the caches; refresh_current_view   *)
(* does not always follow.                                                  *)
SetLists ==
    /\ cache' = {}
    /\ UNCHANGED <<pane, view, last, display, work, backups>>

RefreshCurrentView ==
    /\ pane = "metrics" /\ view # None
    /\ MetricsAgain(view)
    /\ UNCHANGED <<pane, view, last, cache, backups>>

(* _on_timeframe_changed: the cache may lack the new one.                   *)
TimeframeChanged ==
    /\ pane = "metrics" /\ view # None
    /\ \/ MetricsAgain(last)
       \/ /\ loading' = TRUE /\ UNCHANGED shown
          /\ \E ws \in Crews(work) : work' = Given(work, ws, For("load", last))
    /\ UNCHANGED <<pane, view, last, cache, backups>>
----------------------------------------------------------------------------
(* on_config_loaded, on_tasks_loaded, on_snapshots_loaded and               *)
(* on_metrics_fetched, each with its own guards.                            *)
Counts(job) == job.now
IsShownAlways(job) == TRUE
IsShown(job) == last = job.vm
LoadedBehindPage(job) ==
    IF ~Counts(job) \/ (pane = "metrics" /\ ~IsShown(job))
    THEN UNCHANGED <<cache, display>>
    ELSE /\ cache' = cache \cup {job.vm}
         /\ shown' = IF IsShown(job) THEN {job.vm} ELSE shown
         /\ UNCHANGED loading
Loaded(job) ==
    IF ~Counts(job) \/ (pane = "metrics" /\ ~IsShown(job))
    THEN UNCHANGED <<cache, display>>
    ELSE /\ cache' = cache \cup {job.vm}
         /\ shown' = IF IsShown(job) THEN {job.vm} ELSE shown
         /\ loading' = (loading /\ ~IsShown(job) /\ pane # "history")

(* The error slots: that of the metrics has no guard, that of the           *)
(* configuration does nothing, that of the snapshots shows the error.       *)
Failed(job) ==
    CASE pane \in {"metrics", "history"} -> loading' = FALSE /\ UNCHANGED <<cache, shown>>
      [] pane = "snapshots" /\ Counts(job) /\ IsShown(job) ->
            cache' = cache \ {job.vm} /\ shown' = {} /\ loading' = FALSE
      [] OTHER -> UNCHANGED <<cache, display>>

Answer(w) ==
    /\ pane # "backups"
    /\ work[w] # None /\ work[w].does \in {"load", "reload"}
    /\ Loaded(work[w]) \/ Failed(work[w])
    /\ work' = Freed(work, w)
    /\ UNCHANGED <<pane, view, last, backups>>

(* on_vm_backups_loaded: the answer of one storage, an error being an empty *)
(* one.  The generation it looks at is the panel's, not the worker's.       *)
BackupsStale(job) == counting = "old"
LastBackups(all) ==
    /\ due' = 0 /\ found' = {} /\ counting' = "none"
    /\ shown' = all
    /\ loading' = FALSE

BackupsAnswer(w) ==
    /\ pane = "backups"
    /\ work[w] # None /\ work[w].does \in {"load", "reload"}
    /\ work' = Freed(work, w)
    /\ IF BackupsStale(work[w]) \/ due = 0
       THEN UNCHANGED <<display, backups>>
       ELSE \E archives \in {{}, {work[w].vm}} :
            IF due > 1
            THEN /\ due' = due - 1 /\ found' = found \cup archives
                 /\ UNCHANGED <<counting, display>>
            ELSE LastBackups(found \cup archives)
    /\ UNCHANGED <<pane, view, last, cache>>

(* on_detail_loaded; with the configuration in the cache it shows both.     *)
DetailLoaded(w) ==
    /\ work[w] # None /\ work[w].does = "detail"
    /\ work' = Freed(work, w)
    /\ IF work[w].now
       THEN /\ last' = work[w].vm
            /\ shown' = IF pane = "hardware" /\ work[w].vm \in cache THEN {work[w].vm} ELSE shown
       ELSE UNCHANGED <<last, shown>>
    /\ UNCHANGED <<pane, view, cache, loading, backups>>

ActionDetailLoaded(w) ==
    /\ work[w] # None /\ work[w].does = "after"
    /\ work' = Freed(work, w)
    /\ last' = work[w].vm
    /\ UNCHANGED <<pane, view, cache, display, backups>>

DetailFails(w) ==
    /\ work[w] # None /\ work[w].does \in {"detail", "after"}
    /\ work' = Freed(work, w)
    /\ UNCHANGED <<pane, view, last, cache, display, backups>>
----------------------------------------------------------------------------
(* on_vm_action and, when it has succeeded, refresh_after_action.           *)
OnVmAction ==
    /\ view # None
    /\ \E w \in Idle : work' = Given(work, {w}, For("power", last))
    /\ UNCHANGED <<pane, view, last, cache, display, backups>>

ActionFinished(w) ==
    /\ work[w] # None /\ work[w].does = "power"
    /\ work' = Given(Freed(WithoutDetail, w), {w}, For("after", last))
    /\ UNCHANGED <<pane, view, last, cache, display, backups>>

(* A change made on a tab: of the configuration or a disk, a snapshot, a    *)
(* backup.                                                                  *)
ChangeRequested ==
    /\ view # None /\ pane \in {"hardware", "snapshots", "backups"}
    /\ \E w \in Idle : work' = Given(work, {w}, For("change", last))
    /\ UNCHANGED <<pane, view, last, cache, display, backups>>

(* reload_config, reload_snapshots, load_vm_backups: for the VM of the      *)
(* change, whatever is selected by now, and in the present generation.      *)
Changed(w) ==
    /\ work[w] # None /\ work[w].does = "change"
    /\ LET v == work[w].vm
           base == Freed(work, w)
       IN  /\ cache' = cache \ {v}
           /\ IF pane = "hardware" THEN UNCHANGED display ELSE shown' = {} /\ loading' = TRUE
           /\ \E ws \in Crews(base) : work' = Given(base, ws, For("reload", v))
    /\ CountAnew
    /\ UNCHANGED <<pane, view, last>>

Refused(w) ==
    /\ work[w] # None /\ work[w].does \in {"power", "change"}
    /\ work' = Freed(work, w)
    /\ UNCHANGED <<pane, view, last, cache, display, backups>>
----------------------------------------------------------------------------
Next ==
    \/ ShowOther
    \/ \E v \in Vms : ShowVm(v)
    \/ SetLists \/ RefreshCurrentView \/ TimeframeChanged
    \/ OnVmAction \/ ChangeRequested
    \/ \E w \in Workers :
        \/ Answer(w) \/ BackupsAnswer(w)
        \/ DetailLoaded(w) \/ ActionDetailLoaded(w) \/ DetailFails(w)
        \/ ActionFinished(w) \/ Changed(w) \/ Refused(w)

Spec == Init /\ [][Next]_vars
----------------------------------------------------------------------------
TypeOK ==
    /\ pane \in Panes
    /\ view \in Vms \cup {None} /\ last \in Vms \cup {None}
    /\ cache \subseteq Vms /\ shown \subseteq Vms /\ found \subseteq Vms
    /\ loading \in BOOLEAN
    /\ work \in [Workers -> Job \cup {None}]
    /\ due \in 0..Storages
    /\ counting \in {"none", "now", "old"}

(* Power actions, snapshots and consoles go to _last_vm_data: while a VM is *)
(* on the screen it is that VM, although late details replace it and        *)
(* selecting another object does not clear it.                              *)
ActsOnSelected == view # None => last = view

(* Whatever is selected in whatever order and however late answers and      *)
(* reloads are, a tab shows data of the selected VM only (the generation    *)
(* and object guards of the result slots).  The backups tab is the next.    *)
OwnData == view # None /\ pane # "backups" => shown \subseteq {view}

(* "VM backup tab: generation guard prevents cross-VM data corruption on    *)
(* rapid switch" (CHANGELOG.md:162): it lists archives of the selected VM.  *)
OwnBackups == view # None /\ pane = "backups" => shown \subseteq {view}

(* "Loading..." is never the last word on a VM's history or metrics: there  *)
(* is a worker whose answer the slots will not turn away.                   *)
LoadingIsAwaited ==
    view # None /\ loading /\ pane \in {"history", "metrics"}
    => \E w \in Workers : work[w] = For("load", view)
=============================================================================
