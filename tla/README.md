# A verification project for VirtDeck

VirtDeck is a desktop client for Proxmox VE: a Qt window with a tree of hosts,
nodes, VMs and storages, a detail panel for what is selected, and background
workers that talk to the servers. This directory holds TLA+ modules of the parts
in which its state is hard to get right, the TLC runs that check them, and
proofs for TLAPS. `PROJECT.json` lists the components, runs, mutants, hazards,
findings and theorems; its `map` names, for every definition that models code,
the lines it was translated from.

    tlc -workers 2 -config MCRefresh_safety.cfg MCRefresh     # one run
    tlapm RefreshProofs.tla                                   # one module's proofs

## 1. The system

VirtDeck has one main thread, Qt's, and a bounded set of worker threads. A slot
(a handler of a signal, a timer or a click) runs to its end on the main thread,
so a slot is one atomic step. What happens between slots is not: a worker posts
its results to the main thread's queue, and between the start of a worker and
the arrival of its result any other slot may have run. That is where almost all
of the difficulty of this program lies.

| part | code | state | operations | with whom |
|---|---|---|---|---|
| refresh cycles | `backend/refresh.py`, `ui/mainwindow.py` 420-467, 1397-1785 | generations, pending workers, counters of the soft cycle, two pairs of repositories, spinner and loading marks, `_workers` | `refresh_data`, `soft_refresh` (every 20 s), the two result slots, `_run_worker`, `_discard_worker`, add, import and remove hosts | starts FetchWorkers, fills the repositories, saves the offline cache, tells tree and panel |
| fetch worker | `backend/fetch.py` | what its helper threads have read so far | `run` with seven kinds of helper threads, `cancel` | the provider; its result goes to the cycle that started it |
| detail panel workers | `ui/detail_panel/_worker_manager.py` | active workers, queue, host workers, one current worker per role | `run_worker`, `run_host_worker`, `discard_worker`, the cancels | all tabs of the detail panel |
| optimistic actions | `ui/optimistic.py`, `ui/mainwindow.py` 873-901, `backend/vm.py` 383-420 | `_pending`, the VMs it patched | `apply`, `confirm`, `rollback`, the worker's answers | the repositories, which refreshes replace meanwhile |
| offline cache | `config.py` 510-552 | one row in SQLite | save, load | refresh cycles, start-up |
| configuration store | `config.py` 60-473, `ui/mainwindow.py` 1280-1395 | the list of servers, the indexes by name of the window and the panels, rows in SQLite, tokens in the keyring | load, save, import, add, move, remove, refresh a token, mark as joined | main window, panels, keyring |
| repositories | `domain/repositories.py` | objects by key, indexes by host and node | add, remove, look-ups | refresh cycles, actions |
| detail panel view | `ui/detail_panel/` | current object, generation, caches by object, `_last_vm_data` | `show_details`, `set_lists`, the result slots of every tab | its workers; refreshes replace the objects it shows |
| bulk actions | `backend/vm.py` 425-482, `domain/bulk.py`, `ui/mainwindow.py` 903-967 | targets, cancel flag, progress dialog | plan, run, cancel | pool, notifications |
| VM life cycle | `backend/vmops.py`, `backend/core.py` 48-64, `provider/_tasks.py` | the step of a multi-step operation | create, clone, migrate, delete, convert, restore, await a task | pool, server tasks |
| detail panel pages | `ui/detail_panel/_host_tabs.py`, `_storage_tabs.py`, `ui/pbs_panel.py` | per page: what it shows, what was gathered, the configuration of the last load | load on selection or on request, the result slots, changes and the reload after them | its workers, `show_details`, the index by name |
| console | `backend/console.py`, `ui/console/bridge.py` | thread, event loop, server, upstream | start, stop, relay | main window |
| session | `provider/_session.py` | the connection, closed or not | call, close | every worker, and the helper threads of one fetch at the same time |
| API tokens | `backend/tokens.py`, `ui/add_server_dialog.py` | the token on the server, in the keyring, in the node list | create, delete, add the hosts of a cluster | configuration store |
| event bus | `backend/events.py` | handlers by topic | subscribe, unsubscribe, publish | nobody yet: a seed for later versions |
| one-call workers | the rest of `backend/`, `pbs/` | none after `run` | open, call, emit, close, finished | pool, WorkerManager |
| presentation | the rest of `ui/`, `domain/` | forms, tables, parsing | | |

### What makes it hard

 1. *Late answers.* A generation number decides whether a result still counts.
    It must be bumped whenever a cycle is abandoned, and the books (who is still
    awaited, how many results are expected) must follow it exactly.
 2. *A full pool.* `_run_worker` refuses a worker when sixteen are active. Every
    caller has to know what to do then; some do not.
 3. *Slots freed by two signals.* A worker leaves `_workers` in its result slot
    and again with `finished`; one that never emits `finished` never leaves.
 4. *Patching what a refresh replaces.* Optimistic statuses live in repositories
    that a hard cycle clears and a soft cycle swaps.
 5. *Threads that cannot be stopped.* Joins have time-outs; a late helper goes
    on and writes into variables that are being read.
 6. *Restarts.* The offline cache and the node list survive, nothing else does.

`PROJECT.json` has the full list under `hazards`, each at its line, with the
properties that would catch it, or the reason why none does.

## 2. The modules

| module | what it is | EXTENDS or INSTANCE |
|---|---|---|
| `RefreshContract` | abstract: two sets of awaited hosts, and what an answer may change | |
| `Refresh` | detailed: refresh cycles, pool, repositories, cache, configuration changes, restarts; implements the contract | `RefreshContract` |
| `RefreshClaims` | a claim about the hosts a full pool leaves out, with a history variable | `Refresh` |
| `RefreshProofs` | types, the safety properties, the refinement | `Refresh` |
| `WorkerManager` | the detail panel's workers with their queue | |
| `WorkerManagerProofs` | its types and safety properties, the order of the queue | `WorkerManager` |
| `VmActions` | optimistic power actions, their workers, the server's tasks, refreshes | |
| `VmActionsClaims` | a claim about tokens | `VmActions` |
| `VmActionsProofs` | its types and safety properties | `VmActions` |
| `FetchContract` | abstract: what a refresh cycle relies on in one fetch | |
| `Fetch` | detailed: `FetchWorker.run` and its helper threads; implements the contract | `FetchContract` |
| `FetchProofs` | types, completeness, the refinement | `Fetch` |
| `ProviderApi` | the methods of the provider, by what their request does at the server | |
| `Workers` | every worker class, as the programs of requests its `run()` can be | `ProviderApi` |
| `WindowSlots` | every slot that starts a worker: which one, and what follows its answer | `Workers` |
| `OperationContract` | abstract: what the window relies on in one operation | |
| `Operation` | detailed: one job run against a server, heard by the window; implements the contract | `OperationContract` |
| `OperationProofs` | types, safety, the order of a run, the refinement, for any jobs | `Operation` |
| `ServersContract` | abstract: a list that is shown, and the rows and tokens that outlive it | |
| `Servers` | detailed: the list of servers, its indexes, database and keyring, with crashes between writes; implements the contract | `ServersContract` |
| `ServersProofs` | types, safety, the refinement, for any lists | `Servers` |
| `PageTable` | every page of the panels that workers fill, as a record of its differences | |
| `Pages` | what a page does while selections, late answers and changes interleave | `PageTable` |
| `PagesProofs` | types and safety properties of the pages | `Pages` |
| `DetailView` | the VM tabs of the detail panel while selections, late answers, changes and refreshes interleave | |
| `DetailProofs` | its types and safety properties | `DetailView` |
| `MC...` | instances for TLC: model values, symmetry, definitions for the .cfg | |

How they fit together: `Refresh` treats a fetch as a worker that reports once
and then finishes. `FetchContract` is that assumption, and `Fetch` is shown to
implement it, so the fairness `Refresh` asks of its workers rests on the code of
the worker and not on hope. What the rest of the window may rely on in the cycles is
`RefreshContract`, and in the list of servers `ServersContract`. `VmActions` sees of the refresh cycles what they do
to one host's VMs: by `HardAccount` and `SoftAccount` only the results of the
current generation count, so there is one hard and one soft fetch that matter.
`DetailView` and `Pages` leave the limits of the panel's workers to `WorkerManager`, whose
`QueueDrains` says that a worker asked for is started or cancelled. `MCOperations`
composes `Operation`, which knows no class of workers, with the jobs of `WindowSlots`, so
that every slot of the program is run in every way its worker can go.

Some definitions are preceded by a variant that no other definition uses, such as
`PumpNewest` before `Pump`: a plausible mistake at that place, which the
`mutants` of `PROJECT.json` put in to see that a property notices.

### Refresh

*State.* `hardGen`, `hardPending`, `softGen`, `softRunning`, `softDone`,
`softExpected` are the fields of `RefreshCoordinator`; `expired` stands for the
clock of `soft_timed_out`. `pool` and `ops` are `_workers`, split into fetches and
everything else; `inflight` are the fetches whose result has not been received.
`repo` and `softRepo` are the two pairs of repositories, as sets of items: a host has
a node (by short name, or a stub named after the config) and a VM, each live,
failed or cached. `cache` and `saved` are the row on disk.

*Actions.* `RefreshData`, `AddServers` and `HostRemove` are `refresh_data` with
the configuration before or after a change. `HardResult`, `HardStale` and
`HardFinished` are `on_worker_finished` and `_discard_worker`. `SoftTickIdle` and
`SoftTickLaunch` are `soft_refresh`; `SoftPart`, `SoftLast` and `SoftStale` are
`on_soft_refresh_result` with the discard in the same slot. `OpStart` and
`OpFinished` are every other operation that uses the pool. `Restart` may come
at any time.

*Abstractions.* A fetch's outcome is chosen when the slot receives it; nothing
looks at it before. Generations are counted to `GenBound` and reused, which
Python's integers are not: `Unused` keeps a reused number from meeting a worker
that still has it. A host's VMs are one item: no slot treats two VMs of
one host differently.

*Contract.* In `RefreshContract` a cycle is the set of hosts it waits for. There are no
generations, counters, slots or time-outs: an answer that is not waited for changes
nothing, one that is changes what is known of its own host, the tree changes hands only
with the last answer of a soft cycle, and the disk holds nothing but the result of a whole
cycle. The refinement maps the awaited hosts to those of `CurrentHard` and `CurrentSoft`.

### WorkerManager

`mgr` holds `_workers`, `current_host_workers` and `_pending`, and which workers
are on a thread; `current` the four attributes that name the worker of a role.
The slots of the tabs that use it come in four shapes: start a worker
(`RunWorker`), receive its result (`ResultArrives`), receive it and
then start another one, or refresh the view (`ResultThenReload`,
`ResultThenRefresh`), and `Finished`. `ShowDetails` is the selection of another
object: it cancels, clears the queue and starts what the new view needs, in one slot.
Worker identities may be reused once nothing refers to them, as memory is.

### VmActions

`server` is the truth, `tasks` what the server has accepted and not yet done,
`repo` what the tree shows (with a ghost field: was it read or is it hoped for),
`pending` is `OptimisticVMs._pending`, `work` the workers with their
answers, `hard` and `soft` the two fetches that count and what they read. `Act`
is the tree's slot; `ActRefused` the same slot when the pool is full; `Called` the
worker's HTTP call, where acceptance by the server and the answer the client
gets are chosen independently, except that a positive answer means acceptance;
`Confirm` and `Rollback` the answer slots. `SoftArrives` and `SoftEmpty` are the two ends of
a background cycle: with rows, which are swapped in, and with none, as when every host
answers ok and empty (`fetch.py:128`), where the tree stays as it is. Actions differ only in the status they aim at, so
"start" stands for resume, reboot and reset too, and "stop" for shutdown.

### Fetch

`clusterRep` is the flag of the worker: a host that stands for its cluster is
read with `list_resources`, another by its own node, with the pools beside its
VMs. `main` is where `run()` stands, `helper` where each helper thread does. `nodes`, `vms`
and `storages` are the variables they share, as far as they are filled in; `known` and
`iso` the dictionaries. The joins (`LeavePhase1`, `LeaveStorage`, ...) may come at
any moment, which is their time-out; a thread that is late goes on. The
assembly of the result reads one variable after the other (`Take`). `smooth` is
history: no call has failed so far and nobody was late when due.

### DetailView

*State.* `view` is the VM selected, `last` the panel's `_last_vm_data`, `cache` the
VMs in the cache of the tab, `shown` the VMs whose data it shows, `loading`
whether its stack shows "Loading...". A worker's job remembers the VM and whether
the generation its slot has bound is still the panel's (`now`). `due`, `found`
and `counting` are `_vm_backup_pending`, `_vm_backup_all` and `_vm_backup_gen`.

*Actions.* `ShowVm` and `ShowOther` are `show_details` with what it calls; `SetLists`
and `RefreshCurrentView` what a refresh does to the panel; `Answer`,
`BackupsAnswer`, `DetailLoaded` and `ActionDetailLoaded` the result slots, each with its own
guards; `Changed` the slot of a change, which drops the cached answer and
starts a reload; `ActionFinished` that of a power action.

*Abstractions.* The tabs have only the selection, `_last_vm_data` and the
generation in common, so a behaviour follows one of them, chosen at the start.
What a disconnected worker emits is received by nobody, so it leaves the model when
it is cancelled. All VMs belong to configured hosts, and a node has `Storages`
storages that take backups.

### Operation, Workers, WindowSlots

*State.* `job` is the program of a worker with what its slot does afterwards; `at` and
`pc` where `run()` stands; `effect` what has become of each request at the server; `told`
and `ended` what was emitted; `heard`, `tracked` and `refresh` what the window made of it.

*Programs.* A worker's `run()` is a sequence of steps. A step says what its request does
("read", "change", "task") and what the code does with an exception: it ends the worker
("must"), also when the task it started ends badly ("await", `_await_task`), is passed over
("try", an `except` that goes on), leads to the same request again ("again"), or ends one
VM of a bulk ("item"). `skip` is the number of later steps a success makes superfluous,
which is how a fall-back is written. So `CreateVmWorker` is the next VMID if none is
given, the creation which is waited for, and the HA resource if one is wanted; arguments
that change the program make a set of programs. An error that the code tells apart by
its text (SPICE "not supported") gives both programs.

*Actions.* `Run` and `Reject` are `_run_worker`. `Open`, `Send`, `Answered`, `Raises`,
`SeesEnd`, `GivesUp`, `Succeed`, `Fail` and `Finish` are the thread; `Serve` is the server.
`Raises` may happen whatever the server has done: the request was lost, or its answer was.
`GivesUp` is a poll that fails or the time-out of `poll`, whatever the task does.
`HearAnswer`, `HearFinished` and `RefreshData` are slots; `Cancel` and `Quit` the user.

*Abstractions.* One job at a time: operations share only the pool (`Refresh`,
`WorkerManager`) and the objects they act on (`VmActions`). What an answer contains is left
out, and so are the checks of arguments that only end in a message. A bulk reads its
cancel flag with the request that follows. A worker with threads of
its own (tasks, disks, snapshots of all VMs) is a sequence of requests that may
each fail; a loop over VMs is two of them.

### Servers

`list` is `nodes_cfg`. The program keeps references to the same dicts in several places
(`_cfg_by_name`, the panels' index, open dialogs, the worker of a cluster join), and some slots
put a new dict in the place of an old one; so a reference is a place of the list, or `Gone`.
A slot ends with `Leave`: the new list, the panels' index, and `todo`, the writes of
`save_config` and `delete_node_tokens` in their order. `Commit`, `_save_token` and
`_delete_token` carry these out, the keyring's writes may each fail, and `End` may come
between any two. `CommitRaises` is a `save_config` that raises (`config.py:256-270`): the list
has been changed, the rows have not, and the rest of `todo` is given up with the slot; `raised`
counts such saves since one succeeded. An import stores by itself before the window has
the list, so one that raises there (`ImportRaises`) changes nothing but the keyring. `legacy`
are keyring entries under the service's old name. `_load_token` reads name by name: at a start and
an import `readable` are the names whose token the keyring gives, the others get a blank one,
and `moved` those of the old service that it could write under the new one. Dialogs are modal, but
workers answer while they are open.

In `ServersContract` the slots are one action, `Change`, which may only come when the rows
are those of the list shown, or while the store refuses; each write is atomic, `End` may come
between any two, and a token is replaced by the one shown or, when its server is gone from the
rows, dropped. `Start` shows the rows with the tokens of any set of names. The refinement maps
`raised > 0` to `refused`, and `todo`, the indexes and `legacy` to nothing.

### Pages

A page of the host, cluster, storage and backup-server panels is loaded by workers, and
the 23 pages differ in a few respects only, which `PageTable` tells of each: which
answers its slot takes (`guard`), when old rows are cleared (`clears`), whether the answers of
several workers are added up or gathered (`fans`), what an error or a missing
configuration leaves there, and which configuration its buttons use (`acts`, `again`). `Pages`
is what any such page does: `Select` is `show_details` with the load it leads to, `Ask` a
refresh of the page itself, `Answer` and its variants the result slots, `Change` and
`Changed` a change made from it and the reload after its success, `set_lists` what a refresh does
to the panel. A behaviour follows one page, chosen at the start, because pages have only the
selection in common. `configured` is fixed: the configurations do not change while the page is up.

Two kinds of pages mix objects up, and `taken` says which: the host's metrics are
cached under the name of the node (`cache`, `Cached`; `_host_tabs.py:1471`), and the pages of a
storage (`first`) are loaded for the first row of its name, `filtered[0]`, whichever was
selected (`Source`; `_storage_tabs.py:529`, 644, 826). A worker carries the object it was
started for, so the guards drop what was loaded for the first in the place of another.
The first of a name may change when the lists are replaced. Some slots take the spinner away
before they look whose answer it is (`off`, `Refused`). `instead` is history: the last load
was one for the first in the place of the storage shown. The cache stands for one time frame.

## 3. The runs

Passing runs. Sizes are those of TLC with the constants in the `.cfg`.

| run | instance | distinct states | asks |
|---|---|---|---|
| `refresh_safety` | 2 hosts, 1 other operation, 2 slots, 4 generations, outcomes full and empty | 1.0 M | `HardAccount`, `SoftAccount`, `RemovedHostStaysGone`, `NeverBlanked`, `KeepsContract` |
| `refresh_liveness` | the same with 2 generations, outcomes full and error, an operation that never gives its slot back | 0.18 M | `LoadingEnds`, `SoftCycleEnds` |
| `manager` | 5 workers, 2 slots, queue of 2, three kinds of view | 0.10 M | `NoIdleSlot`, `SlotsComeBack`, `NoOvertaking`, `TakesTurns`, `QueueDrains` |
| `actions` | 1 VM, 2 workers, running or stopped, the pool may be full | 0.19 M | `NoUnmarkedGuess`, `RollsBackToFact`, `NotResurrected`, `MarkIsKept`, `Converges`, `PendingEnds` |
| `fetch` | a host with two nodes, both with ISO images, as the representative of its cluster and by itself | 1.2 M | `TypeOK`, `Complete`, `KeepsContract` |
| `detail_panes` | 2 VMs, 4 workers, 2 backup storages, each of the five tabs | 43 k, symmetric | `TypeOK`, `ActsOnSelected`, `OwnData`, `LoadingIsAwaited` |
| `operations` | every job of `WindowSlots` | 13 k | `SuccessIsWhole`, `AgainOnlyIfRefused`, `NoneLeftOut`, `LeadsOn`, `PlaceComesBack`, `KeepsContract` |
| `servers` | 2 names, 2 addresses, 2 tokens, at most 2 servers in the list, 1 in a group, 1 token of the old service, 1 save in a row that raises | 1.6 M, symmetric | `RestartRestores`, `ActsOnListed`, `TokenStays`, `KeepsContract` |
| `pages` | all 23 pages, 2 objects and one without pages, 2 parts, 3 loads | 0.61 M | `OwnPage`, `WholePage`, `LoadingIsAwaited`, `LoadingEnds` |

Type invariants are proved, and only two runs spend time on theirs. What the properties say,
beyond types:

 * `HardAccount`, `SoftAccount`: the books of both cycles are exact. The hard cycle
   waits for just the workers that will still report in its generation; the soft
   one has counted, and will count, exactly what it expects. So a cycle ends
   with its last result, never before, and needs no time-out to end.
 * `RemovedHostStaysGone`: no late answer brings back a host that was removed.
 * `NeverBlanked`: only a hard cycle empties the tree, and it shows loading marks.
   `LoadingEnds`: these end, online and offline. `KeepsContract` (of `Refresh`): nothing
   else is shown, gathered or kept on the disk than `RefreshContract` allows.
 * `NoIdleSlot`, `SlotsComeBack`, `NoOvertaking`: the manager's queue is a FIFO
   that never holds a worker back without need and never loses a slot. `TakesTurns`: a
   waiting worker never moves back, and moves up when a tracked one ends; so it starts
   after as many ends as there are workers before it.
 * `NoUnmarkedGuess`, `RollsBackToFact`, `NotResurrected`: a status the server has
   not confirmed is shown as pending; a rollback restores a fact; neither brings
   back a VM that a refresh took away. `MarkIsKept`: no refresh, in whatever moment it
   replaces the repositories, ends the mark of a change; only an answer to an action on that VM
   does. `Converges`: whatever was guessed, once
   nobody acts, and background cycles bring rows again and again, the tree agrees with the
   server.
 * `Complete`: a result nobody was late for and nothing failed in lacks nothing, in
   spite of reads and writes of several threads to the same variables.
   `KeepsContract`: one result, then `finished`, whatever hangs.
 * `ActsOnSelected`: the buttons of the panel act on the VM on the screen, although
   late details write the variable they use and other selections do not clear it.
   `OwnData`: no order of selections, answers and reloads puts one VM's data on
   another's tab (but see `detail_backups`). `LoadingIsAwaited`: the history and
   the metrics are never left at "Loading..." with nobody to end it.
 * `SuccessIsWhole`: what the user reads as done is done on the server, task and all
   where the worker awaits it, in spite of polls that fail, lost answers, fall-backs and
   superfluous steps. `AgainOnlyIfRefused`: the client of the backup server repeats a request
   after a new login only when the first was turned away. `NoneLeftOut`: a
   bulk action tries every VM, whatever became of those before.
   `LeadsOn`: every step of `run()` leads on, so that no fall-back and no repetition makes it go
   round. `PlaceComesBack`: the slot of the pool comes back, whatever the calls do. `KeepsContract` (of `Operation`): one
   answer at most, nothing sent after it, success only of the whole.
 * `RestartRestores`: wherever the process ends between two slots, the next start
   brings back what the window had, with every token the keyring took and gives, unless the
   last save has raised. `TokenStays`: no
   write of any slot, and no crash between two, takes the token of a server that is still
   in the table. `ActsOnListed`: after any sequence of replacements, moves and removals
   the indexes lead to the dict that is in the list. `KeepsContract` (of `Servers`): a
   crash loses at most the change under way, that one whole, and those before it that could
   not be saved.
 * `OwnPage`: no order of selections, late and cached answers puts one object's rows on
   another's page, but for the curves of nodes of the same name; `WholePage`: what several workers' answers are gathered for is shown
   when all are there, each counted once. `LoadingIsAwaited` (of `Pages`): while a page says
   "Loading...", an answer that will replace it is still to come. `LoadingEnds`: no page
   stays there. Both but for the pages listed below (`Misses`, `Silent`).

Runs that TLC must find violated, each a disagreement between the code and one
of its own comments, tests or documents (quoted under `findings`):

| run | the statement | what the code does |
|---|---|---|
| `claim_rest` | hosts that do not fit are fetched at the next tick | every tick takes the same prefix of the list |
| `actions_token` | a token ends its own change | it ends whatever change the VM has pending |
| `detail_backups` | a generation guard keeps the backups of VMs apart | it compares two attributes of the panel, and late answers pass |

Each was met while modelling, and so were these, which have no run of their own:

 * `save_resources_cache` (`config.py:516`) writes the present objects without the
   error nodes over the only row, so one failed fetch takes a host out of the
   offline cache that `config.py:513` calls the last successful data.
 * Nothing removes cached objects when the window goes online: a VM that is
   gone stays until the next swap (`mainwindow.py:1593`, `CHANGELOG.md:233`).
 * An error before the first success adds a stub, and the success the node beside
   it, in spite of the comment at `mainwindow.py:1519-1521`.
 * `soft_refresh` turns the spinner on before it finds that it has nothing to
   start, and leaves it on (`mainwindow.py:1651-1667`).
 * `MigrateVmWorker.run` returns for a container without emitting `finished`
   (`vmops.py:180`): its slot of the pool is never given back. In `Refresh` such
   operations are the set `Silent`, and `refresh_liveness` has one.
 * Selecting another object empties the panel's queue, and with it changes that
   the user has asked for and that were waiting for a slot (`_worker_manager.py:112`).
 * A power action refused by a full pool leaves its VM pending
   (`mainwindow.py:901`): hence `AnsweredFor` in `PendingEnds`. The mark ends with
   the next action on that VM, and the status shown is replaced by the next refresh.
 * A cluster whose `list_resources` fails is reported as ok and empty
   (`fetch.py:128`): hence `smooth` in `Complete`.
 * The threads of a cluster's nodes write their ISO lists under the host's one key,
   and the last one wins (`fetch.py:351`).
 * `reload_snapshots` for a VM that is no longer selected leaves the snapshots of the
   selected one at "Loading..." (`_vm_tabs.py:816`): hence the tabs in
   `LoadingIsAwaited`.
 * The slots of seven pages do not look at the object (`_on_backup_jobs_loaded`,
   `_host_tabs.py:1840`; users, groups, roles, permissions; the status and the HA
   resources of a cluster), though the comments at `_worker_manager.py:101` and 112 say that
   late results are dropped by a guard of the slot: rows of one cluster may
   stand on another's page, where the buttons act on the configuration loaded last. The pages of the
   backup servers are guarded, but not cleared for the next object. Hence `Guarded` in `OwnPage`.
 * The curves of a host are cached under `("host", node_name, timeframe, s, e)`
   (`_host_tabs.py:1471`, 1491), without the server that the key of a VM's has
   (`_vm_tabs.py:525`): until the next refresh, two servers with a node of the same name, `pve` for
   instance, show each other's. Hence `taken` in `Own`: `OwnPage` says that it is no other's.
 * A shared storage has a row for each node in the tree (`tree_panel.py:1330`), and selecting one
   makes that node part of the current object (`__init__.py:413`). But what is loaded is loaded
   for `filtered[0]` (`_storage_tabs.py:529`, 644), so for every row but the first the guards at 742
   and in the slots of backups and disks drop each answer, and the tabs stay at "Loading..."; the
   chart (guard at 889) stays empty, though its spinner goes. Hence `instead` in `Misses`.
 * After a backup was deleted, the storage loaded last is loaded again, which the one shown
   need not be (`_storage_tabs.py:1107`): its answers are dropped, and the tab stays at
   "Loading...". Hence `page.again = "kept"` in `Misses`.
 * A cluster of whose members none is configured is left at "Loading..." by the snapshots, and
   the chart of a storage without a configuration keeps a spinner that was turning
   (`_storage_tabs.py:830`): hence `Silent`. Tokens are only asked for when the users have
   come: hence `page.selects` in `Waits`.
 * A save that raises (`config.py:262`, `mainwindow.py:523`) leaves the window with a list that is
   not stored, and nothing tries again before the next change. Removing a host deletes its token at the server
   before that (`mainwindow.py:1331`), so the next start may show a server whose token is void.
 * A background cycle in which every host answers ok and empty swaps nothing
   (`mainwindow.py:1727`): a guessed status, or a VM that has gone, stays as long as that
   lasts. Hence `CyclesBring` in `Converges`.
 * `create_backup_job` and its kin take any exception of `/cluster/jobs`, a lost answer
   too, as a sign of an old server, and repeat the change at `/cluster/backup`
   (`_cluster.py:149`): hence `AgainOnlyIfRefused` is about "again" only.
 * `VmDiskMoveWorker`, `VmDiskResizeWorker`, `MigrateVmWorker` and the power actions report success when
   the server has accepted the task (`Enough`): their messages say that it is done.
 * A failed poll ends the wait for a task that goes on (`_tasks.py:54`): the user reads
   a failure of what will succeed. `SuccessIsWhole` is about successes only.
 * When the token of a host is refreshed while it joins a cluster, the mark goes to
   the dict that was replaced, and is lost (`_mark_joinee`; in `Servers` the reference is `Gone`).
 * Servers of the same name, which nothing forbids, share one token and one entry of the index
   (`build_cfg_index`): `Apart` keeps them out of `Servers`.
 * Metrics asked for with an earlier time frame may arrive after those of the
   present one and are drawn over them (`_vm_tabs.py:548`); a configuration read before a
   change may arrive after the one reloaded for it (`_vm_tabs.py:771`).

### Bounds, and why they are enough

Two hosts and two slots with one foreign operation give every relation of
demand and capacity: all fit, one is left out, none fits. Four generations
let three abandoned cycles have workers under way beside the current one, more than two
slots can hold. Five workers, two slots and a queue of two fill both and overflow the
queue, or leave workers that run on after a cancel. Two VMs and four workers give the
answers of two loads of a tab, two workers each where it has two storages, or
a power action, a change and their reloads beside a load. Two workers on one VM
overlap in every way two actions can; actions on different VMs touch different keys
of every map, and the proofs cover any number. Two nodes are the least that can
write over each other's lists. `operations` has no bound but two VMs for a loop. Two servers are
the least in which one is removed, replaced or merged beside another that stays. Three loads
with three selections have two earlier ones under way beside the last, the second of the same
object or another; two objects are one that is the first of its name and one that is not. One save that
raises is enough to have a change that is not stored behind the next one. The safety properties are proved for every value
of the constants, so there the bounds only matter for finding mistakes early.

`CHECK_DEADLOCK FALSE` is set where the system may rest: a window in which
nobody acts, a fetch that has ended.

### Fairness, and why the code justifies it

 * `Refresh`: every fetch reports and finishes (its `run` waits nowhere without a
   time-out: `KeepsContract`); Qt delivers what is posted; the two timers fire; time
   passes; other operations that emit `finished` do so. The user is never
   obliged to do anything. `LoadingEnds` supposes that, from some
   moment on, the user does not start refreshes for ever, the process is not
   restarted for ever, and fetches do not for ever take longer than the time-out
   of a soft cycle.
 * `WorkerManager`: `run()` of every worker ends, since the provider's calls have
   time-outs.
 * `VmActions`: the same for action workers and fetches, and the timer. `Converges`
   also supposes that the user and the server come to rest, and that background cycles
   that fail or bring rows come again and again (`CyclesBring`): a cycle that is ok and empty
   is begun anew at the next tick, but no code obliges a host not to answer so every time.
   `PendingEnds` supposes neither.
 * `Fetch`: only `run()` itself is fair; a helper thread may hang for ever.
 * `Operation`: the worker's thread and the event loop are fair, since every call has a
   time-out and `poll` a last one; nothing is supposed of the server.
 * `Pages`: every worker that was started answers or is dropped by another selection.
 * `Servers` needs none: its properties are safety.

Every property of a passing run has a mutant in `PROJECT.json`: a definition of the
model changed as a plausible bug of that code would change it, under which TLC
finds the property violated.

## 4. What is proved

The proofs hold for every value of the constants that satisfies the module's
assumption: finite sets of hosts, operations and workers, limits that are
natural numbers (the pool's not zero), distinct model values, and of the jobs and pages what
is true of those of the program.

 * **Refresh** (`ConstantsAssumption`). `TypeCorrect`, then `PoolIsBounded`,
   `HardAccounting`, `SoftAccounting`, `RemovedHostIsGone`, `TreeIsNeverBlanked`.
   Types alone are not inductive: the free slots are a difference of
   cardinalities, so `TypeInv` adds that the pool is finite and within its bound.
   `HardAccounting` needs that fetches of one generation and host are one worker,
   and that a fetch under way holds a slot, so that `Unused` tells a new
   generation from every old one. `SoftAccounting` counts:
   starting n workers adds n elements to `CurrentSoft`, a current result
   removes one and adds one to `softDone`. `CyclesKeepContract` is the refinement, one
   lemma for each kind of slot. `Books` collects what it needs: both accounts, so that an
   answer is the last one just when no host is awaited any more, and that within a
   generation a host has one worker (`OneEach`), without which a host would be awaited
   still after its answer.
 * **WorkerManager** (`ManagerAssumption`). `ManagerTyped`, `ManagerBounded`,
   `QueueNeverIdles`, `NoDoubleStart`, `NoLostSlot`, all from one invariant, `Good`, of
   the record `mgr`. Each operation (`Started`, `Pump`, `TryStart`, `Discard`,
   `Cancelled`, `Cleared`) has a lemma that it keeps `Good`, and slots compose them.
   `NobodyOvertakes` and `QueueMovesUp` are about two states. `Follows(a, b)` says of two
   values of `mgr` that the queue of `b` is what is left of that of `a` with newcomers
   behind it, and that those who left its front run; it is reflexive and transitive,
   each operation has it, so a slot has it whatever it is composed of (`StepFollows`), and it
   implies both properties without another look at the actions.
   `NobodyWaitsForNothing`: when somebody waits, somebody is tracked who has yet to end.
 * **VmActions** (`ActionsAssumption`). `ActionsTyped`, `GuessesAreMarked`,
   `RollbackIsToFact`, `OnlyRefreshShowsVms`. `NoUnmarkedGuess` and `RollsBackToFact`
   need each other: `apply` on top of a pending change keeps the older
   status because that one is a fact, and a status may be restored because what is not
   marked is a fact. `MarksEndByAnswer` goes through the steps once more: refreshes leave
   `pending` alone, and an action on a VM that is marked keeps the status of its first mark.
 * **Fetch** (`FetchAssumption`). `FetchTyped`, `FetchComplete`, `FetchKeepsContract`.
   The invariant ties the place of `run()` to the helpers behind it (`DueAreDone`), those
   to what they have left (`DoneAreKnown`, `ClusterData`, `StandaloneData`), and that to
   what the result has taken so far. `FetchKeepsContract` is the refinement without its
   fairness: the initial state maps to the contract's, every step to a step or none.
 * **DetailView** (`DetailAssumption`). `DetailTyped`, `ActionsHitTheSelected`,
   `TabsShowOwnData`, `LoadingIsNotForgotten`, from one invariant. What it adds to the
   properties is about the jobs of workers: those whose answers still count are for
   the VM selected, except reloads, which the guards on the object turn away;
   `detail` and `after` workers are always for it, because a selection
   disconnects them.
 * **Operation** (`JobsAssumption`, which says of any jobs what is true of every program of
   `Workers`: steps are skipped within the program only, no repetition is skipped into, a
   bulk has nothing but items). `TypeCorrect`, `SuccessWhole`, `SentInOrder` (no step after one
   that failed), `AgainSafe`, `BulkTriesAll`, and `Refines`: every step is a step of
   `OperationContract` or none. The invariant says that what is behind `pc` is satisfied
   (`Past`), what is after it not sent, and what `told` and `at` say of each other; the lemma
   that carries it is that effects only grow (`Monotone`), so what was satisfied once remains so
   while the server goes on. `RunEnds` gives each state a stage and a rank in it, and shows that
   no step of the thread goes down and each goes up, below a bound (`Stages`, `RankOrder`).
   `NoPlaceIsLost` is inductive together with `Held`: a place of the
   pool is held by a worker that has yet to say `finished`, or whose word is still in the
   event queue. So a worker added to `Workers` needs no proof of its own.
 * **Pages** (`ElsewhereAssumption`, `BoundsAssumption`). `TypeCorrect`, `OwnPageAlways`,
   `WholePageAlways`, for any objects, members and loads. What must be known beyond the
   properties is which answers may still come: those of the last selection are for the
   object shown and of the last load (`BySelection`, `Members`), and that the rows which
   "Loading..." covers, or which wait to be whole, are already the shown object's
   (`OwnRows`); what the guards and the clearing do is enough for that, whatever the storages are
   loaded for. `CountedWhole` is the argument
   behind pages that count their answers: as many rows as members, told apart by the member, are all
   of them. `LoadingAlwaysAwaited` has an invariant of its own, `FInv`: a page that says "Loading..."
   has an answer of its last load under way, and one that gathers says so as long as one is
   missing. A load for another object than the one shown is one of those `Misses` names
   (`LoadedInstead`), so that this has to be shown of no other. Of the table only `Known` and `Prompt` are used, which are proved page by page.
 * **Servers** (`ServersAssumption`). `ServersTyped`, `NextStartRestores`, `LookupsAreListed`,
   `TokensStay`, and `StoreKeepsContract`, for any number of names, addresses and servers. The
   rows and tokens are behind the list by just what the slot has still to write, so the
   invariant follows `todo`: what is left of it turns what is stored into what is shown,
   a token is written before it could be asked for, and none is dropped while a row of its name
   is left; where a save has raised, the stored rows may stay behind the list until the next one
   that does not (`Lags`). Lists are merged, filtered and reordered by operators that say where each
   member goes (`Place`), so what is known of them follows from the place being a
   bijection, without induction over sequences. What dialogs and the
   worker of a join refer to is a place of the list or `Gone` (`Refers`), and both indexes lead from
   every name to its entry (`Finds`).

*Liveness.* Neither fairness nor ENABLED can be handled by the prover's back ends, so
`LoadingEnds` of `Refresh` and of `Pages`, `SoftCycleEnds`, `QueueDrains`, `Converges`,
`PendingEnds`, `PlaceComesBack` and the fairness in `Fetch`'s
`KeepsContract` are only model-checked. What they rest on is proved where it can be said as
safety: that something is under way which will end the wait, and that no step leads
back.

| only model-checked | proved for every instance |
|---|---|
| `QueueDrains` | `NobodyWaitsForNothing`: a tracked worker has yet to end; `QueueMovesUp`: each end moves the queue on, and nothing moves it back |
| `PlaceComesBack` | `RunEnds`: each step of the thread raises a bounded rank; `NoPlaceIsLost`: a place that is held is awaited |
| `LoadingEnds` of `Pages` | `LoadingAlwaysAwaited`: the answer that ends it is under way |
| `PendingEnds` | `MarksEndByAnswer`: a mark that a worker will answer for does not lose its last worker, but by the answer that ends it |
| `SoftCycleEnds`, `LoadingEnds` of `Refresh` | `HardAccounting`, `SoftAccounting`: those a cycle waits for will still report |

What remains for TLC there is that fair steps are taken. `LoadingEnds` of `Refresh` and
`Converges` need more than that, a later cycle that sets right what the pool refused, and
have no such half.

Nothing is proved by induction over data, and no module uses RECURSIVE operators. That the
programs of `Workers` and `WindowSlots` satisfy `JobsAssumption` is evaluated by TLC, which can
since they are finitely many. Some theorems state properties no run spends time on: the type
invariants of all modules but `Fetch` and `DetailView`, `PoolIsBounded`, `ManagerBounded`,
`NoDoubleStart`, `NobodyWaitsForNothing`, `SentInOrder`, `NoPlaceIsLost`.

## 5. Not modelled

 * Drawing, layout, dialogs, themes, translations, icons, saved window state; the vendored noVNC
   client; parsing of the server's records beyond what the properties need: nothing of these
   holds state that another part reads.
 * The panels' summary pages, computed from the repositories when they are shown, and change
   detection, which only decides what to redraw.
 * The lazily created connection of `ProxmoxSession` shared by a fetch's threads
   (`_session.py:97`): to the modules here a call that meets it half closed is one that
   fails, which `Fetch` and `Operation` allow every call.
 * The bridge of the embedded console (`ui/console/bridge.py`): it has a thread, an event loop
   and a socket of its own, and only its start and stop touch the rest.
 * The migration of old database files and the encryption of exported bundles: they run once,
   alone.
 * `plan_bulk_action`, the indexes of the repositories and the task list: functions of
   their arguments. The tasks' cache and the UI state, which no decision reads.
 * The event bus: the window publishes, nothing subscribes yet.

The hazards without a property are of two kinds: those of parts in this list, and
those the code does not guard against; the latter are described in section 3.

What would come next: the console bridge (after `stop` the thread ends, nothing
listens after `stopped`); the session's creation and closing, composed with `Fetch`;
`Refresh` and `VmActions` over one pool.
