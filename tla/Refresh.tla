------------------------------ MODULE Refresh ------------------------------
(***************************************************************************)
(* The hard and soft refresh cycles of VirtDeck's main window: the         *)
(* RefreshCoordinator (backend/refresh.py) and the slots of MainWindow     *)
(* (ui/mainwindow.py) that drive it, with the bounded pool of workers, the *)
(* repositories the tree is drawn from and the offline cache on disk.      *)
(*                                                                         *)
(* Qt runs the slots one at a time, so one action is one slot.  A          *)
(* FetchWorker runs on a pool thread; it posts its result, and after it    *)
(* `finished', to the queue of the main thread.  The outcome of a fetch is *)
(* chosen when the slot receives it: nothing looks at it before.           *)
(***************************************************************************)
EXTENDS Naturals, Sequences, FiniteSets

CONSTANTS
    Hosts,       \* configured PVE hosts that are fetched (neither skip nor PBS)
    Ops,         \* workers of every other operation: VM actions, clones, tasks
    Silent,      \* those of them whose run() returns without emitting finished
    MaxWorkers,  \* MAX_WORKERS, mainwindow.py:91 (16 in the program)
    GenBound,    \* generations are counted 1..GenBound and then reused
    Outcomes     \* what a fetch may report: a subset of Outcome below

(* What FetchWorker reports: "full" a node and its VM; "novms" a node with  *)
(* no VM; "empty" an "ok" without anything, which a cluster representative  *)
(* reports when /cluster/resources failed; "errnode" the "ok" with an error *)
(* node of a standalone host; "error" the exception path.                   *)
Outcome == {"full", "novms", "empty", "errnode", "error"}

ASSUME ConstantsAssumption ==
    /\ IsFiniteSet(Hosts)
    /\ IsFiniteSet(Ops) /\ Silent \subseteq Ops
    /\ MaxWorkers \in Nat \ {0}
    /\ GenBound \in Nat \ {0}
    /\ Outcomes \subseteq Outcome

VARIABLES   \* MainWindow
    cfgs,         \* nodes_cfg, the active entries in their order
    pool,         \* _workers, the fetch workers among them
    ops,          \* _workers, the others
    repo,         \* _node_repo and _vm_repo
    softRepo,     \* _soft_node_repo and _soft_vm_repo
    treeLoading,  \* tree_panel._loading_hosts is not empty
    softActive,   \* _soft_refresh_active: the status bar spinner turns
    offline,      \* _offline_mode
    recent        \* less than refresh_interval since last_refresh_ts

VARIABLES   \* RefreshCoordinator
    hardGen, hardPending,
    softGen, softRunning, softDone, softExpected,
    expired       \* more than soft_timeout since _soft_start

VARIABLES   \* outside the main thread
    inflight,     \* fetch workers whose result has not been received
    cache,        \* resources_cache row in SQLite: the last objects saved
    saved         \* that row exists

ui    == <<cfgs, pool, ops, repo, softRepo, treeLoading, softActive, offline, recent>>
coord == <<hardGen, hardPending, softGen, softRunning, softDone, softExpected, expired>>
vars  == <<ui, coord, inflight, cache, saved>>
----------------------------------------------------------------------------
Worker == [kind: {"hard", "soft"}, host: Hosts, gen: 1..GenBound]

(* One object of a repository.  A host has one node, known by its short     *)
(* name ("node") or as the stub named after the config ("stub"), and a VM.  *)
Item == [host: Hosts, part: {"node", "stub", "vm"}, st: {"ok", "error", "cached"}]

Smaller(a, b) == IF a < b THEN a ELSE b
Busy == Cardinality(pool) + Cardinality(ops)
FreeSlot == Busy < MaxWorkers
Configured == {cfgs[i] : i \in DOMAIN cfgs}

(* A configuration: hosts in their order, none twice.                       *)
HostSequences ==
    {s \in UNION {[1..n -> Hosts] : n \in 0..Cardinality(Hosts)} :
        \A i, j \in DOMAIN s : s[i] = s[j] => i = j}

(* _hard_gen += 1 and _soft_gen += 1.  The numbers are reused after         *)
(* GenBound; Unused, a guard of every begin, keeps a reused number from     *)
(* meeting a worker that still carries it, as Python's integers do.         *)
NextGen(g) == IF g = GenBound THEN 1 ELSE g + 1
Unused(kind, g) == \A w \in pool : ~(w.kind = kind /\ w.gen = g)

(* The workers of the first n configs, as the loops over active_cfgs start  *)
(* them: _run_worker accepts while a slot is free.                          *)
Launch(kind, cs, n, g) == {[kind |-> kind, host |-> cs[i], gen |-> g] : i \in 1..n}

(* hard_result_current and soft_result_current.                             *)
IsCurrentHardOnly(w) == w.kind = "soft" \/ w.gen = hardGen
IsCurrentSoftOnly(w) == w.kind = "hard" \/ w.gen = softGen
IsCurrent(w) == w.gen = (IF w.kind = "hard" THEN hardGen ELSE softGen)

(* add() of the repositories: the entry with the same key is replaced.      *)
Add(R, new) == {i \in R : \A n \in new : i.host # n.host \/ i.part # n.part} \cup new

Delivered(h, outcome) ==
    {[host |-> h, part |-> "node", st |-> "ok"] : x \in {outcome} \cap {"full", "novms"}}
    \cup {[host |-> h, part |-> "vm", st |-> "ok"] : x \in {outcome} \cap {"full"}}
    \cup {[host |-> h, part |-> "stub", st |-> "error"] : x \in {outcome} \cap {"errnode"}}

(* An error marks the nodes the repository has of the host, or adds a stub. *)
Failed(R, h) ==
    LET nodes == {i \in R : i.host = h /\ i.part # "vm"}
    IN  Add(R, IF nodes = {} THEN {[host |-> h, part |-> "stub", st |-> "error"]}
                             ELSE {[i EXCEPT !.st = "error"] : i \in nodes})

Received(R, h, outcome) ==
    IF outcome = "error" THEN Failed(R, h) ELSE Add(R, Delivered(h, outcome))

(* save_resources_cache drops the error nodes; loading makes them cached.   *)
Saved(R) == {i \in R : i.part = "vm" \/ i.st # "error"}
Loaded(C) == {[i EXCEPT !.st = "cached"] : i \in C}
Signature(R) == {<<i.host, i.part>> : i \in R}
----------------------------------------------------------------------------
(* MainWindow.__init__: refresh_data() launches the first hard cycle, then  *)
(* the offline cache fills the repositories, all before the event loop.     *)
Boot(cs, c, row) ==
    LET started == Launch("hard", cs, Smaller(Len(cs), MaxWorkers), 1)
    IN  [pool |-> started, repo |-> Loaded(c), treeLoading |-> cs # <<>>, offline |-> row]

Init ==
    /\ cfgs \in HostSequences
    /\ \/ saved = FALSE /\ cache = {}
       \/ saved = TRUE /\ \E H \in SUBSET Hosts :
            cache = UNION {Delivered(h, "full") : h \in H}
    /\ LET boot == Boot(cfgs, cache, saved)
       IN  /\ pool = boot.pool /\ inflight = boot.pool /\ hardPending = boot.pool
           /\ repo = boot.repo
           /\ treeLoading = boot.treeLoading
           /\ offline = boot.offline
    /\ ops = {} /\ softRepo = {}
    /\ softActive = FALSE /\ recent = FALSE /\ expired = FALSE
    /\ hardGen = 1 /\ softGen = 1
    /\ softRunning = FALSE /\ softDone = 0 /\ softExpected = 0

(* The process dies, at any moment, and is started again: only the config   *)
(* and the cache survive.                                                   *)
Restart ==
    /\ LET boot == Boot(cfgs, cache, saved)
       IN  /\ pool' = boot.pool /\ inflight' = boot.pool /\ hardPending' = boot.pool
           /\ repo' = boot.repo
           /\ treeLoading' = boot.treeLoading
           /\ offline' = boot.offline
    /\ ops' = {} /\ softRepo' = {}
    /\ softActive' = FALSE /\ recent' = FALSE /\ expired' = FALSE
    /\ hardGen' = 1 /\ softGen' = 1
    /\ softRunning' = FALSE /\ softDone' = 0 /\ softExpected' = 0
    /\ UNCHANGED <<cfgs, cache, saved>>
----------------------------------------------------------------------------
(* refresh_data: invalidate the soft cycle, empty the repositories, start a *)
(* hard cycle over the configs cs and track the workers the pool accepted.  *)
AcceptedByPool(cs) == Smaller(Len(cs), MaxWorkers - Busy)

TrackRejectedToo(cs, g) == Launch("hard", cs, Len(cs), g)
Track(cs, g) == Launch("hard", cs, AcceptedByPool(cs), g)

RefreshWith(cs) ==
    /\ Unused("hard", NextGen(hardGen)) /\ Unused("soft", NextGen(softGen))
    /\ cfgs' = cs
    /\ softGen' = NextGen(softGen)
    /\ softRunning' = FALSE /\ softDone' = 0 /\ softExpected' = 0
    /\ softActive' = FALSE
    /\ softRepo' = {} /\ repo' = {}
    /\ treeLoading' = (cs # <<>>)
    /\ hardGen' = NextGen(hardGen)
    /\ LET started == Launch("hard", cs, AcceptedByPool(cs), hardGen')
       IN  /\ pool' = pool \cup started
           /\ inflight' = inflight \cup started
    /\ hardPending' = Track(cs, hardGen')
    /\ UNCHANGED <<ops, offline, recent, expired, cache, saved>>

RefreshData == RefreshWith(cfgs)

(* _on_add_server appends one host to nodes_cfg, _on_import_config those of *)
(* the bundle that are new; both then call refresh_data.                    *)
AddServers(cs) ==
    /\ Len(cs) > Len(cfgs) /\ \A i \in DOMAIN cfgs : cs[i] = cfgs[i]
    /\ RefreshWith(cs)

(* _on_host_remove: one host, or all the hosts of a cluster, leave          *)
(* nodes_cfg; the others keep their order.                                  *)
HostRemove(cs) ==
    /\ \E p \in [DOMAIN cs -> DOMAIN cfgs] :
        /\ \A i \in DOMAIN cs : cs[i] = cfgs[p[i]]
        /\ \A i, j \in DOMAIN cs : i < j => p[i] < p[j]
    /\ Len(cs) < Len(cfgs)
    /\ RefreshWith(cs)

(* on_worker_finished.  The result of an older generation is dropped: its   *)
(* worker keeps its slot until `finished'.  The last one pending finalises  *)
(* the cycle.                                                               *)
HardStale(w) ==
    /\ w \in inflight /\ w.kind = "hard" /\ ~IsCurrent(w)
    /\ inflight' = inflight \ {w}
    /\ UNCHANGED <<ui, coord, cache, saved>>

HardResult(w, outcome) ==
    /\ w \in inflight /\ w.kind = "hard" /\ IsCurrent(w)
    /\ inflight' = inflight \ {w}
    /\ pool' = pool \ {w}
    /\ hardPending' = hardPending \ {w}
    /\ repo' = Received(repo, w.host, outcome)
    /\ IF hardPending' = {}
       THEN /\ treeLoading' = FALSE /\ recent' = TRUE /\ offline' = FALSE
            /\ cache' = Saved(repo') /\ saved' = TRUE
       ELSE UNCHANGED <<treeLoading, recent, offline, cache, saved>>
    /\ UNCHANGED <<cfgs, ops, softRepo, softActive, hardGen,
                   softGen, softRunning, softDone, softExpected, expired>>

(* `finished' of a worker whose result was stale: _discard_worker.          *)
HardFinished(w) ==
    /\ w \in pool \ inflight
    /\ pool' = pool \ {w}
    /\ UNCHANGED <<cfgs, ops, repo, softRepo, treeLoading, softActive, offline, recent,
                   coord, inflight, cache, saved>>
----------------------------------------------------------------------------
(* soft_refresh, the slot of the 20 s timer.  It returns early while the    *)
(* last refresh is recent or a soft cycle runs within its time-out; an      *)
(* expired cycle is reset first.                                            *)
SoftDue == ~recent /\ (softRunning => expired)
SoftBase == IF softRunning THEN NextGen(softGen) ELSE softGen

(* The timer finds nothing to fetch or no free slot: the cycle it has just  *)
(* begun is finished at once.  The spinner flag stays up.                   *)
SoftTickIdle ==
    /\ SoftDue
    /\ cfgs = <<>> \/ ~FreeSlot
    /\ Unused("soft", NextGen(SoftBase))
    /\ softGen' = NextGen(SoftBase)
    /\ softRunning' = FALSE /\ softDone' = 0 /\ softExpected' = Len(cfgs)
    /\ softActive' = TRUE /\ recent' = TRUE /\ expired' = FALSE
    /\ softRepo' = {}
    /\ UNCHANGED <<cfgs, pool, ops, repo, treeLoading, offline, hardGen, hardPending,
                   inflight, cache, saved>>

ExpectAll(n) == Len(cfgs)
Expect(n) == n

(* Only the configs that fit into the pool are started; when they do not    *)
(* all fit begin_soft is called again with their number.                    *)
SoftTickLaunch ==
    /\ SoftDue
    /\ cfgs # <<>> /\ FreeSlot
    /\ LET capacity == MaxWorkers - Busy
           n == Smaller(Len(cfgs), capacity)
           first == NextGen(SoftBase)
           started == Launch("soft", cfgs, n, softGen')
       IN  /\ softGen' = IF Len(cfgs) > capacity THEN NextGen(first) ELSE first
           /\ softExpected' = Expect(n)
           /\ pool' = pool \cup started
           /\ inflight' = inflight \cup started
    /\ Unused("soft", softGen')
    /\ softRunning' = TRUE /\ softDone' = 0
    /\ softActive' = TRUE /\ recent' = TRUE /\ expired' = FALSE
    /\ softRepo' = {}
    /\ UNCHANGED <<cfgs, ops, repo, treeLoading, offline, hardGen, hardPending, cache, saved>>

(* on_soft_refresh_result and, in the same slot, _discard_worker.           *)
SoftStale(w) ==
    /\ w \in inflight /\ w.kind = "soft" /\ ~IsCurrent(w)
    /\ inflight' = inflight \ {w}
    /\ pool' = pool \ {w}
    /\ UNCHANGED <<cfgs, ops, repo, softRepo, treeLoading, softActive, offline, recent,
                   coord, cache, saved>>

SoftPart(w, outcome) ==
    /\ w \in inflight /\ w.kind = "soft" /\ IsCurrent(w)
    /\ softDone + 1 < softExpected
    /\ inflight' = inflight \ {w}
    /\ pool' = pool \ {w}
    /\ softDone' = softDone + 1
    /\ softRepo' = Received(softRepo, w.host, outcome)
    /\ UNCHANGED <<cfgs, ops, repo, treeLoading, softActive, offline, recent, hardGen,
                   hardPending, softGen, softRunning, softExpected, expired, cache, saved>>

SwapAlways(result) == TRUE
SwapWanted(result) == result # {}

(* The last result: unless the whole cycle brought nothing, the main        *)
(* repositories become the soft ones, and the tree's loading marks go when  *)
(* the set of objects changed.                                              *)
SoftLast(w, outcome) ==
    /\ w \in inflight /\ w.kind = "soft" /\ IsCurrent(w)
    /\ softDone + 1 >= softExpected
    /\ inflight' = inflight \ {w}
    /\ pool' = pool \ {w}
    /\ softDone' = softDone + 1
    /\ LET result == Received(softRepo, w.host, outcome)
       IN  IF SwapWanted(result)
           THEN /\ repo' = result
                /\ treeLoading' = (treeLoading /\ Signature(repo) = Signature(result))
                /\ cache' = Saved(result) /\ saved' = TRUE /\ offline' = FALSE
           ELSE UNCHANGED <<repo, treeLoading, cache, saved, offline>>
    /\ softRepo' = {} /\ softRunning' = FALSE /\ softActive' = FALSE
    /\ UNCHANGED <<cfgs, ops, recent, hardGen, hardPending, softGen, softExpected, expired>>
----------------------------------------------------------------------------
(* _run_worker of any other operation, and its `finished'.                  *)
OpStart(o) ==
    /\ o \notin ops /\ FreeSlot
    /\ ops' = ops \cup {o}
    /\ UNCHANGED <<cfgs, pool, repo, softRepo, treeLoading, softActive, offline, recent,
                   coord, inflight, cache, saved>>

OpFinished(o) ==
    /\ o \in ops \ Silent
    /\ ops' = ops \ {o}
    /\ UNCHANGED <<cfgs, pool, repo, softRepo, treeLoading, softActive, offline, recent,
                   coord, inflight, cache, saved>>

(* Five seconds since last_refresh_ts; ninety since the soft cycle started. *)
IntervalPasses ==
    /\ recent /\ recent' = FALSE
    /\ UNCHANGED <<cfgs, pool, ops, repo, softRepo, treeLoading, softActive, offline,
                   coord, inflight, cache, saved>>

SoftTimeoutPasses ==
    /\ softRunning /\ ~expired /\ expired' = TRUE
    /\ UNCHANGED <<ui, hardGen, hardPending, softGen, softRunning, softDone, softExpected,
                   inflight, cache, saved>>
----------------------------------------------------------------------------
Deliver(w) ==
    \/ HardStale(w)
    \/ SoftStale(w)
    \/ \E outcome \in Outcomes :
        HardResult(w, outcome) \/ SoftPart(w, outcome) \/ SoftLast(w, outcome)

UserRefresh ==
    \/ RefreshData
    \/ \E cs \in HostSequences : AddServers(cs) \/ HostRemove(cs)

Next ==
    \/ UserRefresh
    \/ \E w \in Worker : Deliver(w) \/ HardFinished(w)
    \/ SoftTickIdle \/ SoftTickLaunch
    \/ \E o \in Ops : OpStart(o) \/ OpFinished(o)
    \/ IntervalPasses \/ SoftTimeoutPasses
    \/ Restart

Spec == Init /\ [][Next]_vars

(* Fetches end (the provider has time-outs and every join has one), Qt      *)
(* delivers what they post, the timers fire, time passes and an operation   *)
(* that reports its end does end.  Nothing obliges the user to do anything. *)
Fairness ==
    /\ \A w \in Worker : WF_vars(Deliver(w)) /\ WF_vars(HardFinished(w))
    /\ WF_vars(SoftTickIdle \/ SoftTickLaunch)
    /\ WF_vars(IntervalPasses)
    /\ \A o \in Ops : WF_vars(OpFinished(o))

FairSpec == Spec /\ Fairness
----------------------------------------------------------------------------
TypeOK ==
    /\ cfgs \in HostSequences
    /\ pool \subseteq Worker /\ inflight \subseteq Worker /\ hardPending \subseteq Worker
    /\ ops \subseteq Ops
    /\ repo \subseteq Item /\ softRepo \subseteq Item /\ cache \subseteq Item
    /\ {treeLoading, softActive, offline, recent, softRunning, expired, saved} \subseteq BOOLEAN
    /\ hardGen \in 1..GenBound /\ softGen \in 1..GenBound
    /\ softDone \in Nat /\ softExpected \in Nat

CurrentHard == {w \in inflight : w.kind = "hard" /\ w.gen = hardGen}
CurrentSoft == {w \in inflight : w.kind = "soft" /\ w.gen = softGen}

(* The hard cycle waits for exactly the workers that will still report in   *)
(* its generation: none was rejected by the pool, none belongs to an older  *)
(* cycle, none is forgotten (track_hard, hard_done, begin_hard).            *)
HardAccount == hardPending = CurrentHard

(* A running soft cycle expects as many results as it has counted plus as   *)
(* many as will still be counted, and is over exactly when the last one is  *)
(* in: no late result of an abandoned cycle is ever counted, and the cycle  *)
(* needs no time-out to end (begin_soft, soft_result, reset_soft).          *)
SoftAccount ==
    IF softRunning THEN /\ CurrentSoft # {}
                        /\ softDone + Cardinality(CurrentSoft) = softExpected
                   ELSE CurrentSoft = {}

(* _workers never holds more than MAX_WORKERS, and every worker whose       *)
(* result is still to come is in it (_run_worker, _discard_worker).         *)
PoolBound == Busy <= MaxWorkers /\ inflight \subseteq pool

(* Nothing fetched for a host that has been removed from the configuration  *)
(* comes back to the tree, whatever was in flight when it was removed; only *)
(* the offline cache may still name it.                                     *)
RemovedHostStaysGone ==
    \A i \in repo \cup softRepo : i.st # "cached" => i.host \in Configured

(* A background refresh never blanks the tree: all that is shown goes only  *)
(* when a hard cycle starts, and then the loading marks stand in for it,    *)
(* even when every host answered with nothing (the guard of the swap in     *)
(* on_soft_refresh_result).                                                 *)
NeverBlanked ==
    [][repo # {} /\ repo' = {} => treeLoading' \/ cfgs' = <<>>]_vars

(* Every refresh is answered on the screen: the tree's loading marks and    *)
(* the offline state end, even when the pool rejected every fetch of the    *)
(* hard cycle, once the user stops asking for new refreshes, fetches stop   *)
(* taking longer than soft_timeout and somebody answers.                    *)
Settles == <>[][~UserRefresh /\ ~Restart /\ ~SoftTimeoutPasses]_vars
LoadingEnds ==
    Settles => /\ treeLoading ~> ~treeLoading
               /\ offline /\ cfgs # <<>> ~> ~offline \/ cfgs = <<>>

(* Every soft cycle ends, with its last result or by the time-out.          *)
SoftCycleEnds ==
    \A g \in 1..GenBound :
        softRunning /\ softGen = g ~> ~(softRunning /\ softGen = g)

(* The cycles keep their contract: neither a reused generation number, nor  *)
(* a worker the pool refused, nor a result that comes after its cycle was   *)
(* given up makes a cycle count, show or keep what is not its own.          *)
Contract == INSTANCE RefreshContract WITH
    configured <- Configured, tree <- repo, gathered <- softRepo, loading <- treeLoading,
    asked <- {w.host : w \in CurrentHard}, probed <- {w.host : w \in CurrentSoft},
    kept <- cache
KeepsContract == Contract!Spec
=============================================================================
