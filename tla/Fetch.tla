------------------------------- MODULE Fetch -------------------------------
(***************************************************************************)
(* One FetchWorker (backend/fetch.py): run() on a thread of the pool and   *)
(* the helper threads it starts in groups.  It waits for a group with a    *)
(* time-out and goes on without those that are late, which go on as well   *)
(* and write into the variables run() is reading.                          *)
(***************************************************************************)
EXTENDS FiniteSets

CONSTANTS
    Nodes,        \* of the cluster
    Own,          \* the one of them that is a standalone host's
    IsoNodes,     \* those with ISO images
    Host          \* stands in the place of the node, in a helper of no node

VARIABLES
    clusterRep, \* is_cluster_rep: the host stands for its whole cluster
    main,       \* the group run() waits for, or where else it stands
    helper,     \* [Helpers -> where a helper thread stands]
    nodes,      \* nodes, vms and storages, as far as they are filled in
    vms,
    storages,
    known,      \* the helpers that have left what they read: pools, HA groups,
                \* vmid_to_pool, detail_by_node, versions
    iso,        \* the nodes whose images iso_images has under the host
    result,     \* what the result has taken of nodes, vms and storages
    told,       \* the status result_ready has been emitted with
    ended,      \* finished has been emitted
    cancelled,
    smooth      \* not in the code: no call failed, and none was late when due

data == <<nodes, vms, storages, known, iso>>
vars == <<clusterRep, main, helper, data, result, told, ended, cancelled, smooth>>
----------------------------------------------------------------------------
Single(kind) == <<kind, Host>>
PerNode(kind) == {kind} \X Nodes
Helpers ==
    {Single(k) : k \in {"pools", "members", "ha", "resources", "standalone"}}
        \cup PerNode("storage") \cup PerNode("version") \cup PerNode("iso")

(* bare: as read; named: with their host_name; pooled: with their pools;    *)
(* detailed: with host_name and the sizes of detail_by_node.                *)
NodesData == {"none", "error", "bare", "named"}
VmsData == {"none", "bare", "pooled"}
StoragesData == {"none", "bare", "named", "detailed"}
Result == [nodes : NodesData, vms : VmsData, storages : StoragesData]

Waits == {"phase1", "storage", "version", "standalone", "iso"}
Takes == {"nodes", "vms", "storages"}
Stands == {"unborn", "calls", "waits", "nodes", "bare", "pooled", "vms", "done"}

ASSUME FetchAssumption ==
    Own \in Nodes /\ IsoNodes \subseteq Nodes

Init ==
    /\ clusterRep \in BOOLEAN
    /\ main = "opens"
    /\ helper = [h \in Helpers |-> "unborn"]
    /\ nodes = "none" /\ vms = "none" /\ storages = "none"
    /\ known = {} /\ iso = {}
    /\ result = [nodes |-> "none", vms |-> "none", storages |-> "none"]
    /\ told = "nothing" /\ ended = FALSE /\ cancelled = FALSE
    /\ smooth = TRUE
----------------------------------------------------------------------------
(* The threads of a group start; what is due when a wait is over.           *)
Phase1 == {Single("pools"), Single("ha")} \cup (IF clusterRep THEN {Single("resources")} ELSE {})
PerOwn(kind) == {kind} \X (IF clusterRep THEN Nodes ELSE {Own})
OfNodes(kind, ns) == IF ns = "none" THEN {} ELSE PerOwn(kind)

Started(group) == [h \in Helpers |-> IF h \in group THEN "calls" ELSE helper[h]]

Due(wait) ==
    CASE wait = "phase1" -> IF clusterRep THEN {Single("resources")} ELSE {}
      [] wait = "storage" -> PerNode("storage")
      [] wait = "version" -> PerNode("version") \cup {Single("pools"), Single("members")}
      [] wait = "standalone" -> {Single("standalone"), Single("pools"), Single("members")}
      [] OTHER -> {Single("ha")} \cup PerOwn("iso")

Joined(wait) ==
    /\ main = wait /\ ~cancelled
    /\ smooth' = (smooth /\ \A h \in Due(wait) : helper[h] = "done")
    /\ UNCHANGED <<known, iso, result, told, ended, cancelled, clusterRep>>

(* What run() adds to what the helpers have read.                           *)
NotPooled == vms
Pooled == IF vms = "bare" /\ Single("members") \in known THEN "pooled" ELSE vms
Named(read) == IF read = "bare" THEN "named" ELSE read
Detailed ==
    IF storages = "named" /\ PerNode("storage") \subseteq known THEN "detailed" ELSE storages

(* create_provider, the end of each phase and what it starts next.          *)
OpenFailsSilently ==
    /\ main = "opens" /\ main' = "ends"
    /\ UNCHANGED <<helper, data, result, told, ended, cancelled, smooth, clusterRep>>
OpenFails ==
    /\ main = "opens" /\ main' = "ends"
    /\ told' = "error"
    /\ UNCHANGED <<helper, data, result, ended, cancelled, smooth, clusterRep>>

Opens ==
    /\ main = "opens" /\ ~cancelled
    /\ main' = "phase1" /\ helper' = Started(Phase1)
    /\ UNCHANGED <<data, result, told, ended, cancelled, smooth, clusterRep>>

LeavePhase1 ==
    /\ Joined("phase1")
    /\ IF clusterRep
       THEN /\ main' = "storage" /\ helper' = Started(OfNodes("storage", nodes))
            /\ nodes' = Named(nodes) /\ storages' = Named(storages)
       ELSE /\ main' = "standalone" /\ helper' = Started({Single("standalone")})
            /\ UNCHANGED <<nodes, storages>>
    /\ UNCHANGED vms

LeaveStorage ==
    /\ Joined("storage")
    /\ main' = "version" /\ helper' = Started(OfNodes("version", nodes))
    /\ UNCHANGED <<nodes, vms, storages>>

LeaveVersion ==
    /\ Joined("version")
    /\ vms' = Pooled /\ storages' = Detailed
    /\ main' = "iso" /\ helper' = Started(OfNodes("iso", nodes))
    /\ UNCHANGED nodes

LeaveStandalone ==
    /\ Joined("standalone")
    /\ vms' = Pooled
    /\ main' = "own_version"
    /\ UNCHANGED <<helper, nodes, storages>>

OwnVersion(ok) ==
    /\ main = "own_version" /\ ~cancelled
    /\ main' = "iso" /\ helper' = Started(OfNodes("iso", nodes))
    /\ known' = IF ok /\ nodes # "none" THEN known \cup PerOwn("version") ELSE known
    /\ smooth' = (smooth /\ ok)
    /\ UNCHANGED <<nodes, vms, storages, iso, result, told, ended, cancelled, clusterRep>>

LeaveIso ==
    /\ Joined("iso")
    /\ main' = "nodes"
    /\ UNCHANGED <<helper, nodes, vms, storages>>

(* The result is put together: one variable after the other is read, while  *)
(* late helpers may still write them.                                       *)
Take(from, value, next) ==
    /\ main = from /\ main' = next
    /\ result' = [result EXCEPT ![from] = value]
    /\ UNCHANGED <<helper, data, told, ended, cancelled, smooth, clusterRep>>

Emit ==
    /\ main = "emits" /\ main' = "ends"
    /\ told' = "ok"
    /\ UNCHANGED <<helper, data, result, ended, cancelled, smooth, clusterRep>>

Quit ==
    /\ main \in Waits \cup {"opens", "own_version"} /\ cancelled
    /\ main' = "ends"
    /\ UNCHANGED <<helper, data, result, told, ended, cancelled, smooth, clusterRep>>

End ==
    /\ main = "ends" /\ main' = "ended"
    /\ ended' = TRUE
    /\ UNCHANGED <<helper, data, result, told, cancelled, smooth, clusterRep>>

Cancel ==
    /\ ~cancelled /\ cancelled' = TRUE
    /\ UNCHANGED <<main, helper, data, result, told, ended, smooth, clusterRep>>
----------------------------------------------------------------------------
(* The helper threads.                                                      *)
Goes(h, from, to) ==
    /\ helper[h] = from
    /\ helper' = [helper EXCEPT ![h] = to]
    /\ UNCHANGED <<main, result, told, ended, cancelled, clusterRep>>

LeavesByNode(h) == known' = known \cup {h[2]} /\ UNCHANGED <<nodes, vms, storages, iso>>
Leaves(h) == known' = known \cup {h} /\ UNCHANGED <<nodes, vms, storages, iso>>

(* fetch_pools, and fetch_pool_detail: the members of the pools.            *)
PoolsRead ==
    /\ helper[Single("pools")] = "calls"
    /\ helper' = [helper EXCEPT ![Single("pools")] = "waits", ![Single("members")] = "calls"]
    /\ Leaves(Single("pools"))
    /\ UNCHANGED <<main, result, told, ended, cancelled, smooth, clusterRep>>

PoolsJoined == Goes(Single("pools"), "waits", "done") /\ UNCHANGED <<data, smooth>>

(* Helpers that read one thing: members, HA groups, storage details, a      *)
(* version.                                                                 *)
Simple == {Single("members"), Single("ha")} \cup PerNode("storage") \cup PerNode("version")
SimpleRead(h) == Goes(h, "calls", "done") /\ Leaves(h) /\ UNCHANGED smooth

(* fetch_resources assigns one variable after the other.                    *)
ResourcesNodes ==
    /\ Goes(Single("resources"), "calls", "nodes")
    /\ nodes' = "bare"
    /\ UNCHANGED <<vms, storages, known, iso, smooth>>

ResourcesVms ==
    /\ Goes(Single("resources"), "nodes", "vms")
    /\ vms' = "bare"
    /\ UNCHANGED <<nodes, storages, known, iso, smooth>>

ResourcesStorages ==
    /\ Goes(Single("resources"), "vms", "done")
    /\ storages' = "bare"
    /\ UNCHANGED <<nodes, vms, known, iso, smooth>>

(* fetch_standalone: the status of the node, the VMs with the pools known   *)
(* by then, the storages; VMs and storages are assigned at the end.         *)
StandaloneNode ==
    /\ Goes(Single("standalone"), "calls", "nodes")
    /\ nodes' = "named"
    /\ UNCHANGED <<vms, storages, known, iso, smooth>>

StandaloneFails ==
    /\ Goes(Single("standalone"), "calls", "done")
    /\ nodes' = "error" /\ smooth' = FALSE
    /\ UNCHANGED <<vms, storages, known, iso>>

StandaloneRead ==
    /\ Goes(Single("standalone"), "nodes",
            IF Single("members") \in known THEN "pooled" ELSE "bare")
    /\ UNCHANGED <<data, smooth>>

StandaloneVms ==
    \E read \in {"bare", "pooled"} :
        /\ Goes(Single("standalone"), read, "vms")
        /\ vms' = read
        /\ UNCHANGED <<nodes, storages, known, iso, smooth>>

StandaloneStorages ==
    /\ Goes(Single("standalone"), "vms", "done")
    /\ storages' = "named"
    /\ UNCHANGED <<nodes, vms, known, iso, smooth>>

(* fetch_iso_for_node: the list of the host is this node's, and empty when  *)
(* it finds no storage of its own with ISO images.                          *)
IsoRead(n) ==
    /\ Goes(<<"iso", n>>, "calls", "done")
    /\ iso' = IF nodes = "named" /\ storages \in {"named", "detailed"} THEN IsoNodes \cap {n} ELSE {}
    /\ UNCHANGED <<nodes, vms, storages, known, smooth>>

(* A call of the helper fails; it leaves nothing behind, fetch_iso_for_node *)
(* an empty list.                                                           *)
Fails(h) ==
    /\ \/ h # Single("standalone") /\ Goes(h, "calls", "done")
       \/ \E at \in {"nodes", "bare", "pooled"} :
            h = Single("standalone") /\ Goes(h, at, "done")
    /\ iso' = IF h \in PerNode("iso") THEN {} ELSE iso
    /\ smooth' = FALSE
    /\ UNCHANGED <<nodes, vms, storages, known>>
----------------------------------------------------------------------------
MainMoves ==
    \/ OpenFails \/ Opens
    \/ LeavePhase1 \/ LeaveStorage \/ LeaveVersion
    \/ LeaveStandalone \/ (\E ok \in BOOLEAN : OwnVersion(ok))
    \/ LeaveIso
    \/ Take("nodes", nodes, "vms") \/ Take("vms", vms, "storages")
    \/ Take("storages", storages, "emits")
    \/ Emit \/ Quit \/ End

HelperMoves ==
    \/ PoolsRead \/ PoolsJoined
    \/ (\E h \in Simple : SimpleRead(h))
    \/ ResourcesNodes \/ ResourcesVms \/ ResourcesStorages
    \/ StandaloneNode \/ StandaloneFails \/ StandaloneRead
    \/ StandaloneVms \/ StandaloneStorages
    \/ (\E n \in Nodes : IsoRead(n))
    \/ (\E h \in Helpers : Fails(h))

Next == MainMoves \/ HelperMoves \/ Cancel

Spec == Init /\ [][Next]_vars

(* run() waits nowhere without a time-out; a helper may hang for ever.      *)
FairSpec == Spec /\ WF_vars(MainMoves)
----------------------------------------------------------------------------
TypeOK ==
    /\ clusterRep \in BOOLEAN
    /\ main \in Waits \cup Takes \cup {"opens", "own_version", "emits", "ends", "ended"}
    /\ helper \in [Helpers -> Stands]
    /\ nodes \in NodesData /\ vms \in VmsData /\ storages \in StoragesData
    /\ known \subseteq Helpers
    /\ iso \subseteq Nodes
    /\ result \in Result
    /\ told \in {"nothing", "ok", "error"}
    /\ ended \in BOOLEAN /\ cancelled \in BOOLEAN /\ smooth \in BOOLEAN

(* When no call fails and none is later than run() can use it, the result   *)
(* lacks nothing: every VM with its pool although pools, VMs and storages   *)
(* are read at the same time (the comment of fetch.py:301-302), every       *)
(* storage with its sizes, every node with its version.                     *)
Needed ==
    {Single("pools"), Single("members"), Single("ha")} \cup PerOwn("version")
        \cup (IF clusterRep THEN PerNode("storage") ELSE {})
Complete ==
    smooth /\ told = "ok" =>
        /\ result = [nodes |-> "named", vms |-> "pooled",
                     storages |-> IF clusterRep THEN "detailed" ELSE "named"]
        /\ Needed \subseteq known

(* The fetch keeps the contract the refresh cycles rely on, whatever hangs: *)
(* one result, then finished (run, emit at 368 and 380-394).                *)
Contract == INSTANCE FetchContract WITH told <- told, ended <- ended, cancelled <- cancelled
KeepsContract == Contract!Spec
=============================================================================
