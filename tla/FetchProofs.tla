---------------------------- MODULE FetchProofs ----------------------------
(***************************************************************************)
(* Proofs about one fetch, for any set of nodes: types, the completeness   *)
(* of a result nothing was late for, and the contract with the refresh     *)
(* cycles.  How far run() has come says which helpers have ended, and what *)
(* those leave behind is then in the variables it goes on with.            *)
(***************************************************************************)
EXTENDS Fetch, TLAPS

(* Where run() stands, by what is behind it.                                *)
Takes_ == {"nodes", "vms", "storages", "emits"}
PastOwn == {"iso"} \cup Takes_
Merged == {"own_version"} \cup PastOwn
PastStorage == {"version"} \cup PastOwn
PastPhase1 == {"storage", "standalone", "own_version"} \cup PastStorage

Done(h) == helper[h] = "done"

(* Cluster and standalone hosts have different helpers.                     *)
OneKind ==
    /\ clusterRep => helper[Single("standalone")] = "unborn" /\ main \notin {"standalone", "own_version"}
    /\ ~clusterRep => helper[Single("resources")] = "unborn" /\ main \notin {"storage", "version"}

(* Nobody was late: the helpers due so far are done.                        *)
DueAreDone ==
    /\ main \in PastPhase1 /\ clusterRep => Done(Single("resources"))
    /\ main \in PastStorage /\ clusterRep => \A h \in PerNode("storage") : Done(h)
    /\ main \in Merged => Done(Single("pools")) /\ Done(Single("members"))
    /\ main \in Merged /\ ~clusterRep => Done(Single("standalone"))
    /\ main \in PastOwn /\ clusterRep => \A h \in PerNode("version") : Done(h)
    /\ main \in PastOwn /\ ~clusterRep => <<"version", Own>> \in known
    /\ main \in Takes_ => Done(Single("ha"))

(* Nobody failed: what is done has left what it read.                       *)
DoneAreKnown ==
    /\ \A h \in Simple : Done(h) => h \in known
    /\ helper[Single("pools")] \in {"waits", "done"} => Single("pools") \in known

(* The variables of a cluster, as fetch_resources and then run() fill them. *)
ClusterData ==
    /\ main \in {"opens", "phase1"} =>
        /\ helper[Single("resources")] \in {"nodes", "vms", "done"} => nodes = "bare"
        /\ helper[Single("resources")] \in {"vms", "done"} => vms = "bare"
        /\ helper[Single("resources")] = "done" => storages = "bare"
    /\ main \in PastPhase1 => nodes = "named"
    /\ main \in {"storage", "version"} => vms = "bare" /\ storages = "named"
    /\ main \in PastOwn => vms = "pooled" /\ storages = "detailed"

(* Those of a standalone host, as fetch_standalone and then run() do.       *)
StandaloneData ==
    LET at == helper[Single("standalone")] IN
    /\ main \in {"opens", "phase1"} => at = "unborn"
    /\ at \in {"nodes", "bare", "pooled", "vms", "done"} => nodes = "named"
    /\ at \in {"vms", "done"} => vms \in {"bare", "pooled"}
    /\ at = "done" => storages = "named"
    /\ main \in Merged => vms = "pooled"

(* The result, as far as it is put together.                                *)
Final == IF clusterRep THEN "detailed" ELSE "named"
Taken ==
    /\ main \in {"vms", "storages", "emits"} => result.nodes = "named"
    /\ main \in {"storages", "emits"} => result.vms = "pooled"
    /\ main = "emits" => result.storages = Final

Smooth ==
    /\ DueAreDone
    /\ DoneAreKnown
    /\ clusterRep => ClusterData
    /\ ~clusterRep => StandaloneData
    /\ Taken

(* Where run() stands and what it has emitted.                              *)
Told ==
    /\ main \notin {"ends", "ended"} => told = "nothing"
    /\ main = "ends" => told # "nothing" \/ cancelled
    /\ ended <=> main = "ended"
    /\ main = "opens" => \A h \in Helpers : helper[h] = "unborn"

Inv == TypeOK /\ OneKind /\ Told /\ (smooth => Smooth) /\ Complete

(* The helpers are told apart.                                              *)
Singles == {"pools", "members", "ha", "resources", "standalone"}
Kinds == {"storage", "version", "iso"}
Keys ==
    /\ \A k \in Singles : Single(k) \in Helpers
    /\ \A k, l \in Singles : k # l => Single(k) # Single(l)
    /\ \A k \in Kinds : PerNode(k) \subseteq Helpers /\ \A n \in Nodes : <<k, n>> \in PerNode(k)
    /\ \A k, l \in Kinds : k # l => PerNode(k) \cap PerNode(l) = {}
    /\ \A k \in Singles, l \in Kinds : Single(k) \notin PerNode(l)

(* Keys.                                                                    *)
LEMMA KeysHold == Keys
BY DEF Keys, Singles, Kinds, Single, PerNode, Helpers

(* A standalone host has one of the nodes, a cluster all.                   *)
LEMMA OwnKeys ==
    \A k : PerOwn(k) \subseteq PerNode(k) /\ (clusterRep => PerOwn(k) = PerNode(k))
BY FetchAssumption DEF FetchAssumption, PerOwn, PerNode

(* A worker is told once which of the two its host is.                      *)
LEMMA RoleStays == [Next]_vars => clusterRep' = clusterRep
BY DEF Next, vars, MainMoves, HelperMoves, Cancel, Opens, OpenFails, LeavePhase1, LeaveStorage,
       LeaveVersion, LeaveStandalone, LeaveIso, Joined, OwnVersion, Take, Emit, Quit, End,
       PoolsRead, PoolsJoined, SimpleRead, ResourcesNodes, ResourcesVms, ResourcesStorages,
       StandaloneNode, StandaloneFails, StandaloneRead, StandaloneVms, StandaloneStorages,
       IsoRead, Fails, Goes

(* The types hold initially.                                                *)
LEMMA TypeInit == Init => TypeOK
<1> SUFFICES ASSUME Init PROVE TypeOK
  OBVIOUS
<1>1. helper \in [Helpers -> Stands]
  BY DEF Init, Stands
<1>2. result \in Result
  BY DEF Init, Result, NodesData, VmsData, StoragesData
<1>3. nodes \in NodesData /\ vms \in VmsData /\ storages \in StoragesData
  BY DEF Init, NodesData, VmsData, StoragesData
<1> QED BY <1>1, <1>2, <1>3 DEF Init, TypeOK

(* The types in a step.                                                     *)
LEMMA TypeStep == TypeOK /\ [Next]_vars => TypeOK'
<1> SUFFICES ASSUME TypeOK, [Next]_vars PROVE TypeOK'
  OBVIOUS
<1> USE FetchAssumption DEF TypeOK, Waits, Takes, data
<1>1. CASE MainMoves
  <2>1. \A group : Started(group) \in [Helpers -> Stands]
    BY DEF Started, Stands
  <2>2. PerOwn("version") \subseteq Helpers
    BY OwnKeys DEF Helpers
  <2>3. CASE OpenFails \/ Opens \/ Emit \/ Quit \/ End
    BY <2>1, <2>3 DEF OpenFails, Opens, Emit, Quit, End
  <2>4. CASE LeavePhase1 \/ LeaveStorage
    BY <2>1, <2>4 DEF LeavePhase1, LeaveStorage, Joined, Named, NodesData, StoragesData
  <2>5. CASE LeaveVersion \/ LeaveStandalone \/ LeaveIso
    BY <2>1, <2>5 DEF LeaveVersion, LeaveStandalone, LeaveIso, Joined, Pooled, Detailed, VmsData, StoragesData
  <2>6. CASE \E ok \in BOOLEAN : OwnVersion(ok)
    <3> PICK ok \in BOOLEAN : OwnVersion(ok)
      BY <2>6
    <3>1. known' \subseteq Helpers
      BY <2>2 DEF OwnVersion
    <3>2. smooth' \in BOOLEAN
      BY DEF OwnVersion
    <3> QED BY <2>1, <3>1, <3>2 DEF OwnVersion
  <2>7. CASE \/ Take("nodes", nodes, "vms") \/ Take("vms", vms, "storages")
             \/ Take("storages", storages, "emits")
    BY <2>7 DEF Take, Result
  <2> QED BY <1>1, <2>3, <2>4, <2>5, <2>6, <2>7 DEF MainMoves
<1>2. CASE HelperMoves
  <2>0. Single("pools") \in Helpers /\ Simple \subseteq Helpers
    BY DEF Simple, Helpers
  <2>a. CASE PoolsRead \/ PoolsJoined
    BY <2>0, <2>a DEF PoolsRead, PoolsJoined, Goes, Leaves, Stands
  <2>1. CASE \E h \in Simple : SimpleRead(h)
    BY <2>0, <2>1 DEF SimpleRead, Goes, Leaves, Stands
  <2>2. CASE ResourcesNodes \/ ResourcesVms \/ ResourcesStorages
    BY <2>2 DEF ResourcesNodes, ResourcesVms, ResourcesStorages, Goes, Stands,
                NodesData, VmsData, StoragesData
  <2>3. CASE \/ StandaloneNode \/ StandaloneFails \/ StandaloneRead
             \/ StandaloneVms \/ StandaloneStorages
    BY <2>3 DEF StandaloneNode, StandaloneFails, StandaloneRead, StandaloneVms,
                StandaloneStorages, Goes, Stands, NodesData, VmsData, StoragesData
  <2>4. CASE \E n \in Nodes : IsoRead(n)
    BY <2>4 DEF IsoRead, Goes, Stands
  <2>5. CASE \E h \in Helpers : Fails(h)
    BY <2>5 DEF Fails, Goes, Stands
  <2> QED BY <1>2, <2>a, <2>1, <2>2, <2>3, <2>4, <2>5 DEF HelperMoves
<1>3. CASE Cancel
  BY <1>3 DEF Cancel
<1>4. CASE UNCHANGED vars
  <2>1. UNCHANGED <<main, helper, nodes, vms, storages>> /\ UNCHANGED <<known, iso, result>>
        /\ UNCHANGED <<told, ended, cancelled, smooth, clusterRep>>
    BY <1>4 DEF vars, data
  <2> QED BY <2>1
<1> QED BY <1>1, <1>2, <1>3, <1>4 DEF Next

(* OneKind in a step.                                                       *)
LEMMA OneKindStep ==
    ASSUME TypeOK, OneKind, Told, [Next]_vars
    PROVE  OneKind'
<1>a. helper \in [Helpers -> Stands] /\ smooth \in BOOLEAN /\ result \in Result
  BY DEF TypeOK
<1>r. clusterRep' = clusterRep /\ PerOwn("version")' = PerOwn("version")
  BY RoleStays DEF PerOwn
<1>1. CASE OpenFails \/ Opens \/ Emit \/ Quit \/ End
  BY KeysHold, <1>1 DEF OpenFails, Opens, Emit, Quit, End, Started, Phase1, OneKind, Keys, Singles
<1>2. CASE LeavePhase1 \/ LeaveStorage
  BY <1>r, OwnKeys, KeysHold, <1>2 DEF LeavePhase1, LeaveStorage, Joined, Started, OfNodes, OneKind, Keys, Singles,
     Kinds
<1>3. CASE LeaveVersion \/ LeaveStandalone \/ LeaveIso
  BY <1>r, OwnKeys, KeysHold, <1>3 DEF LeaveVersion, LeaveStandalone, LeaveIso, Joined, Started, OfNodes, OneKind,
     Keys, Singles, Kinds
<1>4. CASE \E ok \in BOOLEAN : OwnVersion(ok)
  BY <1>r, OwnKeys, KeysHold, <1>4 DEF OwnVersion, Started, OfNodes, OneKind, Keys, Singles, Kinds
<1>5. CASE \/ Take("nodes", nodes, "vms") \/ Take("vms", vms, "storages")
         \/ Take("storages", storages, "emits")
  BY <1>5 DEF Take, OneKind
<1>6. CASE PoolsRead \/ PoolsJoined \/ (\E h \in Simple : SimpleRead(h))
  BY <1>a, KeysHold, <1>6 DEF PoolsRead, PoolsJoined, SimpleRead, Goes, OneKind, Keys, Singles
<1>7. CASE ResourcesNodes \/ ResourcesVms \/ ResourcesStorages
  BY <1>a, KeysHold, <1>7 DEF ResourcesNodes, ResourcesVms, ResourcesStorages, Goes, OneKind, Keys,
     Singles
<1>8. CASE \/ StandaloneNode \/ StandaloneFails \/ StandaloneRead
         \/ StandaloneVms \/ StandaloneStorages
  BY <1>a, KeysHold, <1>8 DEF StandaloneNode, StandaloneFails, StandaloneRead, StandaloneVms,
     StandaloneStorages, Goes, OneKind, Keys, Singles
<1>9. CASE \E n \in Nodes : IsoRead(n)
  BY <1>9 DEF IsoRead, Goes, OneKind
<1>10. CASE \E h \in Helpers : Fails(h)
  BY <1>a, KeysHold, <1>10 DEF Fails, Goes, OneKind, Keys, Singles
<1>11. CASE Cancel \/ UNCHANGED vars
  BY <1>11 DEF Cancel, vars, OneKind
<1> QED BY <1>1, <1>2, <1>3, <1>4, <1>5, <1>6, <1>7, <1>8, <1>9, <1>10, <1>11 DEF Next, MainMoves,
           HelperMoves

(* Told in a step.                                                          *)
LEMMA ToldStep ==
    ASSUME TypeOK, Told, [Next]_vars
    PROVE  Told'
<1>a. helper \in [Helpers -> Stands] /\ smooth \in BOOLEAN /\ result \in Result
  BY DEF TypeOK
<1>r. clusterRep' = clusterRep /\ PerOwn("version")' = PerOwn("version")
  BY RoleStays DEF PerOwn
<1>1. CASE OpenFails \/ Opens \/ Emit \/ Quit \/ End
  BY <1>1 DEF OpenFails, Opens, Emit, Quit, End, Waits, Told
<1>2. CASE LeavePhase1 \/ LeaveStorage
  BY <1>2 DEF LeavePhase1, LeaveStorage, Joined, Told
<1>3. CASE LeaveVersion \/ LeaveStandalone \/ LeaveIso
  BY <1>3 DEF LeaveVersion, LeaveStandalone, LeaveIso, Joined, Told
<1>4. CASE \E ok \in BOOLEAN : OwnVersion(ok)
  BY <1>4 DEF OwnVersion, Told
<1>5. CASE \/ Take("nodes", nodes, "vms") \/ Take("vms", vms, "storages")
         \/ Take("storages", storages, "emits")
  BY <1>5 DEF Take, Told
<1>6. CASE PoolsRead \/ PoolsJoined \/ (\E h \in Simple : SimpleRead(h))
  BY <1>a, KeysHold, <1>6 DEF PoolsRead, PoolsJoined, SimpleRead, Goes, Told, Keys, Singles
<1>7. CASE ResourcesNodes \/ ResourcesVms \/ ResourcesStorages
  BY <1>a, <1>7 DEF ResourcesNodes, ResourcesVms, ResourcesStorages, Goes, Told
<1>8. CASE \/ StandaloneNode \/ StandaloneFails \/ StandaloneRead
         \/ StandaloneVms \/ StandaloneStorages
  BY <1>a, <1>8 DEF StandaloneNode, StandaloneFails, StandaloneRead, StandaloneVms,
     StandaloneStorages, Goes, Told
<1>9. CASE \E n \in Nodes : IsoRead(n)
  BY <1>9 DEF IsoRead, Goes, Told
<1>10. CASE \E h \in Helpers : Fails(h)
  BY <1>10 DEF Fails, Goes, Told
<1>11. CASE Cancel \/ UNCHANGED vars
  BY <1>11 DEF Cancel, vars, Told
<1> QED BY <1>1, <1>2, <1>3, <1>4, <1>5, <1>6, <1>7, <1>8, <1>9, <1>10, <1>11 DEF Next, MainMoves,
           HelperMoves

(* What has not gone smoothly never does.                                   *)
LEMMA SmoothBefore ==
    ASSUME TypeOK, [Next]_vars
    PROVE  smooth' => smooth
<1>a. helper \in [Helpers -> Stands] /\ smooth \in BOOLEAN /\ result \in Result
  BY DEF TypeOK
<1>r. clusterRep' = clusterRep /\ PerOwn("version")' = PerOwn("version")
  BY RoleStays DEF PerOwn
<1>1. CASE OpenFails \/ Opens \/ Emit \/ Quit \/ End
  BY <1>1 DEF OpenFails, Opens, Emit, Quit, End
<1>2. CASE LeavePhase1 \/ LeaveStorage
  BY <1>2 DEF LeavePhase1, LeaveStorage, Joined
<1>3. CASE LeaveVersion \/ LeaveStandalone \/ LeaveIso
  BY <1>3 DEF LeaveVersion, LeaveStandalone, LeaveIso, Joined
<1>4. CASE \E ok \in BOOLEAN : OwnVersion(ok)
  BY <1>4 DEF OwnVersion
<1>5. CASE \/ Take("nodes", nodes, "vms") \/ Take("vms", vms, "storages")
         \/ Take("storages", storages, "emits")
  BY <1>5 DEF Take
<1>6. CASE PoolsRead \/ PoolsJoined \/ (\E h \in Simple : SimpleRead(h))
  BY <1>6 DEF PoolsRead, PoolsJoined, SimpleRead
<1>7. CASE ResourcesNodes \/ ResourcesVms \/ ResourcesStorages
  BY <1>a, <1>7 DEF ResourcesNodes, ResourcesVms, ResourcesStorages
<1>8. CASE \/ StandaloneNode \/ StandaloneFails \/ StandaloneRead
         \/ StandaloneVms \/ StandaloneStorages
  BY <1>8 DEF StandaloneNode, StandaloneFails, StandaloneRead, StandaloneVms, StandaloneStorages
<1>9. CASE \E n \in Nodes : IsoRead(n)
  BY <1>9 DEF IsoRead
<1>10. CASE \E h \in Helpers : Fails(h)
  BY <1>10 DEF Fails
<1>11. CASE Cancel \/ UNCHANGED vars
  BY <1>a, <1>11 DEF Cancel, vars
<1> QED BY <1>1, <1>2, <1>3, <1>4, <1>5, <1>6, <1>7, <1>8, <1>9, <1>10, <1>11 DEF Next, MainMoves,
           HelperMoves

(* DoneAreKnown in a step.                                                  *)
LEMMA KnownStep ==
    ASSUME TypeOK, smooth => DoneAreKnown, [Next]_vars
    PROVE  smooth' => DoneAreKnown'
<1>a. helper \in [Helpers -> Stands] /\ smooth \in BOOLEAN /\ result \in Result
  BY DEF TypeOK
<1>r. clusterRep' = clusterRep /\ PerOwn("version")' = PerOwn("version")
  BY RoleStays DEF PerOwn
<1>b. smooth' => smooth
  BY SmoothBefore
<1>1. CASE OpenFails \/ Opens \/ Emit \/ Quit \/ End
  BY KeysHold, <1>1 DEF OpenFails, Opens, Emit, Quit, End, Started, DoneAreKnown, Done, Keys,
     Singles, Kinds, data, Simple
<1>2. CASE LeavePhase1 \/ LeaveStorage
  BY KeysHold, <1>2 DEF LeavePhase1, LeaveStorage, Joined, Started, DoneAreKnown, Done, Keys,
     Singles, Kinds, Simple
<1>3. CASE LeaveVersion \/ LeaveStandalone \/ LeaveIso
  BY KeysHold, <1>3 DEF LeaveVersion, LeaveStandalone, LeaveIso, Joined, Started, DoneAreKnown,
     Done, Keys, Singles, Kinds, Simple
<1>4. CASE \E ok \in BOOLEAN : OwnVersion(ok)
  BY KeysHold, <1>4 DEF OwnVersion, Started, DoneAreKnown, Done, Keys, Singles, Kinds, Simple
<1>5. CASE \/ Take("nodes", nodes, "vms") \/ Take("vms", vms, "storages")
         \/ Take("storages", storages, "emits")
  BY <1>5 DEF Take, DoneAreKnown, Done, data
<1>6. CASE PoolsRead \/ PoolsJoined \/ (\E h \in Simple : SimpleRead(h))
  BY <1>a, KeysHold, <1>6 DEF PoolsRead, PoolsJoined, SimpleRead, Goes, Leaves, Simple,
     DoneAreKnown, Done, Keys, Singles, Kinds, data
<1>7. CASE ResourcesNodes \/ ResourcesVms \/ ResourcesStorages
  BY <1>a, KeysHold, <1>7 DEF ResourcesNodes, ResourcesVms, ResourcesStorages, Goes, DoneAreKnown,
     Done, Keys, Singles, Kinds, Simple
<1>8. CASE \/ StandaloneNode \/ StandaloneFails \/ StandaloneRead
         \/ StandaloneVms \/ StandaloneStorages
  BY <1>a, KeysHold, <1>8 DEF StandaloneNode, StandaloneFails, StandaloneRead, StandaloneVms,
     StandaloneStorages, Goes, DoneAreKnown, Done, Keys, Singles, Kinds, data, Simple
<1>9. CASE \E n \in Nodes : IsoRead(n)
  BY KeysHold, <1>9 DEF IsoRead, Goes, DoneAreKnown, Done, Keys, Singles, Kinds, Simple
<1>10. CASE \E h \in Helpers : Fails(h)
  BY <1>10 DEF Fails
<1>11. CASE Cancel \/ UNCHANGED vars
  BY <1>11 DEF Cancel, vars, DoneAreKnown, Done, data
<1> QED BY <1>1, <1>2, <1>3, <1>4, <1>5, <1>6, <1>7, <1>8, <1>9, <1>10, <1>11 DEF Next, MainMoves,
           HelperMoves

(* DueAreDone in a step.                                                    *)
LEMMA DueStep ==
    ASSUME TypeOK, OneKind, smooth => Smooth, [Next]_vars
    PROVE  smooth' => DueAreDone'
<1>a. helper \in [Helpers -> Stands] /\ smooth \in BOOLEAN /\ result \in Result
  BY DEF TypeOK
<1>r. clusterRep' = clusterRep
  BY RoleStays
<1>b. smooth' => smooth
  BY SmoothBefore
<1>o. PerOwn("iso") \subseteq PerNode("iso") /\ PerOwn("version") \subseteq PerNode("version")
      /\ PerOwn("storage") \subseteq PerNode("storage")
  BY OwnKeys
<1>j. \A wait : Joined(wait) => main = wait /\ known' = known
  BY DEF Joined
<1>1. CASE OpenFails \/ Opens \/ Emit \/ Quit \/ End
  BY <1>1 DEF OpenFails, Opens, Emit, Quit, End, DueAreDone, PastPhase1, PastStorage, Merged,
     PastOwn, Takes_
<1>2. CASE LeavePhase1 \/ LeaveStorage
  <2>1. \A wait : Joined(wait) /\ smooth' => \A h \in Due(wait) : Done(h)
    BY DEF Joined, Done
  <2>2. CASE LeavePhase1
    <3>1. smooth' /\ clusterRep => Done(Single("resources"))
      BY <2>1, <2>2 DEF LeavePhase1, Due
    <3> QED BY <1>r, <1>o, KeysHold, <2>2, <3>1 DEF LeavePhase1, Started, OfNodes, DueAreDone, PastStorage,
               Merged, PastOwn, Takes_, Done, Keys, Singles, Kinds, Singles, Kinds
  <2>3. CASE LeaveStorage
    <3>1. smooth' => \A h \in PerNode("storage") : Done(h)
      BY <2>1, <2>3 DEF LeaveStorage, Due
    <3>2. \A h \in Helpers : h \notin PerNode("version") => helper'[h] = helper[h]
      BY <1>a, <1>o, <2>3 DEF LeaveStorage, Started, OfNodes
    <3>3. main = "storage" /\ main' = "version"
      BY <1>j, <2>3 DEF LeaveStorage
    <3> QED BY <1>r, <1>b, KeysHold, <3>1, <3>2, <3>3 DEF Smooth, DueAreDone, PastPhase1, PastStorage,
               Merged, PastOwn, Takes_, Done, Keys, Singles, Kinds
  <2> QED BY <1>2, <2>2, <2>3
<1>3. CASE LeaveVersion \/ LeaveStandalone \/ LeaveIso
  <2>1. \A wait : Joined(wait) /\ smooth' => \A h \in Due(wait) : Done(h)
    BY DEF Joined, Done
  <2>2. CASE LeaveVersion
    <3>1. smooth' => /\ Done(Single("pools")) /\ Done(Single("members"))
                     /\ \A h \in PerNode("version") : Done(h)
      BY <2>1, <2>2 DEF LeaveVersion, Due
    <3>2. \A h \in Helpers : h \notin PerNode("iso") => helper'[h] = helper[h]
      BY <1>a, <1>o, <2>2 DEF LeaveVersion, Started, OfNodes
    <3>3. main = "version" /\ main' = "iso"
      BY <1>j, <2>2 DEF LeaveVersion
    <3> QED BY <1>r, <1>b, KeysHold, <3>1, <3>2, <3>3 DEF OneKind, Smooth, DueAreDone, PastPhase1,
               PastStorage, Takes_, Done, Keys, Singles, Kinds
  <2>3. CASE LeaveStandalone
    <3>1. smooth' => /\ Done(Single("pools")) /\ Done(Single("members"))
                     /\ Done(Single("standalone"))
      BY <2>1, <2>3 DEF LeaveStandalone, Due
    <3> QED BY <1>r, <1>o, <2>3, <3>1 DEF LeaveStandalone, OneKind, DueAreDone, PastOwn, Takes_, Done
  <2>4. CASE LeaveIso
    <3>1. smooth' => Done(Single("ha"))
      BY <2>1, <2>4 DEF LeaveIso, Due
    <3>2. main = "iso" /\ main' = "nodes" /\ UNCHANGED <<helper, known>>
      BY <1>j, <2>4 DEF LeaveIso
    <3> QED BY <1>r, <1>b, <3>1, <3>2 DEF Smooth, DueAreDone, PastPhase1, PastStorage, Merged,
               PastOwn, Done
  <2> QED BY <1>3, <2>2, <2>3, <2>4
<1>4. CASE \E ok \in BOOLEAN : OwnVersion(ok)
  <2> PICK ok \in BOOLEAN : OwnVersion(ok)
    BY <1>4
  <2>1. smooth' /\ ~clusterRep => nodes = "named"
    BY DEF OwnVersion, Smooth, DueAreDone, StandaloneData, Merged, Done
  <2>2. smooth' /\ ~clusterRep => <<"version", Own>> \in known'
    BY <2>1 DEF OwnVersion, PerOwn
  <2>3. \A h \in Helpers : h \notin PerNode("iso") => helper'[h] = helper[h]
    BY <1>a, <1>o DEF OwnVersion, Started, OfNodes
  <2>4. main = "own_version" /\ main' = "iso"
    BY DEF OwnVersion
  <2> QED BY <1>r, <1>b, KeysHold, <2>2, <2>3, <2>4 DEF OneKind, Smooth, DueAreDone, Merged, Takes_,
             Done, Keys, Singles, Kinds
<1>5. CASE \/ Take("nodes", nodes, "vms") \/ Take("vms", vms, "storages")
         \/ Take("storages", storages, "emits")
  BY <1>r, <1>o, <1>5 DEF Take, DueAreDone, Smooth, PastPhase1, PastStorage, Merged, PastOwn, Takes_, Done, data
<1>6. CASE PoolsRead \/ PoolsJoined \/ (\E h \in Simple : SimpleRead(h))
  BY <1>r, <1>o, <1>a, KeysHold, <1>6 DEF PoolsRead, PoolsJoined, SimpleRead, Goes, Leaves, DueAreDone, Smooth,
     Merged, Done, Keys, Singles, Kinds
<1>7. CASE ResourcesNodes \/ ResourcesVms \/ ResourcesStorages
  BY <1>r, <1>o, <1>a, KeysHold, <1>7 DEF ResourcesNodes, ResourcesVms, ResourcesStorages, Goes, DueAreDone,
     Smooth, PastPhase1, PastStorage, Done, Keys, Singles
<1>8. CASE \/ StandaloneNode \/ StandaloneFails \/ StandaloneRead
         \/ StandaloneVms \/ StandaloneStorages
  BY <1>a, KeysHold, <1>8 DEF StandaloneNode, StandaloneFails, StandaloneRead, StandaloneVms,
     StandaloneStorages, Goes, DueAreDone, Smooth, Merged, Done, Keys, Singles, Kinds
<1>9. CASE \E n \in Nodes : IsoRead(n)
  BY <1>r, <1>o, <1>9 DEF IsoRead, Goes, DueAreDone, Smooth, Done
<1>10. CASE \E h \in Helpers : Fails(h)
  BY <1>10 DEF Fails
<1>11. CASE Cancel \/ UNCHANGED vars
  BY <1>r, <1>o, <1>11 DEF Cancel, vars, DueAreDone, Smooth, Done, data
<1> QED BY <1>1, <1>2, <1>3, <1>4, <1>5, <1>6, <1>7, <1>8, <1>9, <1>10, <1>11 DEF Next, MainMoves,
           HelperMoves

(* ClusterData in a step.                                                   *)
LEMMA ClusterStep ==
    ASSUME TypeOK, OneKind, Told, smooth => Smooth, smooth' => DueAreDone' /\ DoneAreKnown', [Next]_vars
    PROVE  smooth' /\ clusterRep => ClusterData'
<1>a. helper \in [Helpers -> Stands] /\ smooth \in BOOLEAN /\ result \in Result
  BY DEF TypeOK
<1>r. clusterRep' = clusterRep /\ PerOwn("version")' = PerOwn("version")
  BY RoleStays DEF PerOwn
<1>b. smooth' => smooth
  BY SmoothBefore
<1>1. CASE OpenFails \/ Opens \/ Emit \/ Quit \/ End
  BY KeysHold, <1>1 DEF OpenFails, Opens, Emit, Quit, End, Started, Phase1, ClusterData, PastPhase1,
     PastStorage, PastOwn, Takes_, Keys, Singles
<1>2. CASE LeavePhase1 \/ LeaveStorage
  BY KeysHold, <1>2 DEF LeavePhase1, LeaveStorage, Joined, Started, Named, ClusterData, DueAreDone,
     DoneAreKnown, Smooth, PastPhase1, PastStorage, PastOwn, Takes_, Done, Keys, Singles, Kinds,
     Simple
<1>3. CASE LeaveVersion \/ LeaveStandalone \/ LeaveIso
  BY <1>3 DEF LeaveVersion, LeaveStandalone, LeaveIso, Joined, Pooled, Detailed, ClusterData,
     OneKind, DueAreDone, DoneAreKnown, Smooth, PastPhase1, PastStorage, Merged, PastOwn, Simple
<1>4. CASE \E ok \in BOOLEAN : OwnVersion(ok)
  BY <1>4 DEF OwnVersion, OneKind
<1>5. CASE \/ Take("nodes", nodes, "vms") \/ Take("vms", vms, "storages")
         \/ Take("storages", storages, "emits")
  BY <1>5 DEF Take, ClusterData, Smooth, PastPhase1, PastStorage, PastOwn, Takes_, data
<1>6. CASE PoolsRead \/ PoolsJoined \/ (\E h \in Simple : SimpleRead(h))
  BY <1>a, KeysHold, <1>6 DEF PoolsRead, PoolsJoined, SimpleRead, Goes, Leaves, Simple, ClusterData,
     Smooth, Keys, Singles, Kinds, data
<1>7. CASE ResourcesNodes \/ ResourcesVms \/ ResourcesStorages
  BY <1>a, <1>b, <1>7 DEF ResourcesNodes, ResourcesVms, ResourcesStorages, Goes, ClusterData,
     DueAreDone, Smooth, PastPhase1, PastStorage, Done
<1>8. CASE \/ StandaloneNode \/ StandaloneFails \/ StandaloneRead
         \/ StandaloneVms \/ StandaloneStorages
  BY <1>8 DEF StandaloneNode, StandaloneFails, StandaloneRead, StandaloneVms, StandaloneStorages,
     Goes, OneKind
<1>9. CASE \E n \in Nodes : IsoRead(n)
  BY KeysHold, <1>9 DEF IsoRead, Goes, ClusterData, Smooth, Keys, Singles, Kinds
<1>10. CASE \E h \in Helpers : Fails(h)
  BY <1>10 DEF Fails
<1>11. CASE Cancel \/ UNCHANGED vars
  BY <1>11 DEF Cancel, vars, ClusterData, Smooth, data
<1> QED BY <1>1, <1>2, <1>3, <1>4, <1>5, <1>6, <1>7, <1>8, <1>9, <1>10, <1>11 DEF Next, MainMoves,
           HelperMoves

(* StandaloneData in a step.                                                *)
LEMMA StandaloneStep ==
    ASSUME TypeOK, OneKind, Told, smooth => Smooth, smooth' => DueAreDone' /\ DoneAreKnown', [Next]_vars
    PROVE  smooth' /\ ~clusterRep => StandaloneData'
<1>a. helper \in [Helpers -> Stands] /\ smooth \in BOOLEAN /\ result \in Result
  BY DEF TypeOK
<1>r. clusterRep' = clusterRep /\ PerOwn("version")' = PerOwn("version")
  BY RoleStays DEF PerOwn
<1>b. smooth' => smooth
  BY SmoothBefore
<1>1. CASE OpenFails \/ Opens \/ Emit \/ Quit \/ End
  BY KeysHold, <1>b, <1>1 DEF OpenFails, Opens, Emit, Quit, End, Started, Phase1, StandaloneData,
     Smooth, Merged, PastOwn, Takes_, Keys, Singles, data
<1>2. CASE LeavePhase1 \/ LeaveStorage
  BY KeysHold, <1>2 DEF LeavePhase1, LeaveStorage, Joined, Started, StandaloneData, OneKind, Merged,
     PastOwn, Takes_, Keys, Singles, Kinds, data, Simple
<1>3. CASE LeaveVersion \/ LeaveStandalone \/ LeaveIso
  BY <1>3 DEF LeaveVersion, LeaveStandalone, LeaveIso, Joined, Pooled, StandaloneData, OneKind,
     DueAreDone, DoneAreKnown, Smooth, Merged, PastOwn, Done, Simple
<1>4. CASE \E ok \in BOOLEAN : OwnVersion(ok)
  BY <1>4 DEF OwnVersion, StandaloneData, DueAreDone, Smooth, Merged, Done
<1>5. CASE \/ Take("nodes", nodes, "vms") \/ Take("vms", vms, "storages")
         \/ Take("storages", storages, "emits")
  BY <1>5 DEF Take, StandaloneData, Smooth, Merged, PastOwn, Takes_, data
<1>6. CASE PoolsRead \/ PoolsJoined \/ (\E h \in Simple : SimpleRead(h))
  BY <1>a, KeysHold, <1>6 DEF PoolsRead, PoolsJoined, SimpleRead, Goes, Leaves, Simple,
     StandaloneData, Smooth, Keys, Singles, Kinds, data
<1>7. CASE ResourcesNodes \/ ResourcesVms \/ ResourcesStorages
  BY <1>7 DEF ResourcesNodes, ResourcesVms, ResourcesStorages, Goes, OneKind
<1>8. CASE \/ StandaloneNode \/ StandaloneFails \/ StandaloneRead
         \/ StandaloneVms \/ StandaloneStorages
  BY <1>a, <1>b, <1>8 DEF StandaloneNode, StandaloneFails, StandaloneRead, StandaloneVms,
     StandaloneStorages, Goes, StandaloneData, DueAreDone, Smooth, Done, data
<1>9. CASE \E n \in Nodes : IsoRead(n)
  BY KeysHold, <1>9 DEF IsoRead, Goes, StandaloneData, Smooth, Keys, Singles, Kinds
<1>10. CASE \E h \in Helpers : Fails(h)
  BY <1>10 DEF Fails
<1>11. CASE Cancel \/ UNCHANGED vars
  BY <1>11 DEF Cancel, vars, StandaloneData, Smooth, data
<1> QED BY <1>1, <1>2, <1>3, <1>4, <1>5, <1>6, <1>7, <1>8, <1>9, <1>10, <1>11 DEF Next, MainMoves,
           HelperMoves

(* Taken in a step.                                                         *)
LEMMA TakenStep ==
    ASSUME TypeOK, smooth => Smooth, [Next]_vars
    PROVE  smooth' => Taken'
<1>a. helper \in [Helpers -> Stands] /\ smooth \in BOOLEAN /\ result \in Result
  BY DEF TypeOK
<1>r. clusterRep' = clusterRep /\ PerOwn("version")' = PerOwn("version")
  BY RoleStays DEF PerOwn
<1>b. smooth' => smooth
  BY SmoothBefore
<1>n. Final' = Final /\ Needed' = Needed
  BY <1>r DEF Final, Needed, PerNode, PerOwn, Single
<1>1. CASE OpenFails \/ Opens \/ Emit \/ Quit \/ End
  BY <1>1 DEF OpenFails, Opens, Emit, Quit, End, Taken
<1>2. CASE LeavePhase1 \/ LeaveStorage
  BY <1>2 DEF LeavePhase1, LeaveStorage, Taken
<1>3. CASE LeaveVersion \/ LeaveStandalone \/ LeaveIso
  BY <1>3 DEF LeaveVersion, LeaveStandalone, LeaveIso, Taken
<1>4. CASE \E ok \in BOOLEAN : OwnVersion(ok)
  BY <1>4 DEF OwnVersion, Taken
<1>5. CASE \/ Take("nodes", nodes, "vms") \/ Take("vms", vms, "storages")
         \/ Take("storages", storages, "emits")
  <2>1. CASE Take("nodes", nodes, "vms")
    BY <1>a, <2>1 DEF Take, Taken, ClusterData, StandaloneData, Smooth, DueAreDone, Result,
       PastPhase1, PastStorage, Merged, PastOwn, Takes_, Done
  <2>2. CASE Take("vms", vms, "storages")
    BY <1>a, <2>2 DEF Take, Taken, ClusterData, StandaloneData, Smooth, Result, Merged, PastOwn,
       Takes_
  <2>3. CASE Take("storages", storages, "emits")
    BY <1>a, <2>3 DEF Take, Taken, Final, ClusterData, StandaloneData, Smooth, DueAreDone, Result,
       Merged, PastOwn, Takes_, Done
  <2> QED BY <1>5, <2>1, <2>2, <2>3
<1>6. CASE PoolsRead \/ PoolsJoined \/ (\E h \in Simple : SimpleRead(h))
  BY <1>r, <1>n, OwnKeys, <1>6 DEF PoolsRead, PoolsJoined, SimpleRead, Goes, Taken, Smooth
<1>7. CASE ResourcesNodes \/ ResourcesVms \/ ResourcesStorages
  BY <1>r, <1>n, OwnKeys, <1>7 DEF ResourcesNodes, ResourcesVms, ResourcesStorages, Goes, Taken, Smooth
<1>8. CASE \/ StandaloneNode \/ StandaloneFails \/ StandaloneRead
         \/ StandaloneVms \/ StandaloneStorages
  BY <1>r, <1>n, OwnKeys, <1>8 DEF StandaloneNode, StandaloneFails, StandaloneRead, StandaloneVms, StandaloneStorages,
     Goes, Taken, Smooth
<1>9. CASE \E n \in Nodes : IsoRead(n)
  BY <1>r, <1>n, OwnKeys, <1>9 DEF IsoRead, Goes, Taken, Smooth
<1>10. CASE \E h \in Helpers : Fails(h)
  BY <1>10 DEF Fails
<1>11. CASE Cancel \/ UNCHANGED vars
  BY <1>a, FetchAssumption, KeysHold, <1>b, <1>11 DEF Cancel, vars, Taken,
     Final, ClusterData, StandaloneData, Smooth, Result, PastPhase1,
     PastStorage, Merged, PastOwn, Takes_, Done, Keys, Singles, Kinds, data
<1> QED BY <1>1, <1>2, <1>3, <1>4, <1>5, <1>6, <1>7, <1>8, <1>9, <1>10, <1>11 DEF Next, MainMoves, HelperMoves

(* Complete in a step.                                                      *)
LEMMA CompleteStep ==
    ASSUME TypeOK, smooth => Smooth, Told, Complete, [Next]_vars
    PROVE  Complete'
<1>a. helper \in [Helpers -> Stands] /\ smooth \in BOOLEAN /\ result \in Result
  BY DEF TypeOK
<1>r. clusterRep' = clusterRep /\ PerOwn("version")' = PerOwn("version")
  BY RoleStays DEF PerOwn
<1>b. smooth' => smooth
  BY SmoothBefore
<1>n. Final' = Final /\ Needed' = Needed
  BY <1>r DEF Final, Needed, PerNode, PerOwn, Single
<1>1. CASE OpenFails \/ Opens \/ Emit \/ Quit \/ End
  <2>1. CASE Emit
    <3>1. smooth => Needed \subseteq known
      BY FetchAssumption, <2>1
      DEF Emit, Needed, PerOwn, PerNode, Simple, Smooth, DueAreDone, DoneAreKnown, PastStorage,
          Merged, PastOwn, Takes_, Done, FetchAssumption
    <3>2. smooth => result = [nodes |-> "named", vms |-> "pooled", storages |-> Final]
      BY <1>a, <2>1 DEF Emit, Smooth, Taken, Result
    <3> QED BY <1>r, <1>n, OwnKeys, <1>a, FetchAssumption, <2>1, <3>1, <3>2 DEF Emit, Complete, Final, data
  <2>2. CASE OpenFails \/ Opens \/ Quit \/ End
    BY <1>r, <1>n, OwnKeys, <1>a, <2>2 DEF OpenFails, Opens, Quit, End, Complete, data
  <2> QED BY <1>1, <2>1, <2>2
<1>2. CASE LeavePhase1 \/ LeaveStorage
  BY <1>a, FetchAssumption, KeysHold, <1>b, <1>2 DEF LeavePhase1,
     LeaveStorage, Joined, Started, OfNodes, Named, Complete, Told, Keys, Singles, Kinds,
     data
<1>3. CASE LeaveVersion \/ LeaveStandalone \/ LeaveIso
  BY <1>a, FetchAssumption, KeysHold, <1>b, <1>3 DEF LeaveVersion,
     LeaveStandalone, LeaveIso, Joined, Started, OfNodes, Pooled, Detailed,
     Complete, Told, Keys, Singles, Kinds, data
<1>4. CASE \E ok \in BOOLEAN : OwnVersion(ok)
  BY <1>a, FetchAssumption, KeysHold, <1>b, <1>4 DEF OwnVersion, Started,
     OfNodes, Complete, Told, Keys, Singles, Kinds, data
<1>5. CASE \/ Take("nodes", nodes, "vms") \/ Take("vms", vms, "storages")
         \/ Take("storages", storages, "emits")
  BY <1>a, FetchAssumption, KeysHold, <1>b, <1>5 DEF Take, Complete, Told,
     Keys, Singles, Kinds, data
<1>6. CASE PoolsRead \/ PoolsJoined \/ (\E h \in Simple : SimpleRead(h))
  BY <1>r, <1>n, OwnKeys, <1>a, FetchAssumption, KeysHold, <1>b, <1>6 DEF PoolsRead, PoolsJoined,
     SimpleRead, Goes, Leaves, Simple, Complete, Told, Keys, Singles, Kinds, data
<1>7. CASE ResourcesNodes \/ ResourcesVms \/ ResourcesStorages
  BY <1>r, <1>n, OwnKeys, <1>a, FetchAssumption, KeysHold, <1>b, <1>7 DEF ResourcesNodes,
     ResourcesVms, ResourcesStorages, Goes, Complete, Told, Keys, Singles, Kinds, data
<1>8. CASE \/ StandaloneNode \/ StandaloneFails \/ StandaloneRead
         \/ StandaloneVms \/ StandaloneStorages
  BY <1>r, <1>n, OwnKeys, <1>a, FetchAssumption, KeysHold, <1>b, <1>8 DEF StandaloneNode,
     StandaloneFails, StandaloneRead, StandaloneVms, StandaloneStorages,
     Goes, Complete, Told, Keys, Singles, Kinds, data
<1>9. CASE \E n \in Nodes : IsoRead(n)
  BY <1>r, <1>n, OwnKeys, <1>a, FetchAssumption, KeysHold, <1>b, <1>9 DEF IsoRead, Goes,
     Complete, Told, Keys, Singles, Kinds, data
<1>10. CASE \E h \in Helpers : Fails(h)
  BY <1>a, FetchAssumption, KeysHold, <1>b, <1>10 DEF Fails, Goes, Complete,
     Told, Keys, Singles, Kinds, data
<1>11. CASE Cancel \/ UNCHANGED vars
  BY <1>r, <1>n, OwnKeys, <1>a, FetchAssumption, KeysHold, <1>b, <1>11 DEF Cancel, vars,
     Complete, Told, Keys, Singles, Kinds, data
<1> QED BY <1>1, <1>2, <1>3, <1>4, <1>5, <1>6, <1>7, <1>8, <1>9, <1>10, <1>11 DEF Next, MainMoves, HelperMoves

(* Inv is inductive.                                                        *)
LEMMA InvInit == Init => Inv
<1> SUFFICES ASSUME Init PROVE Inv
  OBVIOUS
<1>1. helper = [h \in Helpers |-> "unborn"] /\ main = "opens" /\ told = "nothing" /\ ended = FALSE
  BY DEF Init
<1>2. OneKind
  BY <1>1, KeysHold DEF OneKind, Keys, Singles
<1>3. Told
  BY <1>1 DEF Told
<1>4. DueAreDone /\ Taken
  BY <1>1 DEF DueAreDone, Taken, PastPhase1, PastStorage, Merged, PastOwn, Takes_
<1>5. DoneAreKnown
  BY <1>1, KeysHold DEF DoneAreKnown, Done, Simple, Keys, Singles, Kinds
<1>6. ClusterData /\ StandaloneData
  BY <1>1, KeysHold
  DEF ClusterData, StandaloneData, PastPhase1, PastStorage, Merged, PastOwn, Takes_, Keys, Singles
<1>7. Complete
  BY <1>1 DEF Complete
<1> QED BY <1>2, <1>3, <1>4, <1>5, <1>6, <1>7, TypeInit DEF Inv, Smooth

(* Inv in a step.                                                           *)
LEMMA InvStep == Inv /\ [Next]_vars => Inv'
<1> SUFFICES ASSUME Inv, [Next]_vars PROVE Inv'
  OBVIOUS
<1>1. TypeOK /\ OneKind /\ Told /\ (smooth => Smooth) /\ Complete
  BY DEF Inv
<1>2. TypeOK' /\ OneKind' /\ Told' /\ Complete' /\ (smooth' => smooth)
  BY <1>1, TypeStep, OneKindStep, ToldStep, CompleteStep, SmoothBefore
<1>3. smooth' => DueAreDone' /\ DoneAreKnown'
  BY <1>1, DueStep, KnownStep DEF Smooth
<1>4. smooth' => (clusterRep => ClusterData') /\ (~clusterRep => StandaloneData') /\ Taken'
  BY <1>1, <1>3, ClusterStep, StandaloneStep, TakenStep
<1>5. smooth' => Smooth'
  BY <1>3, <1>4, RoleStays DEF Smooth
<1> QED BY <1>2, <1>5 DEF Inv

(* TypeOK: every variable of a fetch keeps its type, for every set of nodes.*)
THEOREM FetchTyped == Spec => []TypeOK
BY TypeInit, TypeStep, PTL DEF Spec

(* Complete: the result of a fetch nobody was late for and no call failed   *)
(* in lacks nothing, however its threads interleave.                        *)
THEOREM FetchComplete == Spec => []Complete
<1>1. Inv => Complete
  BY DEF Inv
<1> QED BY InvInit, InvStep, <1>1, PTL DEF Spec

(* The safety part of KeepsContract: every step of a fetch is a step of its *)
(* contract or none, so that it never tells twice, and never ends untold    *)
(* unless it was cancelled.                                                 *)
THEOREM FetchKeepsContract == Spec => Contract!Init /\ [][Contract!Next]_(Contract!vars)
<1>1. Init => Contract!Init
  BY DEF Init, Contract!Init
<1>2. Told /\ TypeOK /\ [Next]_vars => [Contract!Next]_(Contract!vars)
  <2> SUFFICES ASSUME Told, TypeOK, [Next]_vars
               PROVE  [Contract!Next]_(Contract!vars)
    OBVIOUS
  <2> USE DEF Contract!Next, Contract!vars
  <2>1. CASE OpenFails \/ Emit
    BY <2>1 DEF OpenFails, Emit, Contract!Tell, Told
  <2>2. CASE End
    BY <2>2 DEF End, Contract!End, Told
  <2>3. CASE Cancel
    BY <2>3 DEF Cancel, Contract!Cancel
  <2>4. ASSUME ~(OpenFails \/ Emit \/ End \/ Cancel) PROVE UNCHANGED <<told, ended, cancelled>>
    BY <2>4
    DEF Next, MainMoves, HelperMoves, vars, Opens, LeavePhase1, LeaveStorage, LeaveVersion,
        LeaveStandalone, LeaveIso, Joined, OwnVersion, Take, Quit, PoolsRead, PoolsJoined, SimpleRead,
        ResourcesNodes, ResourcesVms, ResourcesStorages, StandaloneNode, StandaloneFails,
        StandaloneRead, StandaloneVms, StandaloneStorages, IsoRead, Fails, Goes
  <2> QED BY <2>1, <2>2, <2>3, <2>4
<1>3. Inv => Told /\ TypeOK
  BY DEF Inv
<1> QED BY <1>1, <1>2, <1>3, InvInit, InvStep, PTL DEF Spec
=============================================================================
