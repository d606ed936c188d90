--------------------------- MODULE RefreshProofs ---------------------------
(***************************************************************************)
(* Proofs about the refresh cycles of Refresh, for every configuration,    *)
(* every size of the pool and every number of generations: first the       *)
(* types, then the safety properties, each inductive together with         *)
(* TypeInv.                                                                *)
(***************************************************************************)
EXTENDS Refresh, TLAPS, FiniteSetTheorems, SequenceTheorems
----------------------------------------------------------------------------
(* A configuration is a sequence without repetition.                        *)
LEMMA HostSequenceType ==
    ASSUME NEW cs \in HostSequences
    PROVE  /\ Len(cs) \in Nat
           /\ cs \in [1..Len(cs) -> Hosts]
           /\ DOMAIN cs = 1..Len(cs)
           /\ \A i, j \in 1..Len(cs) : cs[i] = cs[j] => i = j
  <1>1. Cardinality(Hosts) \in Nat
    BY FS_CardinalityType, ConstantsAssumption
  <1>2. PICK n \in 0..Cardinality(Hosts) : cs \in [1..n -> Hosts]
    BY DEF HostSequences
  <1>3. n \in Nat
    BY <1>1, <1>2
  <1>4. cs \in Seq(Hosts)
    BY <1>2, <1>3, SeqDef
  <1>5. /\ Len(cs) \in Nat /\ cs \in [1..Len(cs) -> Hosts] /\ DOMAIN cs = 1..Len(cs)
    BY <1>4, LenProperties
  <1> QED
    BY <1>5 DEF HostSequences

(* The loop over the first n configs starts n different workers.            *)
LEMMA LaunchFacts ==
    ASSUME NEW kind \in {"hard", "soft"}, NEW cs \in HostSequences,
           NEW n \in Nat, n <= Len(cs), NEW g \in 1..GenBound
    PROVE  /\ Launch(kind, cs, n, g) \subseteq Worker
           /\ IsFiniteSet(Launch(kind, cs, n, g))
           /\ Cardinality(Launch(kind, cs, n, g)) = n
           /\ \A w \in Launch(kind, cs, n, g) :
                /\ w.kind = kind /\ w.gen = g
                /\ w.host \in {cs[i] : i \in DOMAIN cs}
  <1> DEFINE L == Launch(kind, cs, n, g)
             f == [i \in 1..n |-> [kind |-> kind, host |-> cs[i], gen |-> g]]
  <1>1. /\ Len(cs) \in Nat
        /\ cs \in [1..Len(cs) -> Hosts]
        /\ DOMAIN cs = 1..Len(cs)
        /\ \A i, j \in 1..Len(cs) : cs[i] = cs[j] => i = j
    BY HostSequenceType
  <1>2. \A i \in 1..n : i \in 1..Len(cs)
    BY <1>1
  <1>3. L \subseteq Worker
    BY <1>1, <1>2 DEF Launch, Worker
  <1>4. \A w \in L : w.kind = kind /\ w.gen = g /\ w.host \in {cs[i] : i \in DOMAIN cs}
    BY <1>1, <1>2 DEF Launch
  <1>5. f \in Surjection(1..n, L)
    BY DEF Launch, Surjection
  <1>6. f \in Injection(1..n, L)
    <2>1. \A i, j \in 1..n : f[i] = f[j] => i = j
      <3> SUFFICES ASSUME NEW i \in 1..n, NEW j \in 1..n, f[i] = f[j]
                   PROVE  i = j
        OBVIOUS
      <3>1. f[i].host = cs[i] /\ f[j].host = cs[j]
        OBVIOUS
      <3> QED
        BY <3>1, <1>1, <1>2
    <2> QED
      BY <2>1, <1>5 DEF Surjection, Injection, IsInjective
  <1>7. IsFiniteSet(1..n) /\ Cardinality(1..n) = n
    BY FS_Interval
  <1>8. IsFiniteSet(L) /\ Cardinality(L) = n
    BY <1>5, <1>6, <1>7, FS_Surjection
  <1> QED
    BY <1>3, <1>4, <1>8

(* Generations stay between 1 and GenBound.                                 *)
LEMMA NextGenType ==
    ASSUME NEW g \in 1..GenBound
    PROVE  NextGen(g) \in 1..GenBound
  BY ConstantsAssumption DEF NextGen
----------------------------------------------------------------------------
(* What a result leaves in a repository: what was there, or objects of the  *)
(* host it is about.                                                        *)
LEMMA DeliveredType ==
    ASSUME NEW h \in Hosts, NEW outcome
    PROVE  /\ Delivered(h, outcome) \subseteq Item
           /\ \A i \in Delivered(h, outcome) : i.host = h
  BY DEF Delivered, Item

LEMMA AddType ==
    ASSUME NEW R, R \subseteq Item, NEW new, new \subseteq Item
    PROVE  /\ Add(R, new) \subseteq Item
           /\ Add(R, new) \subseteq R \cup new
           /\ R # {} => Add(R, new) # {}
           /\ new # {} => Add(R, new) # {}
  BY DEF Add

LEMMA FailedFacts ==
    ASSUME NEW R, R \subseteq Item, NEW h \in Hosts
    PROVE  /\ Failed(R, h) \subseteq Item
           /\ \A i \in Failed(R, h) : i \in R \/ i.host = h
           /\ Failed(R, h) # {}
  <1> DEFINE nodes == {i \in R : i.host = h /\ i.part # "vm"}
             stub == {[host |-> h, part |-> "stub", st |-> "error"]}
             marked == {[i EXCEPT !.st = "error"] : i \in nodes}
             new == IF nodes = {} THEN stub ELSE marked
  <1>1. stub \subseteq Item /\ \A i \in stub : i.host = h
    BY DEF Item
  <1>2. marked \subseteq Item /\ \A i \in marked : i.host = h
    BY DEF Item
  <1>3. new \subseteq Item /\ (\A i \in new : i.host = h) /\ new # {}
    BY <1>1, <1>2
  <1>4. Failed(R, h) = Add(R, new)
    BY DEF Failed
  <1> HIDE DEF new
  <1> QED
    BY <1>3, <1>4, AddType

LEMMA ReceivedFacts ==
    ASSUME NEW R, R \subseteq Item, NEW h \in Hosts, NEW outcome
    PROVE  /\ Received(R, h, outcome) \subseteq Item
           /\ \A i \in Received(R, h, outcome) : i \in R \/ i.host = h
           /\ R # {} => Received(R, h, outcome) # {}
  <1>1. CASE outcome = "error"
    BY <1>1, FailedFacts DEF Received
  <1>2. CASE outcome # "error"
    <2>1. Received(R, h, outcome) = Add(R, Delivered(h, outcome))
      BY <1>2 DEF Received
    <2> QED
      BY <2>1, DeliveredType, AddType
  <1> QED
    BY <1>1, <1>2

LEMMA LoadedType ==
    ASSUME NEW C, C \subseteq Item
    PROVE  /\ Loaded(C) \subseteq Item
           /\ \A i \in Loaded(C) : i.st = "cached"
  BY DEF Loaded, Item
----------------------------------------------------------------------------
(* The state that is kept typed together: the pool's bound decides how many *)
(* workers a cycle starts and so how many results it expects.               *)
TypeInv == TypeOK /\ IsFiniteSet(pool) /\ PoolBound

LEMMA SizesType ==
    ASSUME TypeInv
    PROVE  /\ Cardinality(pool) \in Nat
           /\ IsFiniteSet(ops) /\ Cardinality(ops) \in Nat
           /\ Busy \in Nat /\ Busy <= MaxWorkers
           /\ MaxWorkers - Busy \in Nat
  <1>1. IsFiniteSet(ops)
    BY FS_Subset, ConstantsAssumption DEF TypeInv, TypeOK
  <1>2. Cardinality(pool) \in Nat /\ Cardinality(ops) \in Nat
    BY <1>1, FS_CardinalityType DEF TypeInv
  <1> QED
    BY <1>1, <1>2, ConstantsAssumption DEF TypeInv, PoolBound, Busy

(* The window starts with at most MAX_WORKERS fetches of generation 1.      *)
LEMMA BootFacts ==
    ASSUME NEW cs \in HostSequences, NEW c, c \subseteq Item, NEW row \in BOOLEAN
    PROVE  LET boot == Boot(cs, c, row)
           IN  /\ boot.pool \subseteq Worker
               /\ IsFiniteSet(boot.pool) /\ Cardinality(boot.pool) <= MaxWorkers
               /\ \A w \in boot.pool : /\ w.kind = "hard" /\ w.gen = 1
                                        /\ w.host \in {cs[i] : i \in DOMAIN cs}
               /\ boot.repo \subseteq Item
               /\ \A i \in boot.repo : i.st = "cached"
               /\ boot.treeLoading \in BOOLEAN
               /\ boot.offline \in BOOLEAN
  <1> DEFINE n == Smaller(Len(cs), MaxWorkers)
             L == Launch("hard", cs, n, 1)
  <1>1. Len(cs) \in Nat
    BY HostSequenceType
  <1>2. n \in Nat /\ n <= Len(cs) /\ n <= MaxWorkers
    BY <1>1, ConstantsAssumption DEF Smaller
  <1>3. 1 \in 1..GenBound
    BY ConstantsAssumption
  <1>4. /\ L \subseteq Worker /\ IsFiniteSet(L) /\ Cardinality(L) = n
        /\ \A w \in L : /\ w.kind = "hard" /\ w.gen = 1
                         /\ w.host \in {cs[i] : i \in DOMAIN cs}
    <2> HIDE DEF n
    <2> QED
      BY <1>2, <1>3, LaunchFacts
  <1>5. Boot(cs, c, row) = [pool |-> L, repo |-> Loaded(c), treeLoading |-> cs # <<>>,
                            offline |-> row]
    BY DEF Boot
  <1>6. Loaded(c) \subseteq Item /\ \A i \in Loaded(c) : i.st = "cached"
    BY LoadedType
  <1> HIDE DEF L, n
  <1> QED
    BY <1>2, <1>4, <1>5, <1>6

(* A hard refresh starts as many workers as there are free slots.           *)
LEMMA RefreshFacts ==
    ASSUME TypeInv, NEW cs \in HostSequences, RefreshWith(cs)
    PROVE  \E started \in SUBSET Worker :
             /\ IsFiniteSet(started) /\ Cardinality(started) <= MaxWorkers - Busy
             /\ \A w \in started : /\ w.kind = "hard" /\ w.gen = hardGen'
                                   /\ w.host \in {cs[i] : i \in DOMAIN cs}
             /\ pool' = pool \cup started /\ inflight' = inflight \cup started
             /\ hardPending' = started
             /\ hardGen' \in 1..GenBound /\ softGen' \in 1..GenBound
             /\ Unused("hard", hardGen') /\ Unused("soft", softGen')
             /\ cfgs' = cs /\ repo' = {} /\ softRepo' = {} /\ ops' = ops
             /\ softRunning' = FALSE
  <1> DEFINE n == AcceptedByPool(cs)
             L == Launch("hard", cs, n, hardGen')
  <1>1. Len(cs) \in Nat
    BY HostSequenceType
  <1>2. n \in Nat /\ n <= Len(cs) /\ n <= MaxWorkers - Busy
    BY <1>1, SizesType DEF AcceptedByPool, Smaller
  <1>3. hardGen' = NextGen(hardGen) /\ softGen' = NextGen(softGen)
    BY DEF RefreshWith
  <1>4. hardGen' \in 1..GenBound /\ softGen' \in 1..GenBound
    BY <1>3, NextGenType DEF TypeInv, TypeOK
  <1>5. /\ L \subseteq Worker /\ IsFiniteSet(L) /\ Cardinality(L) = n
        /\ \A w \in L : /\ w.kind = "hard" /\ w.gen = hardGen'
                         /\ w.host \in {cs[i] : i \in DOMAIN cs}
    <2> HIDE DEF n
    <2> QED
      BY <1>2, <1>4, LaunchFacts
  <1>6. hardPending' = L /\ pool' = pool \cup L /\ inflight' = inflight \cup L
    BY DEF RefreshWith, Track
  <1>7. Unused("hard", hardGen') /\ Unused("soft", softGen')
    BY <1>3 DEF RefreshWith
  <1>8. /\ cfgs' = cs /\ repo' = {} /\ softRepo' = {} /\ ops' = ops
        /\ softRunning' = FALSE
    BY DEF RefreshWith
  <1> HIDE DEF L
  <1>9. Cardinality(L) <= MaxWorkers - Busy
    BY <1>2, <1>5
  <1> QED
    BY <1>4, <1>5, <1>6, <1>7, <1>8, <1>9

(* A soft tick that starts workers starts at least one and expects a result *)
(* of each.                                                                 *)
LEMMA SoftLaunchFacts ==
    ASSUME TypeInv, SoftTickLaunch
    PROVE  \E started \in SUBSET Worker :
             /\ IsFiniteSet(started) /\ Cardinality(started) <= MaxWorkers - Busy
             /\ \A w \in started : /\ w.kind = "soft" /\ w.gen = softGen'
                                   /\ w.host \in Configured
             /\ pool' = pool \cup started /\ inflight' = inflight \cup started
             /\ softExpected' = Cardinality(started)
             /\ softExpected' \in Nat \ {0}
             /\ softGen' \in 1..GenBound
             /\ Unused("soft", softGen')
  <1> DEFINE n == Smaller(Len(cfgs), MaxWorkers - Busy)
             first == NextGen(SoftBase)
             L == Launch("soft", cfgs, n, softGen')
  <1>0. cfgs \in HostSequences
    BY DEF TypeInv, TypeOK
  <1>1. Len(cfgs) \in Nat /\ cfgs \in [1..Len(cfgs) -> Hosts]
    BY <1>0, HostSequenceType
  <1>2. Len(cfgs) # 0
    <2>1. cfgs \in Seq(Hosts)
      BY <1>1, SeqDef
    <2> QED
      BY <2>1, EmptySeq DEF SoftTickLaunch
  <1>3. n \in Nat \ {0} /\ n <= Len(cfgs) /\ n <= MaxWorkers - Busy
    <2>1. Busy < MaxWorkers
      BY DEF SoftTickLaunch, FreeSlot
    <2>2. MaxWorkers - Busy \in Nat \ {0}
      BY <2>1, SizesType, ConstantsAssumption
    <2> QED
      BY <1>1, <1>2, <2>2 DEF Smaller
  <1>4. softGen' \in 1..GenBound
    <2>1. SoftBase \in 1..GenBound
      BY NextGenType DEF SoftBase, TypeInv, TypeOK
    <2>2. first \in 1..GenBound
      BY <2>1, NextGenType
    <2>3. NextGen(first) \in 1..GenBound
      BY <2>2, NextGenType
    <2> QED
      BY <2>2, <2>3 DEF SoftTickLaunch
  <1>5. /\ L \subseteq Worker /\ IsFiniteSet(L) /\ Cardinality(L) = n
        /\ \A w \in L : /\ w.kind = "soft" /\ w.gen = softGen'
                         /\ w.host \in {cfgs[i] : i \in DOMAIN cfgs}
    <2> HIDE DEF n
    <2> QED
      BY <1>0, <1>3, <1>4, LaunchFacts
  <1>6. softExpected' = n /\ pool' = pool \cup L /\ inflight' = inflight \cup L
    BY DEF SoftTickLaunch, Expect
  <1>7. Unused("soft", softGen')
    BY DEF SoftTickLaunch
  <1>8. \A w \in L : w.host \in Configured
    BY <1>5 DEF Configured
  <1> HIDE DEF L, n
  <1> QED
    BY <1>3, <1>4, <1>5, <1>6, <1>7, <1>8
----------------------------------------------------------------------------
(* Every variable keeps its type, the pool stays finite, and _workers never *)
(* holds more than MAX_WORKERS.                                             *)
LEMMA InitType == Init => TypeInv
  <1> SUFFICES ASSUME Init PROVE TypeInv
    OBVIOUS
  <1>1. cfgs \in HostSequences /\ ops = {} /\ softRepo = {}
    BY DEF Init
  <1>2. cache \subseteq Item /\ saved \in BOOLEAN
    <2>1. \A h \in Hosts : Delivered(h, "full") \subseteq Item
      BY DeliveredType
    <2>2. \A H \in SUBSET Hosts : UNION {Delivered(h, "full") : h \in H} \subseteq Item
      BY <2>1
    <2> QED
      BY <2>2 DEF Init
  <1>3. /\ pool \subseteq Worker /\ IsFiniteSet(pool) /\ Cardinality(pool) <= MaxWorkers
        /\ inflight = pool /\ hardPending = pool
        /\ repo \subseteq Item
        /\ treeLoading \in BOOLEAN /\ offline \in BOOLEAN
    BY <1>1, <1>2, BootFacts DEF Init
  <1>4. 1 \in 1..GenBound
    BY ConstantsAssumption
  <1>5. /\ softActive \in BOOLEAN /\ recent \in BOOLEAN /\ expired \in BOOLEAN
        /\ hardGen = 1 /\ softGen = 1
        /\ softRunning \in BOOLEAN /\ softDone = 0 /\ softExpected = 0
    BY DEF Init
  <1>6. TypeOK
    BY <1>1, <1>2, <1>3, <1>4, <1>5 DEF TypeOK
  <1>7. PoolBound
    <2>1. Cardinality(ops) = 0 /\ Cardinality(pool) \in Nat
      BY <1>1, <1>3, FS_EmptySet, FS_CardinalityType
    <2> QED
      BY <1>3, <2>1 DEF PoolBound, Busy
  <1> QED
    BY <1>3, <1>6, <1>7 DEF TypeInv

(* A worker that leaves the pool, and one that only reports.                *)
LEMMA PoolShrinks ==
    ASSUME TypeInv, pool' \subseteq pool, inflight' \subseteq inflight,
           inflight' \subseteq pool', ops' = ops
    PROVE  IsFiniteSet(pool)' /\ PoolBound' /\ (pool \subseteq Worker)' /\ (inflight \subseteq Worker)'
  <1>1. IsFiniteSet(pool') /\ Cardinality(pool') <= Cardinality(pool)
    BY FS_Subset DEF TypeInv
  <1>2. Cardinality(pool') \in Nat
    BY <1>1, FS_CardinalityType
  <1>3. Cardinality(pool') + Cardinality(ops') <= MaxWorkers
    BY <1>1, <1>2, SizesType, ConstantsAssumption DEF Busy
  <1> QED
    BY <1>1, <1>3 DEF TypeInv, TypeOK, PoolBound, Busy

(* Workers that are started in free slots.                                  *)
LEMMA PoolGrows ==
    ASSUME TypeInv, NEW started \in SUBSET Worker, IsFiniteSet(started),
           Cardinality(started) <= MaxWorkers - Busy, ops' = ops,
           pool' = pool \cup started, inflight' = inflight \cup started
    PROVE  IsFiniteSet(pool)' /\ PoolBound' /\ (pool \subseteq Worker)' /\ (inflight \subseteq Worker)'
  <1>1. /\ IsFiniteSet(pool') /\ IsFiniteSet(pool \cap started)
        /\ Cardinality(pool') =
             Cardinality(pool) + Cardinality(started) - Cardinality(pool \cap started)
    BY FS_Union, FS_Intersection DEF TypeInv
  <1>2. /\ Cardinality(started) \in Nat /\ Cardinality(pool \cap started) \in Nat
        /\ Cardinality(pool') \in Nat
    BY <1>1, FS_CardinalityType
  <1>3. Cardinality(pool') + Cardinality(ops') <= MaxWorkers
    BY <1>1, <1>2, SizesType, ConstantsAssumption DEF Busy
  <1> QED
    BY <1>1, <1>3 DEF TypeInv, TypeOK, PoolBound, Busy

LEMMA StepType == TypeInv /\ [Next]_vars => TypeInv'
  <1> SUFFICES ASSUME TypeInv, [Next]_vars PROVE TypeInv'
    OBVIOUS
  <1> USE DEF TypeInv, TypeOK
  <1>1. CASE UserRefresh
    <2>1. PICK cs \in HostSequences : RefreshWith(cs)
      BY <1>1 DEF UserRefresh, RefreshData, AddServers, HostRemove
    <2>2. PICK started \in SUBSET Worker :
             /\ IsFiniteSet(started) /\ Cardinality(started) <= MaxWorkers - Busy
             /\ pool' = pool \cup started /\ inflight' = inflight \cup started
             /\ hardPending' = started
             /\ hardGen' \in 1..GenBound /\ softGen' \in 1..GenBound
             /\ cfgs' = cs /\ repo' = {} /\ softRepo' = {} /\ ops' = ops
             /\ softRunning' = FALSE
      BY <2>1, RefreshFacts
    <2>3. IsFiniteSet(pool)' /\ PoolBound' /\ (pool \subseteq Worker)' /\ (inflight \subseteq Worker)'
      BY <2>2, PoolGrows
    <2>4. /\ treeLoading' \in BOOLEAN /\ softActive' = FALSE
          /\ softDone' = 0 /\ softExpected' = 0
          /\ UNCHANGED <<offline, recent, expired, cache, saved>>
      BY <2>1 DEF RefreshWith
    <2> QED
      BY <2>2, <2>3, <2>4
  <1>2. ASSUME NEW w \in Worker, HardStale(w) PROVE TypeInv'
    <2>1. inflight' \subseteq inflight /\ UNCHANGED <<ui, coord, cache, saved>>
      BY <1>2 DEF HardStale
    <2>2. inflight' \subseteq pool'
      BY <2>1 DEF ui, PoolBound
    <2>3. IsFiniteSet(pool)' /\ PoolBound' /\ (pool \subseteq Worker)' /\ (inflight \subseteq Worker)'
      BY <2>1, <2>2, PoolShrinks DEF ui
    <2> QED
      BY <2>1, <2>3 DEF ui, coord
  <1>3. ASSUME NEW w \in Worker, NEW outcome, HardResult(w, outcome) PROVE TypeInv'
    <2>1. /\ inflight' = inflight \ {w} /\ pool' = pool \ {w} /\ ops' = ops
          /\ hardPending' = hardPending \ {w} /\ repo' = Received(repo, w.host, outcome)
          /\ UNCHANGED <<cfgs, softRepo, softActive, hardGen,
                         softGen, softRunning, softDone, softExpected, expired>>
      BY <1>3 DEF HardResult
    <2>2. IsFiniteSet(pool)' /\ PoolBound' /\ (pool \subseteq Worker)' /\ (inflight \subseteq Worker)'
      BY <2>1, PoolShrinks DEF PoolBound
    <2>3. repo' \subseteq Item
      BY <2>1, ReceivedFacts DEF Worker
    <2>4. /\ treeLoading' \in BOOLEAN /\ recent' \in BOOLEAN /\ offline' \in BOOLEAN
          /\ cache' \subseteq Item /\ saved' \in BOOLEAN
      BY <1>3, <2>3 DEF HardResult, Saved
    <2> QED
      BY <2>1, <2>2, <2>3, <2>4
  <1>4. ASSUME NEW w \in Worker, HardFinished(w) PROVE TypeInv'
    <2>1. /\ pool' = pool \ {w} /\ inflight' = inflight /\ w \notin inflight
          /\ UNCHANGED <<cfgs, ops, repo, softRepo, treeLoading, softActive, offline, recent,
                         coord, cache, saved>>
      BY <1>4 DEF HardFinished
    <2>2. IsFiniteSet(pool)' /\ PoolBound' /\ (pool \subseteq Worker)' /\ (inflight \subseteq Worker)'
      BY <2>1, PoolShrinks DEF PoolBound
    <2> QED
      BY <2>1, <2>2 DEF coord
  <1>5. CASE SoftTickIdle
    <2>1. softGen' \in 1..GenBound
      BY <1>5, NextGenType DEF SoftTickIdle, SoftBase
    <2>2. softExpected' \in Nat
      BY <1>5, HostSequenceType DEF SoftTickIdle
    <2>3. inflight' \subseteq pool'
      BY <1>5 DEF SoftTickIdle, PoolBound
    <2>4. IsFiniteSet(pool)' /\ PoolBound' /\ (pool \subseteq Worker)' /\ (inflight \subseteq Worker)'
      BY <1>5, <2>3, PoolShrinks DEF SoftTickIdle
    <2> QED
      BY <1>5, <2>1, <2>2, <2>4 DEF SoftTickIdle
  <1>6. CASE SoftTickLaunch
    <2>1. PICK started \in SUBSET Worker :
             /\ IsFiniteSet(started) /\ Cardinality(started) <= MaxWorkers - Busy
             /\ pool' = pool \cup started /\ inflight' = inflight \cup started
             /\ softExpected' \in Nat /\ softGen' \in 1..GenBound
      BY <1>6, SoftLaunchFacts
    <2>2. /\ softRunning' = TRUE /\ softDone' = 0 /\ softActive' = TRUE /\ recent' = TRUE
          /\ expired' = FALSE /\ softRepo' = {}
          /\ UNCHANGED <<cfgs, ops, repo, treeLoading, offline, hardGen, hardPending,
                         cache, saved>>
      BY <1>6 DEF SoftTickLaunch
    <2>3. IsFiniteSet(pool)' /\ PoolBound' /\ (pool \subseteq Worker)' /\ (inflight \subseteq Worker)'
      BY <2>1, <2>2, PoolGrows
    <2> QED
      BY <2>1, <2>2, <2>3
  <1>7. ASSUME NEW w \in Worker, SoftStale(w) PROVE TypeInv'
    <2>1. /\ inflight' = inflight \ {w} /\ pool' = pool \ {w}
          /\ UNCHANGED <<cfgs, ops, repo, softRepo, treeLoading, softActive, offline, recent,
                         coord, cache, saved>>
      BY <1>7 DEF SoftStale
    <2>2. IsFiniteSet(pool)' /\ PoolBound' /\ (pool \subseteq Worker)' /\ (inflight \subseteq Worker)'
      BY <2>1, PoolShrinks DEF PoolBound
    <2> QED
      BY <2>1, <2>2 DEF coord
  <1>8. ASSUME NEW w \in Worker, NEW outcome, SoftPart(w, outcome) PROVE TypeInv'
    <2>1. /\ inflight' = inflight \ {w} /\ pool' = pool \ {w}
          /\ softDone' = softDone + 1 /\ softRepo' = Received(softRepo, w.host, outcome)
          /\ UNCHANGED <<cfgs, ops, repo, treeLoading, softActive, offline, recent, hardGen,
                         hardPending, softGen, softRunning, softExpected, expired, cache, saved>>
      BY <1>8 DEF SoftPart
    <2>2. IsFiniteSet(pool)' /\ PoolBound' /\ (pool \subseteq Worker)' /\ (inflight \subseteq Worker)'
      BY <2>1, PoolShrinks DEF PoolBound
    <2>3. softRepo' \subseteq Item
      BY <2>1, ReceivedFacts DEF Worker
    <2> QED
      BY <2>1, <2>2, <2>3
  <1>9. ASSUME NEW w \in Worker, NEW outcome, SoftLast(w, outcome) PROVE TypeInv'
    <2> DEFINE result == Received(softRepo, w.host, outcome)
    <2>1. /\ inflight' = inflight \ {w} /\ pool' = pool \ {w}
          /\ softDone' = softDone + 1 /\ softRepo' = {}
          /\ softRunning' = FALSE /\ softActive' = FALSE
          /\ UNCHANGED <<cfgs, ops, recent, hardGen, hardPending, softGen, softExpected, expired>>
      BY <1>9 DEF SoftLast
    <2>2. IsFiniteSet(pool)' /\ PoolBound' /\ (pool \subseteq Worker)' /\ (inflight \subseteq Worker)'
      BY <2>1, PoolShrinks DEF PoolBound
    <2>3. result \subseteq Item
      BY ReceivedFacts DEF Worker
    <2>4. \/ /\ repo' = result /\ cache' = Saved(result) /\ saved' = TRUE /\ offline' = FALSE
             /\ treeLoading' = (treeLoading /\ Signature(repo) = Signature(result))
          \/ UNCHANGED <<repo, treeLoading, cache, saved, offline>>
      BY <1>9 DEF SoftLast
    <2> HIDE DEF result
    <2>5. /\ treeLoading' \in BOOLEAN /\ offline' \in BOOLEAN
          /\ repo' \subseteq Item /\ cache' \subseteq Item /\ saved' \in BOOLEAN
      BY <2>3, <2>4 DEF Saved
    <2>6. {treeLoading, softActive, offline, recent, softRunning, expired, saved}' \subseteq BOOLEAN
      BY <2>1, <2>5
    <2> QED
      BY <2>1, <2>2, <2>5, <2>6
  <1>10. ASSUME NEW o \in Ops, OpStart(o) PROVE TypeInv'
    <2>1. /\ o \notin ops /\ Busy < MaxWorkers /\ ops' = ops \cup {o}
          /\ UNCHANGED <<cfgs, pool, repo, softRepo, treeLoading, softActive, offline, recent,
                         coord, inflight, cache, saved>>
      BY <1>10 DEF OpStart, FreeSlot
    <2>2. Cardinality(ops') = Cardinality(ops) + 1
      BY <2>1, SizesType, FS_AddElement
    <2>3. PoolBound'
      BY <2>1, <2>2, SizesType, ConstantsAssumption DEF PoolBound, Busy
    <2> QED
      BY <2>1, <2>3 DEF coord
  <1>11. ASSUME NEW o \in Ops, OpFinished(o) PROVE TypeInv'
    <2>1. /\ o \in ops /\ ops' = ops \ {o}
          /\ UNCHANGED <<cfgs, pool, repo, softRepo, treeLoading, softActive, offline, recent,
                         coord, inflight, cache, saved>>
      BY <1>11 DEF OpFinished
    <2>2. Cardinality(ops') = Cardinality(ops) - 1
      BY <2>1, SizesType, FS_RemoveElement
    <2>3. PoolBound'
      BY <2>1, <2>2, SizesType, ConstantsAssumption DEF PoolBound, Busy
    <2> QED
      BY <2>1, <2>3 DEF coord
  <1>12. CASE IntervalPasses \/ SoftTimeoutPasses \/ UNCHANGED vars
    <2>1. /\ recent' \in BOOLEAN /\ expired' \in BOOLEAN
          /\ UNCHANGED <<cfgs, pool, ops, repo, softRepo, treeLoading, softActive, offline,
                         hardGen, hardPending, softGen, softRunning, softDone, softExpected,
                         inflight, cache, saved>>
      BY <1>12 DEF IntervalPasses, SoftTimeoutPasses, vars, ui, coord
    <2> QED
      BY <2>1 DEF PoolBound, Busy
  <1>13. CASE Restart
    <2>1. 1 \in 1..GenBound
      BY ConstantsAssumption
    <2>2. /\ ops' = {} /\ softRepo' = {} /\ UNCHANGED <<cfgs, cache, saved>>
          /\ softActive' = FALSE /\ recent' = FALSE /\ expired' = FALSE
          /\ hardGen' = 1 /\ softGen' = 1
          /\ softRunning' = FALSE /\ softDone' = 0 /\ softExpected' = 0
      BY <1>13 DEF Restart
    <2>3. /\ pool' \subseteq Worker /\ IsFiniteSet(pool') /\ Cardinality(pool') <= MaxWorkers
          /\ inflight' = pool' /\ hardPending' = pool'
          /\ repo' \subseteq Item
          /\ treeLoading' \in BOOLEAN /\ offline' \in BOOLEAN
      BY <1>13, BootFacts DEF Restart
    <2>4. Cardinality(ops') = 0 /\ Cardinality(pool') \in Nat
      BY <2>2, <2>3, FS_EmptySet, FS_CardinalityType
    <2>5. PoolBound'
      BY <2>3, <2>4 DEF PoolBound, Busy
    <2> QED
      BY <2>1, <2>2, <2>3, <2>5
  <1> QED
    BY <1>1, <1>2, <1>3, <1>4, <1>5, <1>6, <1>7, <1>8, <1>9, <1>10, <1>11, <1>12, <1>13
    DEF Next, Deliver

(* The books of both cycles keep their types, for every set of hosts and    *)
(* operations, every size of the pool and every number of generations       *)
(* (RefreshCoordinator, MainWindow).                                        *)
THEOREM TypeCorrect == Spec => []TypeOK
  <1>1. TypeInv => TypeOK
    BY DEF TypeInv
  <1> QED
    BY InitType, StepType, <1>1, PTL DEF Spec
----------------------------------------------------------------------------
(* TypeOK with the finiteness of what the pool holds, which the counting of *)
(* workers rests on (_run_worker adds one at a time).                       *)
THEOREM Typed == Spec => []TypeInv
  BY InitType, StepType, PTL DEF Spec

(* The pool never holds more workers than MAX_WORKERS and every fetch whose *)
(* result is still to come is in it (_run_worker, soft_refresh).            *)
THEOREM PoolIsBounded == Spec => []PoolBound
  <1>1. TypeInv => PoolBound
    BY DEF TypeInv
  <1> QED
    BY Typed, <1>1, PTL
----------------------------------------------------------------------------
(* What the actions that leave the generations alone do to the workers      *)
(* whose result is still to come.                                           *)
LEMMA QuietActions ==
    ASSUME \/ \E w \in Worker : HardFinished(w)
           \/ \E o \in Ops : OpStart(o) \/ OpFinished(o)
           \/ IntervalPasses \/ SoftTimeoutPasses \/ UNCHANGED vars
    PROVE  UNCHANGED <<inflight, hardGen, hardPending, softGen, softRunning, softDone,
                       softExpected, cfgs, repo, softRepo>>
  BY DEF HardFinished, OpStart, OpFinished, IntervalPasses, SoftTimeoutPasses, vars, ui, coord

LEMMA InitWorkers ==
    ASSUME Init
    PROVE  /\ hardPending = inflight /\ hardGen = 1 /\ softRunning = FALSE
           /\ \A w \in inflight : w.kind = "hard" /\ w.gen = 1 /\ w.host \in Configured
           /\ softRepo = {} /\ \A i \in repo : i.st = "cached"
  <1>1. cfgs \in HostSequences /\ cache \subseteq Item /\ saved \in BOOLEAN
    BY InitType DEF TypeInv, TypeOK, Init
  <1> QED
    BY <1>1, BootFacts DEF Init, Configured

LEMMA RestartWorkers ==
    ASSUME TypeInv, Restart
    PROVE  /\ hardPending' = inflight' /\ hardGen' = 1 /\ softRunning' = FALSE
           /\ cfgs' = cfgs
           /\ \A w \in inflight' : w.kind = "hard" /\ w.gen = 1 /\ w.host \in Configured
           /\ softRepo' = {} /\ \A i \in repo' : i.st = "cached"
  <1>1. cfgs \in HostSequences /\ cache \subseteq Item /\ saved \in BOOLEAN
    BY DEF TypeInv, TypeOK
  <1> QED
    BY <1>1, BootFacts DEF Restart, Configured
----------------------------------------------------------------------------
(* The hard cycle waits for exactly the workers of its generation that will *)
(* still report, so a rejected or an outdated worker never holds it up and  *)
(* it is never finalised while a fetch of its own is out (track_hard,       *)
(* hard_done, hard_result_current).                                         *)
THEOREM HardAccounting == Spec => []HardAccount
  <1>1. Init => HardAccount
    BY InitWorkers DEF HardAccount, CurrentHard
  <1>2. TypeInv /\ HardAccount /\ [Next]_vars => HardAccount'
    <2> SUFFICES ASSUME TypeInv, HardAccount, [Next]_vars PROVE HardAccount'
      OBVIOUS
    <2> USE DEF HardAccount, CurrentHard
    <2>1. CASE UserRefresh
      <3>1. PICK cs \in HostSequences : RefreshWith(cs)
        BY <2>1 DEF UserRefresh, RefreshData, AddServers, HostRemove, TypeInv, TypeOK
      <3>2. PICK started \in SUBSET Worker :
              /\ \A w \in started : w.kind = "hard" /\ w.gen = hardGen'
              /\ inflight' = inflight \cup started /\ hardPending' = started
              /\ Unused("hard", hardGen')
        BY <3>1, RefreshFacts
      <3>3. \A w \in inflight : ~(w.kind = "hard" /\ w.gen = hardGen')
        BY <3>2 DEF Unused, TypeInv, PoolBound
      <3> QED
        BY <3>2, <3>3
    <2>2. ASSUME NEW w \in Worker, HardStale(w) \/ SoftStale(w) PROVE HardAccount'
      BY <2>2 DEF HardStale, SoftStale, IsCurrent, ui, coord
    <2>3. ASSUME NEW w \in Worker, NEW outcome,
                 HardResult(w, outcome) \/ SoftPart(w, outcome) \/ SoftLast(w, outcome)
          PROVE  HardAccount'
      BY <2>3 DEF HardResult, SoftPart, SoftLast
    <2>4. CASE SoftTickIdle
      BY <2>4 DEF SoftTickIdle
    <2>5. CASE SoftTickLaunch
      <3>1. PICK started \in SUBSET Worker :
              /\ \A w \in started : w.kind = "soft"
              /\ inflight' = inflight \cup started
        BY <2>5, SoftLaunchFacts
      <3> QED
        BY <3>1, <2>5 DEF SoftTickLaunch
    <2>6. CASE Restart
      BY <2>6, RestartWorkers
    <2>7. CASE \/ \E w \in Worker : HardFinished(w)
               \/ \E o \in Ops : OpStart(o) \/ OpFinished(o)
               \/ IntervalPasses \/ SoftTimeoutPasses \/ UNCHANGED vars
      BY <2>7, QuietActions
    <2> QED
      BY <2>1, <2>2, <2>3, <2>4, <2>5, <2>6, <2>7 DEF Next, Deliver
  <1> QED
    BY <1>1, <1>2, Typed, PTL DEF Spec
----------------------------------------------------------------------------
(* A soft cycle is running exactly as long as a result of it is still to    *)
(* come, and counts to exactly the number it expects (begin_soft,           *)
(* soft_result, reset_soft, finish_soft).                                   *)
LEMMA SoftStep == TypeInv /\ SoftAccount /\ [Next]_vars => SoftAccount'
  <1> SUFFICES ASSUME TypeInv, SoftAccount, [Next]_vars PROVE SoftAccount'
    OBVIOUS
  <1> USE DEF SoftAccount, CurrentSoft
  <1>0. IsFiniteSet(CurrentSoft) /\ Cardinality(CurrentSoft) \in Nat
    <2>1. CurrentSoft \subseteq pool
      BY DEF TypeInv, PoolBound
    <2> QED
      BY <2>1, FS_Subset, FS_CardinalityType DEF TypeInv
  <1>1. CASE UserRefresh
    <2>1. PICK cs \in HostSequences : RefreshWith(cs)
      BY <1>1 DEF UserRefresh, RefreshData, AddServers, HostRemove, TypeInv, TypeOK
    <2>2. PICK started \in SUBSET Worker :
            /\ \A w \in started : w.kind = "hard"
            /\ inflight' = inflight \cup started
            /\ Unused("soft", softGen') /\ softRunning' = FALSE
      BY <2>1, RefreshFacts
    <2>3. \A w \in inflight : ~(w.kind = "soft" /\ w.gen = softGen')
      BY <2>2 DEF Unused, TypeInv, PoolBound
    <2> QED
      BY <2>2, <2>3
  <1>2. ASSUME NEW w \in Worker, HardStale(w) \/ SoftStale(w) PROVE SoftAccount'
    <2>1. CurrentSoft' = CurrentSoft
      BY <1>2 DEF HardStale, SoftStale, IsCurrent, ui, coord
    <2> QED
      BY <1>2, <2>1 DEF HardStale, SoftStale, ui, coord
  <1>3. ASSUME NEW w \in Worker, NEW outcome, HardResult(w, outcome) PROVE SoftAccount'
    <2>1. CurrentSoft' = CurrentSoft
      BY <1>3 DEF HardResult
    <2> QED
      BY <1>3, <2>1 DEF HardResult
  <1>4. ASSUME NEW w \in Worker, NEW outcome,
               SoftPart(w, outcome) \/ SoftLast(w, outcome)
        PROVE  SoftAccount'
    <2>1. w \in CurrentSoft /\ CurrentSoft' = CurrentSoft \ {w} /\ softDone' = softDone + 1
          /\ softExpected' = softExpected
      BY <1>4 DEF SoftPart, SoftLast, IsCurrent
    <2>2. softRunning /\ softDone + Cardinality(CurrentSoft) = softExpected
      BY <2>1
    <2>3. /\ IsFiniteSet(CurrentSoft') /\ Cardinality(CurrentSoft') \in Nat
          /\ Cardinality(CurrentSoft') = Cardinality(CurrentSoft) - 1
      BY <1>0, <2>1, FS_RemoveElement, FS_CardinalityType
    <2>4. softDone \in Nat /\ softExpected \in Nat
      BY DEF TypeInv, TypeOK
    <2>5. CASE SoftPart(w, outcome)
      <3>1. softDone + 1 < softExpected /\ softRunning' = softRunning
        BY <2>5 DEF SoftPart
      <3>2. Cardinality(CurrentSoft') # 0
        BY <2>2, <2>3, <2>4, <3>1, <1>0
      <3>3. CurrentSoft' # {}
        BY <3>2, FS_EmptySet
      <3>4. softDone' + Cardinality(CurrentSoft') = softExpected'
        BY <2>1, <2>2, <2>3, <2>4, <1>0
      <3> QED
        BY <2>2, <3>1, <3>3, <3>4
    <2>6. CASE SoftLast(w, outcome)
      <3>1. softDone + 1 >= softExpected /\ softRunning' = FALSE
        BY <2>6 DEF SoftLast
      <3>2. Cardinality(CurrentSoft') = 0
        BY <2>2, <2>3, <2>4, <3>1, <1>0
      <3>3. CurrentSoft' = {}
        BY <2>3, <3>2, FS_EmptySet
      <3> QED
        BY <3>1, <3>3
    <2> QED
      BY <1>4, <2>5, <2>6
  <1>5. CASE SoftTickIdle
    <2>1. Unused("soft", softGen') /\ softRunning' = FALSE /\ inflight' = inflight
      BY <1>5 DEF SoftTickIdle
    <2> QED
      BY <2>1 DEF Unused, TypeInv, PoolBound
  <1>6. CASE SoftTickLaunch
    <2>1. PICK started \in SUBSET Worker :
            /\ IsFiniteSet(started)
            /\ \A w \in started : w.kind = "soft" /\ w.gen = softGen'
            /\ inflight' = inflight \cup started
            /\ softExpected' = Cardinality(started) /\ softExpected' \in Nat \ {0}
            /\ Unused("soft", softGen')
      BY <1>6, SoftLaunchFacts
    <2>2. CurrentSoft' = started
      BY <2>1 DEF Unused, TypeInv, PoolBound
    <2>3. started # {}
      BY <2>1, FS_EmptySet
    <2>4. softRunning' = TRUE /\ softDone' = 0
      BY <1>6 DEF SoftTickLaunch
    <2>5. softDone' + Cardinality(started) = softExpected'
      BY <2>1, <2>4
    <2> HIDE DEF CurrentSoft
    <2>6. CurrentSoft' # {} /\ softDone' + Cardinality(CurrentSoft') = softExpected'
      BY <2>2, <2>3, <2>5
    <2> QED
      BY <2>4, <2>6
  <1>7. CASE Restart
    BY <1>7, RestartWorkers
  <1>8. CASE \/ \E w \in Worker : HardFinished(w)
             \/ \E o \in Ops : OpStart(o) \/ OpFinished(o)
             \/ IntervalPasses \/ SoftTimeoutPasses \/ UNCHANGED vars
    BY <1>8, QuietActions
  <1> QED
    BY <1>1, <1>2, <1>3, <1>4, <1>5, <1>6, <1>7, <1>8 DEF Next, Deliver

(* A running soft cycle has counted and will count exactly the results it   *)
(* expects, and none is under way when it is over: a cycle given up at its  *)
(* time-out is never completed by its late answers (begin_soft,             *)
(* soft_result, reset_soft).                                                *)
THEOREM SoftAccounting == Spec => []SoftAccount
  <1>1. Init => SoftAccount
    BY InitWorkers DEF SoftAccount, CurrentSoft
  <1> QED
    BY <1>1, SoftStep, Typed, PTL DEF Spec
----------------------------------------------------------------------------
(* The workers whose results are still accepted fetch configured hosts:     *)
(* every change of the configuration starts new generations.                *)
AskConfigured == \A w \in CurrentHard \cup CurrentSoft : w.host \in Configured

RemovedInv == RemovedHostStaysGone /\ AskConfigured

LEMMA RemovedStep == TypeInv /\ RemovedInv /\ [Next]_vars => RemovedInv'
  <1> SUFFICES ASSUME TypeInv, RemovedInv, [Next]_vars PROVE RemovedInv'
    OBVIOUS
  <1> USE DEF RemovedInv, RemovedHostStaysGone, AskConfigured, CurrentHard, CurrentSoft
  <1>0. inflight \subseteq pool /\ repo \subseteq Item /\ softRepo \subseteq Item
    BY DEF TypeInv, TypeOK, PoolBound
  <1>1. CASE UserRefresh
    <2>1. PICK cs \in HostSequences : RefreshWith(cs)
      BY <1>1 DEF UserRefresh, RefreshData, AddServers, HostRemove, TypeInv, TypeOK
    <2>2. PICK started \in SUBSET Worker :
            /\ \A w \in started : w.host \in {cs[i] : i \in DOMAIN cs}
            /\ inflight' = inflight \cup started
            /\ Unused("hard", hardGen') /\ Unused("soft", softGen')
            /\ cfgs' = cs /\ repo' = {} /\ softRepo' = {}
      BY <2>1, RefreshFacts
    <2>3. \A w \in inflight : /\ ~(w.kind = "hard" /\ w.gen = hardGen')
                              /\ ~(w.kind = "soft" /\ w.gen = softGen')
      BY <2>2, <1>0 DEF Unused
    <2>4. \A w \in CurrentHard' \cup CurrentSoft' : w \in started
      BY <2>2, <2>3
    <2>5. Configured' = {cs[i] : i \in DOMAIN cs}
      BY <2>2 DEF Configured
    <2> QED
      BY <2>2, <2>4, <2>5
  <1>2. ASSUME NEW w \in Worker, HardStale(w) \/ SoftStale(w) PROVE RemovedInv'
    BY <1>2 DEF HardStale, SoftStale, ui, coord, Configured
  <1>3. ASSUME NEW w \in Worker, NEW outcome,
               \/ HardResult(w, outcome) \/ SoftPart(w, outcome) \/ SoftLast(w, outcome)
        PROVE  RemovedInv'
    <2>1. /\ w \in CurrentHard \cup CurrentSoft
          /\ inflight' = inflight \ {w}
          /\ UNCHANGED <<cfgs, hardGen, softGen>>
      BY <1>3 DEF HardResult, SoftPart, SoftLast, IsCurrent, Worker
    <2>2. w.host \in Configured /\ Configured' = Configured /\ w.host \in Hosts
      BY <2>1 DEF Configured, Worker
    <2>3. AskConfigured'
      BY <2>1, <2>2
    <2>4. \A R \in SUBSET Item :
            (\A i \in R : i.st # "cached" => i.host \in Configured)
            => \A i \in Received(R, w.host, outcome) : i.st # "cached" => i.host \in Configured
      BY <2>2, ReceivedFacts
    <2>5. \A i \in Received(repo, w.host, outcome) \cup Received(softRepo, w.host, outcome) :
            i.st # "cached" => i.host \in Configured
      BY <1>0, <2>4
    <2>6. /\ repo' \subseteq repo \cup Received(repo, w.host, outcome)
                                  \cup Received(softRepo, w.host, outcome)
          /\ softRepo' \subseteq softRepo \cup Received(softRepo, w.host, outcome)
      BY <1>3 DEF HardResult, SoftPart, SoftLast
    <2>7. RemovedHostStaysGone'
      BY <2>2, <2>5, <2>6
    <2> QED
      BY <2>3, <2>7
  <1>4. CASE SoftTickIdle
    <2>1. /\ inflight' = inflight /\ UNCHANGED <<cfgs, repo, hardGen>> /\ softRepo' = {}
          /\ Unused("soft", softGen')
      BY <1>4 DEF SoftTickIdle
    <2> QED
      BY <1>0, <2>1 DEF Unused, Configured
  <1>5. CASE SoftTickLaunch
    <2>1. PICK started \in SUBSET Worker :
            /\ \A w \in started : w.kind = "soft" /\ w.host \in Configured
            /\ inflight' = inflight \cup started
            /\ Unused("soft", softGen')
      BY <1>5, SoftLaunchFacts
    <2>2. UNCHANGED <<cfgs, repo, hardGen>> /\ softRepo' = {}
      BY <1>5 DEF SoftTickLaunch
    <2>3. \A w \in CurrentHard' \cup CurrentSoft' : w \in CurrentHard \/ w \in started
      BY <1>0, <2>1, <2>2 DEF Unused
    <2> QED
      BY <2>1, <2>2, <2>3 DEF Configured
  <1>6. CASE Restart
    BY <1>6, RestartWorkers DEF Configured
  <1>7. CASE \/ \E w \in Worker : HardFinished(w)
             \/ \E o \in Ops : OpStart(o) \/ OpFinished(o)
             \/ IntervalPasses \/ SoftTimeoutPasses \/ UNCHANGED vars
    BY <1>7, QuietActions DEF Configured
  <1> QED
    BY <1>1, <1>2, <1>3, <1>4, <1>5, <1>6, <1>7 DEF Next, Deliver

LEMMA RemovedInvariance == Spec => []RemovedInv
  <1>1. Init => RemovedInv
    BY InitWorkers
    DEF RemovedInv, RemovedHostStaysGone, AskConfigured, CurrentHard, CurrentSoft
  <1> QED
    BY <1>1, RemovedStep, Typed, PTL DEF Spec

(* Nothing fetched for a host that left the configuration comes back,       *)
(* however late its fetch answers (on_worker_finished,                      *)
(* on_soft_refresh_result, _on_host_remove).                                *)
THEOREM RemovedHostIsGone == Spec => []RemovedHostStaysGone
  <1>1. RemovedInv => RemovedHostStaysGone
    BY DEF RemovedInv
  <1> QED
    BY <1>1, RemovedInvariance, PTL
----------------------------------------------------------------------------
(* What is shown goes only when a hard cycle starts, and then the loading   *)
(* marks are there (on_soft_refresh_result, refresh_data).                  *)
THEOREM TreeIsNeverBlanked == Spec => NeverBlanked
  <1>1. TypeInv /\ [Next]_vars
        => [repo # {} /\ repo' = {} => treeLoading' \/ cfgs' = <<>>]_vars
    <2> SUFFICES ASSUME TypeInv, [Next]_vars, repo # {}, repo' = {}, vars' # vars
                 PROVE  treeLoading' \/ cfgs' = <<>>
      OBVIOUS
    <2>0. repo \subseteq Item /\ softRepo \subseteq Item
      BY DEF TypeInv, TypeOK
    <2>1. CASE UserRefresh
      <3>1. PICK cs \in HostSequences : RefreshWith(cs)
        BY <2>1 DEF UserRefresh, RefreshData, AddServers, HostRemove, TypeInv, TypeOK
      <3>2. cfgs' = cs /\ treeLoading' = (cs # <<>>)
        BY <3>1 DEF RefreshWith
      <3> QED
        BY <3>2
    <2>2. CASE Restart
      BY <2>2 DEF Restart, Boot
    <2>3. ASSUME NEW w \in Worker, NEW outcome, HardResult(w, outcome) PROVE FALSE
      BY <2>0, <2>3, ReceivedFacts DEF HardResult, Worker
    <2>4. ASSUME NEW w \in Worker, NEW outcome, SoftLast(w, outcome) PROVE FALSE
      BY <2>4 DEF SoftLast, SwapWanted
    <2>5. CASE \/ SoftTickIdle \/ SoftTickLaunch
               \/ \E w \in Worker : \/ HardStale(w) \/ SoftStale(w)
                                    \/ \E outcome \in Outcomes : SoftPart(w, outcome)
      BY <2>5 DEF SoftTickIdle, SoftTickLaunch, HardStale, SoftStale, SoftPart, ui
    <2>6. CASE \/ \E w \in Worker : HardFinished(w)
               \/ \E o \in Ops : OpStart(o) \/ OpFinished(o)
               \/ IntervalPasses \/ SoftTimeoutPasses \/ UNCHANGED vars
      BY <2>6, QuietActions
    <2> QED
      BY <2>1, <2>2, <2>3, <2>4, <2>5, <2>6 DEF Next, Deliver
  <1> QED
    BY <1>1, Typed, PTL DEF Spec, NeverBlanked
----------------------------------------------------------------------------
(* Implementation of RefreshContract.  Within a generation a host has one   *)
(* worker, so the workers waited for are a set of hosts; the pool, the      *)
(* counters and the time-outs have no part in it.                           *)
Books == TypeInv /\ HardAccount /\ SoftAccount /\ RemovedInv

LEMMA BooksHold == Spec => []Books
  BY Typed, HardAccounting, SoftAccounting, RemovedInvariance, PTL DEF Books

LEMMA OneEach ==
    ASSUME NEW W \in SUBSET Worker, \A x, y \in W : x.kind = y.kind /\ x.gen = y.gen,
           NEW w \in W
    PROVE  {x.host : x \in W \ {w}} = {x.host : x \in W} \ {w.host}
  <1>1. \A x \in W : x.host = w.host => x = w
    BY DEF Worker
  <1> QED
    BY <1>1

LEMMA NoneConfigured ==
    ASSUME NEW cs \in HostSequences
    PROVE  cs = <<>> <=> {cs[i] : i \in DOMAIN cs} = {}
  <1>1. Len(cs) \in Nat /\ DOMAIN cs = 1..Len(cs) /\ cs \in [1..Len(cs) -> Hosts]
    BY HostSequenceType
  <1>2. cs \in Seq(Hosts)
    BY <1>1, SeqDef
  <1>3. cs = <<>> <=> Len(cs) = 0
    BY <1>2, EmptySeq
  <1>4. Len(cs) = 0 <=> DOMAIN cs = {}
    BY <1>1
  <1> QED
    BY <1>3, <1>4

(* An answer is about its host and forgets nothing of it.                   *)
LEMMA AddLearns ==
    ASSUME NEW R \in SUBSET Item, NEW new \in SUBSET Item, NEW h \in Hosts,
           \A i \in new : i.host = h
    PROVE  Contract!Learned(h, R, Add(R, new))
  <1>1. Add(R, new) \subseteq Item
    BY AddType
  <1>2. {i \in Add(R, new) : i.host # h} = {i \in R : i.host # h}
    BY DEF Add
  <1>3. \A i \in R : \E j \in Add(R, new) : j.host = i.host /\ j.part = i.part
    BY DEF Add
  <1> QED
    BY <1>1, <1>2, <1>3 DEF Contract!Learned

LEMMA ReceivedLearns ==
    ASSUME NEW R \in SUBSET Item, NEW h \in Hosts, NEW outcome
    PROVE  Contract!Learned(h, R, Received(R, h, outcome))
  <1>1. CASE outcome # "error"
    <2>1. Received(R, h, outcome) = Add(R, Delivered(h, outcome))
      BY <1>1 DEF Received
    <2> QED
      BY <2>1, DeliveredType, AddLearns
  <1>2. CASE outcome = "error"
    <2> DEFINE nodes == {i \in R : i.host = h /\ i.part # "vm"}
               new == IF nodes = {} THEN {[host |-> h, part |-> "stub", st |-> "error"]}
                                    ELSE {[i EXCEPT !.st = "error"] : i \in nodes}
    <2>1. new \in SUBSET Item /\ \A i \in new : i.host = h
      BY DEF Item
    <2>2. Received(R, h, outcome) = Add(R, new)
      BY <1>2 DEF Received, Failed
    <2> HIDE DEF new
    <2> QED
      BY <2>1, <2>2, AddLearns
  <1> QED
    BY <1>1, <1>2

(* The hosts that are waited for, before and after.                         *)
LEMMA WaitedFor ==
    ASSUME Books
    PROVE  /\ {w.host : w \in CurrentHard} \subseteq Configured
           /\ {w.host : w \in CurrentSoft} \subseteq Configured
           /\ CurrentHard \subseteq Worker /\ CurrentSoft \subseteq Worker
           /\ ~softRunning => CurrentSoft = {}
  BY DEF Books, RemovedInv, AskConfigured, SoftAccount, CurrentHard, CurrentSoft, TypeInv, TypeOK

LEMMA InitContract == Init => Contract!Init
  <1> SUFFICES ASSUME Init PROVE Contract!Init
    OBVIOUS
  <1>1. cfgs \in HostSequences /\ cfgs \in [1..Len(cfgs) -> Hosts] /\ DOMAIN cfgs = 1..Len(cfgs)
    BY HostSequenceType DEF Init
  <1>2. /\ Configured \subseteq Hosts
        /\ treeLoading = (Configured # {})
    BY <1>1, NoneConfigured DEF Configured, Init, Boot
  <1>3. /\ {w.host : w \in CurrentHard} \subseteq Configured
        /\ {w.host : w \in CurrentSoft} = {}
    BY InitWorkers DEF CurrentHard, CurrentSoft
  <1>4. repo = Contract!Cached(cache) /\ softRepo = {}
    BY DEF Init, Boot, Loaded, Contract!Cached
  <1> QED
    BY <1>2, <1>3, <1>4 DEF Contract!Init

LEMMA BeginContract ==
    ASSUME Books, Books', UserRefresh
    PROVE  Contract!Next
  <1>1. PICK cs \in HostSequences : RefreshWith(cs)
    BY DEF UserRefresh, RefreshData, AddServers, HostRemove, Books, TypeInv, TypeOK
  <1>2. /\ cfgs' = cs /\ repo' = {} /\ softRepo' = {} /\ cache' = cache
        /\ treeLoading' = (cs # <<>>) /\ softRunning' = FALSE
    BY <1>1 DEF RefreshWith
  <1> DEFINE hosts == {cs[i] : i \in DOMAIN cs}
  <1>3. hosts \in SUBSET Hosts /\ (cs # <<>>) = (hosts # {})
    BY HostSequenceType, NoneConfigured
  <1>4. Configured' = hosts
    BY <1>2 DEF Configured
  <1>5. /\ {w.host : w \in CurrentHard}' \subseteq Configured'
        /\ {w.host : w \in CurrentSoft}' = {}
    BY <1>2, WaitedFor DEF Books, RemovedInv, AskConfigured, SoftAccount
  <1> HIDE DEF hosts
  <1>6. Contract!HardBegin(hosts)
    BY <1>2, <1>3, <1>4, <1>5 DEF Contract!HardBegin
  <1> QED
    BY <1>3, <1>6 DEF Contract!Next

LEMMA RestartContract ==
    ASSUME Books, Books', Restart
    PROVE  Contract!Next
  <1>1. /\ cfgs' = cfgs /\ repo' = Loaded(cache) /\ softRepo' = {} /\ cache' = cache
        /\ treeLoading' = (cfgs # <<>>) /\ softRunning' = FALSE
    BY DEF Restart, Boot
  <1>2. (cfgs # <<>>) = (Configured # {}) /\ Configured' = Configured
    BY <1>1, NoneConfigured DEF Configured, Books, TypeInv, TypeOK
  <1>3. /\ {w.host : w \in CurrentHard}' \subseteq Configured'
        /\ {w.host : w \in CurrentSoft}' = {}
    BY <1>1 DEF Books, RemovedInv, AskConfigured, SoftAccount
  <1>4. Contract!Restart
    BY <1>1, <1>2, <1>3 DEF Contract!Restart, Contract!Cached, Loaded
  <1> QED
    BY <1>4 DEF Contract!Next

LEMMA HardContract ==
    ASSUME Books, Books', NEW w \in Worker, NEW outcome, HardResult(w, outcome)
    PROVE  Contract!Next
  <1>1. /\ inflight' = inflight \ {w} /\ w \in CurrentHard
        /\ hardPending' = hardPending \ {w} /\ repo' = Received(repo, w.host, outcome)
        /\ UNCHANGED <<cfgs, softRepo, hardGen, softGen>>
    BY DEF HardResult, IsCurrent, CurrentHard
  <1>2. CurrentHard' = CurrentHard \ {w} /\ CurrentSoft' = CurrentSoft /\ Configured' = Configured
    BY <1>1 DEF CurrentHard, CurrentSoft, Configured
  <1>3. {x.host : x \in CurrentHard}' = {x.host : x \in CurrentHard} \ {w.host}
    <2>1. \A x, y \in CurrentHard : x.kind = y.kind /\ x.gen = y.gen
      BY DEF CurrentHard
    <2> QED
      BY <1>1, <1>2, <2>1, WaitedFor, OneEach
  <1>4. hardPending' = CurrentHard'
    BY DEF Books, HardAccount
  <1>5. {x.host : x \in CurrentHard}' = {} <=> hardPending' = {}
    BY <1>4
  <1>6. Contract!Learned(w.host, repo, repo') /\ w.host \in Hosts
    BY <1>1, ReceivedLearns DEF Worker, Books, TypeInv, TypeOK
  <1>7. IF hardPending' = {} THEN treeLoading' = FALSE /\ cache' = Contract!Lasting(repo')
                             ELSE UNCHANGED <<treeLoading, cache>>
    BY DEF HardResult, Saved, Contract!Lasting
  <1>8. {x.host : x \in CurrentSoft}' = {x.host : x \in CurrentSoft}
    BY <1>2
  <1>9. Contract!HardAnswer(w.host)
    BY <1>1, <1>2, <1>3, <1>5, <1>6, <1>7, <1>8 DEF Contract!HardAnswer
  <1> QED
    BY <1>6, <1>9 DEF Contract!Next

LEMMA SoftContract ==
    ASSUME Books, Books', NEW w \in Worker, NEW outcome,
           SoftPart(w, outcome) \/ SoftLast(w, outcome)
    PROVE  Contract!Next
  <1> DEFINE hosts == {x.host : x \in CurrentSoft}
             result == Received(softRepo, w.host, outcome)
  <1>1. /\ inflight' = inflight \ {w} /\ w \in CurrentSoft
        /\ UNCHANGED <<cfgs, hardGen, softGen>>
    BY DEF SoftPart, SoftLast, IsCurrent, CurrentSoft
  <1>2. CurrentSoft' = CurrentSoft \ {w} /\ CurrentHard' = CurrentHard /\ Configured' = Configured
    BY <1>1 DEF CurrentHard, CurrentSoft, Configured
  <1>3. hosts' = hosts \ {w.host} /\ w.host \in hosts
    <2>1. \A x, y \in CurrentSoft : x.kind = y.kind /\ x.gen = y.gen
      BY DEF CurrentSoft
    <2> QED
      BY <1>1, <1>2, <2>1, WaitedFor, OneEach
  <1>4. Contract!Learned(w.host, softRepo, result) /\ w.host \in Hosts
    BY ReceivedLearns DEF Worker, Books, TypeInv, TypeOK
  <1>5. {x.host : x \in CurrentHard}' = {x.host : x \in CurrentHard}
    BY <1>2
  <1>6. softRunning' = FALSE => hosts' = {}
    BY WaitedFor DEF Books, SoftAccount
  <1>7. softRunning' = TRUE => hosts' # {}
    BY DEF Books, SoftAccount
  <1>8. softRunning = TRUE
    BY <1>1, WaitedFor DEF Books, TypeInv, TypeOK
  <1> HIDE DEF hosts
  <1>9. CASE SoftPart(w, outcome)
    <2>1. softRunning' = TRUE /\ softRepo' = result /\ UNCHANGED <<repo, treeLoading, cache>>
      BY <1>8, <1>9 DEF SoftPart
    <2>2. Contract!SoftAnswer(w.host)
      BY <1>2, <1>3, <1>4, <1>5, <1>7, <2>1 DEF Contract!SoftAnswer, hosts
    <2> QED
      BY <1>4, <2>2 DEF Contract!Next
  <1>10. CASE SoftLast(w, outcome)
    <2>1. softRunning' = FALSE /\ softRepo' = {}
      BY <1>10 DEF SoftLast
    <2>2. hosts = {w.host} /\ hosts' = {}
      BY <1>3, <1>6, <2>1
    <2>3. \/ /\ repo' = result /\ repo' # {} /\ cache' = Contract!Lasting(repo')
             /\ treeLoading' \in {treeLoading, FALSE}
          \/ UNCHANGED <<repo, treeLoading, cache>>
      <3> HIDE DEF result
      <3>1. CASE result # {}
        <4>1. /\ repo' = result /\ cache' = Saved(result)
              /\ treeLoading' = (treeLoading /\ Signature(repo) = Signature(result))
          BY <1>10, <3>1 DEF SoftLast, SwapWanted, result
        <4>2. treeLoading \in BOOLEAN
          BY DEF Books, TypeInv, TypeOK
        <4> QED
          BY <3>1, <4>1, <4>2 DEF Saved, Contract!Lasting
      <3>2. CASE result = {}
        BY <1>10, <3>2 DEF SoftLast, SwapWanted, result
      <3> QED
        BY <3>1, <3>2
    <2>4. Contract!SoftEnd(w.host)
      BY <1>2, <1>4, <1>5, <2>1, <2>2, <2>3 DEF Contract!SoftEnd, hosts
    <2> QED
      BY <1>4, <2>4 DEF Contract!Next
  <1> QED
    BY <1>9, <1>10

LEMMA TickContract ==
    ASSUME Books, Books', SoftTickIdle \/ SoftTickLaunch
    PROVE  Contract!Next
  <1>1. UNCHANGED <<cfgs, repo, treeLoading, cache, hardGen>> /\ softRepo' = {}
    BY DEF SoftTickIdle, SoftTickLaunch
  <1>2. CurrentHard' = CurrentHard
    <2>1. CASE SoftTickIdle
      BY <2>1 DEF SoftTickIdle, CurrentHard
    <2>2. CASE SoftTickLaunch
      <3>1. PICK started \in SUBSET Worker :
              inflight' = inflight \cup started /\ \A w \in started : w.kind = "soft"
        BY <2>2, SoftLaunchFacts DEF Books
      <3> QED
        BY <1>1, <3>1 DEF CurrentHard
    <2> QED
      BY <2>1, <2>2
  <1>3. {w.host : w \in CurrentSoft}' \subseteq Configured' /\ Configured' = Configured
    BY <1>1 DEF Books, RemovedInv, AskConfigured, Configured
  <1>4. {w.host : w \in CurrentHard}' = {w.host : w \in CurrentHard}
    BY <1>2
  <1>5. Contract!SoftBegin
    BY <1>1, <1>3, <1>4 DEF Contract!SoftBegin
  <1> QED
    BY <1>5 DEF Contract!Next

(* What is not waited for leaves everything as it is.                       *)
LEMMA QuietContract ==
    ASSUME \/ \E w \in Worker : HardStale(w) \/ SoftStale(w) \/ HardFinished(w)
           \/ \E o \in Ops : OpStart(o) \/ OpFinished(o)
           \/ IntervalPasses \/ SoftTimeoutPasses \/ UNCHANGED vars
    PROVE  UNCHANGED Contract!vars
  <1>1. UNCHANGED <<cfgs, repo, softRepo, treeLoading, cache>>
    BY DEF HardStale, SoftStale, HardFinished, OpStart, OpFinished, IntervalPasses,
           SoftTimeoutPasses, vars, ui, coord
  <1>2. CurrentHard' = CurrentHard /\ CurrentSoft' = CurrentSoft
    BY DEF HardStale, SoftStale, HardFinished, OpStart, OpFinished, IntervalPasses,
           SoftTimeoutPasses, vars, ui, coord, CurrentHard, CurrentSoft, IsCurrent
  <1> QED
    BY <1>1, <1>2 DEF Contract!vars, Configured

LEMMA StepContract == Books /\ Books' /\ [Next]_vars => [Contract!Next]_(Contract!vars)
  <1> SUFFICES ASSUME Books, Books', [Next]_vars PROVE [Contract!Next]_(Contract!vars)
    OBVIOUS
  <1>1. ASSUME NEW w \in Worker, Deliver(w) PROVE [Contract!Next]_(Contract!vars)
    BY <1>1, HardContract, SoftContract, QuietContract DEF Deliver
  <1> QED
    BY <1>1, BeginContract, RestartContract, TickContract, QuietContract DEF Next

(* The coordinator's generations, counters and time-outs, with the pool     *)
(* that may refuse workers and their late results, implement two cycles     *)
(* that each wait for a set of hosts (RefreshCoordinator, on_worker_        *)
(* finished, on_soft_refresh_result): every step is one of RefreshContract  *)
(* or none.                                                                 *)
THEOREM CyclesKeepContract == Spec => KeepsContract
  BY InitContract, StepContract, BooksHold, PTL DEF Spec, KeepsContract, Contract!Spec
=============================================================================
