---------------------------- MODULE PagesProofs ----------------------------
(***************************************************************************)
(* Proofs about the pages, for any objects, any number of members and any  *)
(* number of loads: a page that is guarded shows rows of the object that   *)
(* is selected, one that is put together shows all of it, and none but     *)
(* those named there waits for what does not come.  The types do not       *)
(* suffice: which answers may still come, and what was gathered before     *)
(* them, decides.                                                          *)
(***************************************************************************)
EXTENDS Pages, FiniteSetTheorems, TLAPS

(* A row that Load could have asked for just now.                           *)
Current(r) ==
    r.of = shown /\ r.load = loads /\ r.selection = selection /\ r.part \in 1..parts

(* Pages without buttons change nothing.                                    *)
Asked == page \in AllPages /\ (page.acts = "nobody" => changing = {})

(* Answers guarded by the selection are its object's.                       *)
BySelection ==
    page.guard = "selection" =>
        \A f \in flight : f.selection <= selection /\ (f.selection = selection => f.of = shown)

(* Rows that are gathered, or covered by "Loading...", are already those of *)
(* the object that is shown.                                                *)
OwnRows == Guarded /\ shown # Elsewhere => \A r \in rows : Own(r)

(* What is put together is shown when it is whole; of a cluster, when there *)
(* are as many answers as members, each of another of them.                 *)
Gathered == page.fans = "all" /\ view = "rows" => Whole(rows)
Members ==
    page.fans = "all" /\ page.guard = "selection" =>
        /\ \A f \in flight : f.selection = selection => Current(f)
        /\ shown # Elsewhere => \A r \in rows : Current(r)

Rest == Asked /\ BySelection /\ OwnRows /\ Gathered /\ Members
IInv == TypeOK /\ Rest
-----------------------------------------------------------------------------
(* What the proofs need to know of the table of pages: no others of its     *)
(* entries than these combine.                                              *)
Known(p) ==
    /\ p \in Page
    /\ p.fans = "all" =>
        /\ p.guard \in {"object", "selection"} /\ p.clears = "load"
        /\ ~ p.asks /\ ~ p.caches /\ p.off = "taken" /\ p.without = "message"
    /\ p.guard = "selection" =>
        p.acts = "nobody" /\ p.selects /\ p.clears \in {"load", "covers"} /\ ~ p.first
    /\ p.guard = "object" /\ p.clears # "never" => p.selects
    /\ p.caches => p.guard = "selection"

(* So it is of every page of the table.                                     *)
LEMMA TableKnown == \A p \in AllPages : Known(p)
<1> USE DEF Known, Page, Guards, View, Changes, OfFirst
<1>1. /\ Known(fetch_host_network) /\ Known(fetch_host_services) /\ Known(fetch_host_disks)
      /\ Known(fetch_host_snapshots) /\ Known(fetch_host_health) /\ Known(fetch_host_metrics)
  BY DEF fetch_host_network, fetch_host_services, fetch_host_disks, fetch_host_snapshots,
         fetch_host_health, fetch_host_metrics
<1>2. /\ Known(_fetch_cluster_snapshots) /\ Known(_fetch_cluster_health)
      /\ Known(_fetch_cluster_status) /\ Known(fetch_ha) /\ Known(_fetch_backup_jobs)
  BY DEF _fetch_cluster_snapshots, _fetch_cluster_health, _fetch_cluster_status, fetch_ha,
         _fetch_backup_jobs
<1>3. /\ Known(_fetch_access_users) /\ Known(_fetch_access_groups) /\ Known(_fetch_access_roles)
      /\ Known(_fetch_access_acl) /\ Known(_fetch_access_tokens)
  BY DEF _fetch_access_users, _fetch_access_groups, _fetch_access_roles, _fetch_access_acl,
         _fetch_access_tokens
<1>4. /\ Known(load_storage_content) /\ Known(fetch_storage_backups_simple)
      /\ Known(fetch_storage_disks_simple) /\ Known(fetch_storage_metrics)
      /\ Known(_load_datastores) /\ Known(_load_snapshots) /\ Known(_load_jobs)
  BY DEF load_storage_content, fetch_storage_backups_simple, fetch_storage_disks_simple,
         fetch_storage_metrics, _load_datastores, _load_snapshots, _load_jobs
<1> HIDE DEF Known
<1> QED BY <1>1, <1>2, <1>3, <1>4 DEF AllPages
-----------------------------------------------------------------------------
(* What Load leaves: the answers it had, those it asked for, and a page at  *)
(* "Loading..." unless its rows are only cleared for another selection.     *)
LEMMA LoadFacts ==
    ASSUME TypeOK, page \in Page, NEW o, NEW left \in SUBSET flight, NEW sel \in 0..MaxLoads,
           Load(o, left, sel)
    PROVE  /\ o \in configured /\ kept' = o
           /\ loads' = loads + 1 /\ loads' \in 1..MaxLoads
           /\ parts' \in 1..MaxParts
           /\ \A f \in flight' : f \in left \/ (/\ f.of = o /\ f.load = loads'
                                             /\ f.selection = sel /\ f.part \in 1..parts')
           /\ flight' \subseteq Item
           /\ view' \in {view, "loading"} /\ rows' \in {rows, {}}
           /\ page.clears = "never" => view' = view
           /\ page.clears = "load" => view' = "loading" /\ rows' = {}
           /\ page.clears # "never" /\ sel # selection => view' = "loading" /\ rows' = {}
<1> USE BoundsAssumption
<1>1. o \in configured /\ kept' = o /\ loads' = loads + 1 /\ loads < MaxLoads
  BY DEF Load
<1>2. loads' \in 1..MaxLoads
  BY <1>1 DEF TypeOK
<1>3. /\ view' \in {view, "loading"} /\ rows' \in {rows, {}}
      /\ page.clears = "never" => view' = view
      /\ page.clears = "load" => view' = "loading" /\ rows' = {}
      /\ page.clears # "never" /\ sel # selection => view' = "loading" /\ rows' = {}
  BY DEF Load
<1>4. PICK n \in 1..MaxParts : parts' = n /\ flight' = left \cup Sent(o, sel, n)
  BY DEF Load
<1>5. ASSUME NEW f \in Sent(o, sel, n)
      PROVE  f.of = o /\ f.load = loads' /\ f.selection = sel /\ f.part \in 1..n /\ f \in Item
  <2>1. f \in [of : {o}, load : {loads + 1}, selection : {sel}, part : 1..n]
    BY <1>5 DEF Sent
  <2>2. o \in Objects
    BY <1>1 DEF TypeOK
  <2> QED BY <2>1, <2>2, <1>1, <1>2 DEF Item
<1>6. flight' \subseteq Item
  BY <1>4, <1>5 DEF TypeOK
<1> QED BY <1>1, <1>2, <1>3, <1>4, <1>5, <1>6

(* It is remembered when the first was loaded for another.                  *)
LEMMA LoadedInstead ==
    ASSUME NEW o, NEW left, NEW sel, Load(o, left, sel)
    PROVE  instead' \in BOOLEAN /\ (o # shown' /\ o = Source(shown') => instead')
BY DEF Load

(* What an answer leaves.                                                   *)
LEMMA AnswerFacts ==
    ASSUME TypeOK, NEW f \in flight, Answer(f)
    PROVE  /\ flight' = flight \ {f}
           /\ \/ ~ Accepts(f) /\ Refused
              \/ UNCHANGED <<view, rows>>
              \/ Accepts(f) /\ page.fans = "all" /\ ~ Whole(rows) /\ Gathers(f)
              \/ Accepts(f) /\ page.fans \in {"adds", "counts"} /\ Adds(f)
              \/ Accepts(f) /\ page.fans = "one" /\ Replaces(f)
              \/ page.fans # "all" /\ rows' = rows /\ view' \in {view, "message", "rows"}
BY DEF Answer, Fails, Uncovered

(* The types in a step.                                                     *)
LEMMA TypeStep == TypeOK /\ page \in AllPages /\ [Next]_vars => TypeOK'
<1> SUFFICES ASSUME TypeOK, page \in AllPages, [Next]_vars PROVE TypeOK'
  OBVIOUS
<1> USE BoundsAssumption
<1>0. page \in Page /\ (configured' = configured => Takings' = Takings)
  BY TableKnown DEF Known, Takings
<1>1. ASSUME NEW o, NEW left \in SUBSET flight, NEW sel \in 0..MaxLoads, Load(o, left, sel)
      PROVE  /\ view' \in {"message", "loading", "rows"} /\ rows' \subseteq Item
             /\ flight' \subseteq Item /\ parts' \in 1..MaxParts
             /\ kept' \in Objects \cup {Elsewhere} /\ instead' \in BOOLEAN
             /\ loads' \in 0..MaxLoads
  <2>0. instead' \in BOOLEAN
    BY <1>1, LoadedInstead
  <2>1. loads' \in 1..MaxLoads /\ o \in configured /\ kept' = o
    BY <1>0, <1>1, LoadFacts
  <2>2. parts' \in 1..MaxParts /\ flight' \subseteq Item
    BY <1>0, <1>1, LoadFacts
  <2>3. view' \in {view, "loading"} /\ rows' \in {rows, {}}
    BY <1>0, <1>1, LoadFacts
  <2> QED BY <2>0, <2>1, <2>2, <2>3 DEF TypeOK
<1>2. ASSUME NEW left \in SUBSET flight, NoLoad(left)
      PROVE  /\ flight' \subseteq Item /\ parts' \in 1..MaxParts
             /\ kept' \in Objects \cup {Elsewhere} /\ instead' \in BOOLEAN
             /\ loads' \in 0..MaxLoads
  BY <1>2 DEF NoLoad, TypeOK
<1>3. ASSUME NEW o, NEW left, Cached(o, left)
      PROVE  NoLoad(left) /\ view' = "rows" /\ rows' \subseteq Item
  BY <1>3 DEF Cached, TypeOK
<1>4. ASSUME NEW o \in Objects \cup {Elsewhere}, Select(o) PROVE TypeOK'
  <2>0. /\ UNCHANGED <<const, taken, cache>> /\ selection' \in 0..MaxLoads /\ shown' = o
        /\ changing' \subseteq Objects
    BY <1>4 DEF Select, TypeOK
  <2>1. PICK left \in SUBSET flight :
          \/ Load(Source(o), left, selection')
          \/ Cached(o, left)
          \/ /\ NoLoad(left) /\ rows' \in {rows, {}}
             /\ view' \in {view, page.without} /\ (view' # view => page.without # "stays")
    BY <1>4 DEF Select
  <2>2. page.without \in {"message", "loading", "stays"}
    BY <1>0 DEF Page
  <2>3. /\ view' \in {"message", "loading", "rows"} /\ rows' \subseteq Item
        /\ flight' \subseteq Item /\ parts' \in 1..MaxParts
        /\ kept' \in Objects \cup {Elsewhere} /\ instead' \in BOOLEAN
        /\ loads' \in 0..MaxLoads
    <3>1. CASE Load(Source(o), left, selection')
      <4> DEFINE sel == selection'
      <4>1. sel \in 0..MaxLoads /\ Load(Source(o), left, sel)
        BY <2>0, <3>1
      <4> HIDE DEF sel
      <4> QED BY <4>1, <1>1
    <3>2. CASE Cached(o, left)
      BY <3>2, <1>2, <1>3
    <3>3. CASE /\ NoLoad(left) /\ rows' \in {rows, {}}
               /\ view' \in {view, page.without} /\ (view' # view => page.without # "stays")
      BY <2>2, <3>3, <1>2 DEF TypeOK
    <3> QED BY <2>1, <3>1, <3>2, <3>3
  <2> QED BY <1>0, <2>0, <2>3 DEF TypeOK, const
<1>5. flight \in SUBSET flight /\ selection \in 0..MaxLoads
  BY DEF TypeOK
<1>6. CASE Ask
  <2>1. PICK o : Load(Source(o), flight, selection) \/ Cached(o, flight)
    BY <1>6 DEF Ask
  <2>2. UNCHANGED <<const, taken, cache, shown, selection, changing>>
    BY <1>6 DEF Ask
  <2>3. CASE Load(Source(o), flight, selection)
    BY <1>0, <1>1, <1>5, <2>2, <2>3 DEF TypeOK, const
  <2>4. CASE Cached(o, flight)
    BY <1>0, <1>2, <1>3, <1>5, <2>2, <2>4 DEF TypeOK, const
  <2> QED BY <2>1, <2>3, <2>4
<1>7. CASE set_lists
  <2>1. UNCHANGED <<const, shown, selection, changing>> /\ cache' = {} /\ taken' \in Takings
    BY <1>7 DEF set_lists, TypeOK
  <2>2. CASE NoLoad(flight) /\ UNCHANGED <<view, rows>>
    BY <1>0, <1>2, <1>5, <2>1, <2>2 DEF TypeOK, const
  <2>3. CASE Load(shown, flight, selection)
    BY <1>0, <1>1, <1>5, <2>1, <2>3 DEF TypeOK, const
  <2> QED BY <1>7, <2>2, <2>3 DEF set_lists
<1>8. ASSUME NEW f \in flight, Answer(f) PROVE TypeOK'
  <2>1. UNCHANGED <<const, taken, shown, selection, parts, kept, instead, loads, changing>>
    BY <1>8 DEF Answer
  <2>2. flight' \subseteq Item
    BY <1>8 DEF Answer, TypeOK
  <2>3. f \in Item /\ Without(f) \subseteq Item
    BY DEF TypeOK, Without
  <2>4. cache' \subseteq Item
    BY <1>8, <2>3 DEF Answer, TypeOK
  <2>5. rows' \subseteq Item /\ view' \in {"message", "loading", "rows"}
    BY <1>8, <2>3, AnswerFacts DEF TypeOK, Gathers, Adds, Replaces, Refused, Uncovered
  <2> QED BY <1>0, <2>1, <2>2, <2>4, <2>5 DEF TypeOK, const
<1>9. CASE Change
  <2>1. Target \in Objects
    BY <1>9 DEF Change, TypeOK
  <2> QED BY <1>0, <1>9, <2>1 DEF Change, TypeOK, const
<1>10. ASSUME NEW o \in changing, Changed(o) PROVE TypeOK'
  <2>1. UNCHANGED <<const, taken, cache, shown, selection>> /\ changing' \subseteq changing
    BY <1>10 DEF Changed
  <2>2. CASE NoLoad(flight) /\ UNCHANGED <<view, rows>>
    BY <1>0, <1>2, <1>5, <2>1, <2>2 DEF TypeOK, const
  <2>3. CASE Load(Reloaded(o), flight, selection)
    BY <1>0, <1>1, <1>5, <2>1, <2>3 DEF TypeOK, const
  <2> QED BY <1>10, <2>2, <2>3 DEF Changed
<1>11. CASE UNCHANGED vars
  BY <1>0, <1>11 DEF vars, const, TypeOK
<1> QED BY <1>4, <1>6, <1>7, <1>8, <1>9, <1>10, <1>11 DEF Next
-----------------------------------------------------------------------------
(* Another object is selected: none of the answers under way is of this     *)
(* selection yet but those just asked for.                                  *)
LEMMA SelectStep ==
    ASSUME IInv, NEW o \in Objects \cup {Elsewhere}, Select(o)
    PROVE  Rest'
<1>0. TypeOK /\ Asked /\ BySelection /\ Gathered /\ Known(page)
  BY TableKnown DEF IInv, Rest, Asked
<1>1. /\ page' = page /\ configured' = configured /\ taken' = taken /\ shown' = o
      /\ selection' = selection + 1 /\ selection \in Nat /\ selection' \in 0..MaxLoads
      /\ changing' \subseteq changing
  BY <1>0, BoundsAssumption DEF Select, TypeOK, const
<1>2. \A f \in flight : f \in Item /\ f.selection \in Nat
  BY <1>0, BoundsAssumption DEF TypeOK, Item
<1>3. page.guard = "selection" => \A f \in flight : f.selection < selection'
  BY <1>0, <1>1, <1>2 DEF BySelection
<1>4. Asked'
  BY <1>0, <1>1 DEF Asked
<1>5. PICK left \in SUBSET flight :
          \/ page.selects /\ (Load(Source(o), left, selection') \/ Cached(o, left))
          \/ /\ o = Elsewhere \/ ~ page.selects
             /\ NoLoad(left) /\ view' = view
             /\ rows' = IF page.clears = "covers" THEN {} ELSE rows
          \/ /\ o \in Objects \ configured /\ page.selects
             /\ NoLoad(left)
             /\ rows' = IF page.clears = "never" THEN rows ELSE {}
             /\ view' = IF page.without = "stays" THEN view ELSE page.without
  BY DEF Select
<1>6. CASE Load(Source(o), left, selection')
  <2> DEFINE sel == selection'
             src == Source(o)
  <2>0. src = Source(o) /\ page \in Page
    BY <1>0 DEF Known
  <2>1. sel \in 0..MaxLoads /\ Load(src, left, sel) /\ sel = selection' /\ sel # selection
    BY <1>1, <1>6
  <2> HIDE DEF sel, src
  <2>2. /\ \A f \in flight' : f \in left \/ (/\ f.of = src /\ f.load = loads'
                                          /\ f.selection = sel /\ f.part \in 1..parts')
        /\ page.clears # "never" => view' = "loading" /\ rows' = {}
    BY <1>0, <2>0, <2>1, LoadFacts
  <2>3. page.guard = "selection" => src = o
    BY <1>0, <2>0 DEF Known, Source
  <2>4. BySelection'
    BY <1>1, <1>2, <1>3, <2>1, <2>2, <2>3 DEF BySelection
  <2>5. OwnRows'
    BY <1>1, <2>2 DEF OwnRows, Guarded
  <2>6. Gathered'
    BY <1>0, <1>1, <2>2 DEF Gathered, Known
  <2>7. Members'
    BY <1>0, <1>1, <1>3, <2>1, <2>2, <2>3 DEF Members, Current, Known
  <2> QED BY <1>4, <2>4, <2>5, <2>6, <2>7 DEF Rest
<1>7. ASSUME NoLoad(left),
             Guarded /\ o # Elsewhere => \A r \in rows' : r.of = o \/ (page.caches /\ taken[r.of] = taken[o]),
             page.fans = "all" /\ view' = "rows" => view = "rows" /\ rows' = rows,
             page.fans = "all" /\ o # Elsewhere => rows' = {}
      PROVE  Rest'
  <2>1. flight' = left /\ UNCHANGED <<parts, kept, loads>>
    BY <1>7 DEF NoLoad
  <2>2. BySelection'
    BY <1>0, <1>1, <1>2, <1>3, <2>1 DEF BySelection
  <2>3. OwnRows'
    BY <1>1, <1>7 DEF OwnRows, Guarded, Own
  <2>4. Gathered'
    BY <1>0, <1>1, <1>7, <2>1 DEF Gathered, Whole
  <2>5. Members'
    BY <1>0, <1>1, <1>2, <1>3, <1>7, <2>1 DEF Members
  <2> QED BY <1>4, <2>2, <2>3, <2>4, <2>5 DEF Rest
<1>8. CASE Cached(o, left)
  BY <1>0, <1>7, <1>8 DEF Cached, Known
<1>9. CASE /\ o = Elsewhere \/ ~ page.selects
           /\ NoLoad(left) /\ view' = view
           /\ rows' = IF page.clears = "covers" THEN {} ELSE rows
  <2>1. (page.fans = "all" \/ Guarded) => page.selects
    BY <1>0 DEF Known, Guarded
  <2>2. page.fans = "all" => rows' = rows
    BY <1>0, <1>9 DEF Known
  <2> QED BY <1>7, <1>9, <2>1, <2>2
<1>10. CASE /\ o \in Objects \ configured /\ page.selects
            /\ NoLoad(left)
            /\ rows' = IF page.clears = "never" THEN rows ELSE {}
            /\ view' = IF page.without = "stays" THEN view ELSE page.without
  BY <1>0, <1>7, <1>10 DEF Known, Guarded
<1> QED BY <1>5, <1>6, <1>8, <1>9, <1>10

(* The page is loaded again without another selection: for the object that *)
(* is shown, where the rows of it are told apart by that.                   *)
LEMMA ReloadStep ==
    ASSUME IInv, NEW o, Load(o, flight, selection), UNCHANGED <<const, shown, selection>>,
           changing' \subseteq changing, page.caches => taken' = taken,
           page.guard = "selection" => o = shown /\ page.fans # "all"
    PROVE  Rest'
<1>0. TypeOK /\ Asked /\ BySelection /\ OwnRows /\ Gathered /\ Known(page)
  BY TableKnown DEF IInv, Rest, Asked
<1>1. page' = page /\ shown' = shown /\ selection' = selection
  BY DEF const
<1>2. /\ \A f \in flight' : f \in flight \/ (f.of = o /\ f.selection = selection)
      /\ rows' \in {rows, {}} /\ (page.clears = "load" => view' = "loading")
  <2>1. flight \in SUBSET flight /\ selection \in 0..MaxLoads
    BY <1>0 DEF TypeOK
  <2>2. /\ \A f \in flight' : f \in flight \/ (/\ f.of = o /\ f.load = loads'
                                            /\ f.selection = selection /\ f.part \in 1..parts')
        /\ rows' \in {rows, {}} /\ (page.clears = "load" => view' = "loading")
    BY <1>0, <2>1, LoadFacts DEF Known
  <2> QED BY <2>2
<1>3. selection \in Nat
  BY <1>0, BoundsAssumption DEF TypeOK
<1>4. Asked'
  BY <1>0, <1>1 DEF Asked
<1>5. BySelection'
  BY <1>0, <1>1, <1>2, <1>3 DEF BySelection
<1>6. OwnRows'
  BY <1>0, <1>1, <1>2 DEF OwnRows, Guarded, Own
<1>7. Gathered'
  BY <1>0, <1>1, <1>2 DEF Gathered, Known
<1>8. Members'
  BY <1>1 DEF Members
<1> QED BY <1>4, <1>5, <1>6, <1>7, <1>8 DEF Rest

(* Nothing is loaded and the page is as it was.                             *)
LEMMA StillRest ==
    ASSUME IInv, changing' \subseteq changing \/ page.acts # "nobody",
           UNCHANGED <<page, shown, selection, view, rows, parts, loads, flight>>,
           page.caches => taken' = taken
    PROVE  Rest'
<1>1. Asked' /\ BySelection'
  BY DEF IInv, Rest, Asked, BySelection
<1>2. OwnRows'
  BY DEF IInv, Rest, OwnRows, Guarded, Own
<1>3. Gathered'
  BY DEF IInv, Rest, Gathered, Whole
<1>4. Members'
  BY DEF IInv, Rest, Members, Current
<1> QED BY <1>1, <1>2, <1>3, <1>4 DEF Rest

(* The page is asked for again, or found in the cache.                      *)
LEMMA AskStep == ASSUME IInv, Ask PROVE Rest'
<1>1. PICK o : /\ page.guard = "load" \/ o = shown
               /\ Load(Source(o), flight, selection) \/ Cached(o, flight)
  BY DEF Ask
<1>2. page.asks /\ UNCHANGED <<const, taken, cache, shown, selection, changing>>
  BY DEF Ask
<1>3. Known(page)
  BY TableKnown DEF IInv, Rest, Asked
<1>4. CASE Load(Source(o), flight, selection)
  <2>1. page.guard = "selection" => Source(o) = shown /\ page.fans # "all"
    BY <1>1, <1>2, <1>3 DEF Known, Source
  <2> QED BY <1>2, <1>4, <2>1, ReloadStep
<1>5. CASE Cached(o, flight)
  <2>1. /\ page' = page /\ shown' = shown /\ selection' = selection /\ taken' = taken
        /\ changing' = changing /\ flight' = flight
    BY <1>2, <1>5 DEF Cached, NoLoad, const
  <2>2. /\ o = shown /\ page.caches /\ page.fans # "all"
        /\ \A r \in rows' : taken[r.of] = taken[o]
    BY <1>1, <1>3, <1>5 DEF Cached, Known
  <2>3. Asked' /\ BySelection'
    BY <2>1 DEF IInv, Rest, Asked, BySelection
  <2>4. OwnRows' /\ Gathered' /\ Members'
    BY <2>1, <2>2 DEF OwnRows, Guarded, Own, Gathered, Members
  <2> QED BY <2>3, <2>4 DEF Rest
<1> QED BY <1>1, <1>4, <1>5

(* The lists are replaced.                                                  *)
LEMMA ListsStep == ASSUME IInv, set_lists PROVE Rest'
<1>1. Known(page)
  BY TableKnown DEF IInv, Rest, Asked
<1>2. /\ UNCHANGED <<const, shown, selection, changing>>
      /\ page.caches => taken' = taken
  BY <1>1 DEF set_lists, Known
<1>3. CASE NoLoad(flight) /\ UNCHANGED <<view, rows>>
  BY <1>2, <1>3, StillRest DEF NoLoad, const
<1>4. CASE page.caches /\ Load(shown, flight, selection)
  BY <1>1, <1>2, <1>4, ReloadStep DEF Known
<1> QED BY <1>3, <1>4 DEF set_lists

(* An answer is taken only of the object that is shown, or of the last      *)
(* selection, whose answers are that object's.                              *)
LEMMA AnswerStep == ASSUME IInv, NEW f \in flight, Answer(f) PROVE Rest'
<1>0. /\ TypeOK /\ Asked /\ BySelection /\ OwnRows /\ Gathered /\ Members
      /\ Known(page)
  BY TableKnown DEF IInv, Rest, Asked
<1>1. /\ page' = page /\ taken' = taken /\ shown' = shown /\ selection' = selection
      /\ parts' = parts /\ loads' = loads /\ changing' = changing
  BY DEF Answer, const
<1>2. flight' = flight \ {f}
  BY DEF Answer
<1>3. Asked' /\ BySelection'
  BY <1>0, <1>1, <1>2 DEF Asked, BySelection
<1>4. \/ ~ Accepts(f) /\ Refused
      \/ UNCHANGED <<view, rows>>
      \/ Accepts(f) /\ page.fans = "all" /\ ~ Whole(rows) /\ Gathers(f)
      \/ Accepts(f) /\ page.fans \in {"adds", "counts"} /\ Adds(f)
      \/ Accepts(f) /\ page.fans = "one" /\ Replaces(f)
      \/ page.fans # "all" /\ rows' = rows /\ view' \in {view, "message", "rows"}
  BY <1>0, AnswerFacts
<1>5. ASSUME rows' = rows, page.fans = "all" => view' = view
      PROVE  Rest'
  <2>1. OwnRows'
    BY <1>0, <1>1, <1>5 DEF OwnRows, Guarded, Own
  <2>2. Gathered'
    BY <1>0, <1>1, <1>5 DEF Gathered, Whole
  <2>3. Members'
    BY <1>0, <1>1, <1>2, <1>5 DEF Members, Current
  <2> QED BY <1>3, <2>1, <2>2, <2>3 DEF Rest
<1>6. ASSUME Accepts(f), rows' \subseteq rows \cup {f},
             page.fans = "all" => view # "rows" /\ (view' = "rows" => Whole(rows'))
      PROVE  Rest'
  <2>1. page.guard = "selection" => f.of = shown /\ f.selection = selection
    BY <1>0, <1>6 DEF Accepts, BySelection
  <2>2. page.guard = "object" => f.of = shown
    BY <1>6 DEF Accepts
  <2>3. OwnRows'
    BY <1>0, <1>1, <1>6, <2>1, <2>2 DEF OwnRows, Guarded, Own
  <2>4. Gathered'
    BY <1>0, <1>1, <1>6 DEF Gathered, Whole
  <2>5. Members'
    BY <1>0, <1>1, <1>2, <1>6, <2>1 DEF Members, Current
  <2> QED BY <1>3, <2>3, <2>4, <2>5 DEF Rest
<1>7. CASE Accepts(f) /\ page.fans = "all" /\ ~ Whole(rows) /\ Gathers(f)
  <2>1. view # "rows" /\ rows' \subseteq rows \cup {f}
    BY <1>0, <1>7 DEF Gathered, Gathers, Without
  <2>2. view' = "rows" => Whole(rows')
    BY <1>7, <2>1 DEF Gathers
  <2> QED BY <1>6, <1>7, <2>1, <2>2
<1>8. CASE Accepts(f) /\ page.fans \in {"adds", "counts"} /\ Adds(f)
  BY <1>6, <1>8 DEF Adds
<1>9. CASE Accepts(f) /\ page.fans = "one" /\ Replaces(f)
  BY <1>6, <1>9 DEF Replaces
<1>10. CASE ~ Accepts(f) /\ Refused
  BY <1>0, <1>5, <1>10 DEF Refused, Known
<1> QED BY <1>4, <1>5, <1>7, <1>8, <1>9, <1>10

(* A change is sent: the page is as it was.                                 *)
LEMMA ChangeStep == ASSUME IInv, Change PROVE Rest'
BY StillRest DEF Change, const

(* A change has succeeded or failed: the pages guarded by the selection     *)
(* have none.                                                               *)
LEMMA ChangedStep == ASSUME IInv, NEW o \in changing, Changed(o) PROVE Rest'
<1>0. Asked /\ Known(page)
  BY TableKnown DEF IInv, Rest, Asked
<1>1. UNCHANGED <<const, taken, shown, selection>> /\ changing' \subseteq changing
  BY DEF Changed
<1>2. CASE NoLoad(flight) /\ UNCHANGED <<view, rows>>
  BY <1>1, <1>2, StillRest DEF NoLoad, const
<1>3. CASE Load(Reloaded(o), flight, selection)
  <2>1. page.guard # "selection"
    BY <1>0 DEF Asked, Known
  <2> QED BY <1>1, <1>3, <2>1, ReloadStep
<1> QED BY <1>2, <1>3 DEF Changed
-----------------------------------------------------------------------------
(* At the start nothing is shown.                                           *)
LEMMA InitIInv == Init => IInv
<1> SUFFICES ASSUME Init PROVE IInv
  OBVIOUS
<1>1. TypeOK
  <2>1. Known(page)
    BY TableKnown DEF Init
  <2>2. instead \in BOOLEAN
    BY DEF Init
  <2> QED BY <2>1, <2>2, BoundsAssumption DEF Init, TypeOK, Known
<1>2. Rest
  BY DEF Init, Rest, Asked, BySelection, OwnRows, Gathered, Members
<1> QED BY <1>1, <1>2 DEF IInv

(* Every step keeps it.                                                     *)
LEMMA NextIInv == IInv /\ [Next]_vars => IInv'
<1> SUFFICES ASSUME IInv, [Next]_vars PROVE IInv'
  OBVIOUS
<1>1. TypeOK'
  BY TypeStep DEF IInv, Rest, Asked
<1>2. CASE Next
  <2>1. Rest'
    BY <1>2, SelectStep, AskStep, ListsStep, AnswerStep, ChangeStep, ChangedStep DEF Next
  <2> QED BY <1>1, <2>1 DEF IInv
<1>3. CASE UNCHANGED vars
  BY <1>1, <1>3, StillRest DEF vars, const, IInv
<1> QED BY <1>2, <1>3

(* As many answers as members, each of another one of them, are all.        *)
LEMMA CountedWhole ==
    ASSUME TypeOK, Cardinality(rows) >= parts, \A r \in rows : Current(r)
    PROVE  \A p \in 1..parts : \E r \in rows : r.part = p
<1> SUFFICES ASSUME NEW p \in 1..parts, \A r \in rows : r.part # p PROVE FALSE
  OBVIOUS
<1> DEFINE others == (1..parts) \ {p}
           part == [r \in rows |-> r.part]
<1>1. parts \in Nat
  BY BoundsAssumption DEF TypeOK
<1>2. IsFiniteSet(1..parts) /\ Cardinality(1..parts) = parts
  <2>1. 1 \in Int /\ parts \in Int
    BY <1>1
  <2>2. /\ IsFiniteSet(1..parts)
        /\ Cardinality(1..parts) = IF 1 > parts THEN 0 ELSE parts - 1 + 1
    BY <2>1, FS_Interval
  <2> QED BY <1>1, <2>2
<1>3. IsFiniteSet(others) /\ Cardinality(others) = parts - 1
  BY <1>2, FS_RemoveElement
<1>4. part \in [rows -> others]
  BY DEF Current
<1>5. ASSUME NEW r \in rows, NEW s \in rows, r.part = s.part PROVE r = s
  <2>1. r \in Item /\ s \in Item /\ r.of = s.of /\ r.load = s.load /\ r.selection = s.selection
    BY DEF TypeOK, Current
  <2> QED BY <1>5, <2>1 DEF Item
<1>6. part \in Injection(rows, others)
  BY <1>4, <1>5 DEF Injection, IsInjective
<1>7. IsFiniteSet(rows) /\ Cardinality(rows) <= Cardinality(others)
  BY <1>3, <1>6, FS_Injection
<1>8. Cardinality(rows) \in Nat
  BY <1>7, FS_CardinalityType
<1> QED BY <1>1, <1>3, <1>7, <1>8

(* What is put together and shown is the whole of the object shown.         *)
LEMMA WholeImplied == IInv => WholePage
<1> SUFFICES ASSUME IInv, page.fans = "all", shown # Elsewhere, view = "rows"
             PROVE  \A p \in 1..parts : \E r \in rows : r.part = p /\ r.of = shown
  BY DEF WholePage
<1>1. Known(page) /\ Whole(rows)
  BY TableKnown DEF IInv, Rest, Asked, Gathered
<1>2. \A r \in rows : r.of = shown
  BY <1>1 DEF IInv, Rest, OwnRows, Guarded, Own, Known
<1>3. CASE page.guard = "object"
  BY <1>1, <1>2, <1>3 DEF Whole
<1>4. CASE page.guard = "selection"
  <2>1. Cardinality(rows) >= parts /\ \A r \in rows : Current(r)
    BY <1>1, <1>4 DEF Whole, IInv, Rest, Members
  <2> QED BY <1>2, <2>1, CountedWhole DEF IInv
<1> QED BY <1>1, <1>3, <1>4 DEF Known

(* The invariant holds.                                                     *)
LEMMA Invariant == Spec => []IInv
BY InitIInv, NextIInv, PTL DEF Spec

(* Every state of a page has its type.                                      *)
THEOREM TypeCorrect == Spec => []TypeOK
<1>1. IInv => TypeOK
  BY DEF IInv
<1> QED BY <1>1, Invariant, PTL

(* A guarded page never shows rows of another object, however late answers  *)
(* come, but for the cached curves of a host of the same node name.         *)
THEOREM OwnPageAlways == Spec => []OwnPage
<1>1. IInv => OwnPage
  BY DEF IInv, Rest, OwnRows, OwnPage
<1> QED BY <1>1, Invariant, PTL

(* A page that is put together from several answers never shows a part.     *)
THEOREM WholePageAlways == Spec => []WholePage
BY WholeImplied, Invariant, PTL
-----------------------------------------------------------------------------
(* Why no page stays at "Loading...": what the table says of those that are *)
(* loaded when an object is selected, and of those with buttons.            *)
Prompt(p) ==
    /\ p.selects => /\ p.guard # "load" /\ p.fans # "counts"
                    /\ p.fails = "stays" => p.clears = "never"
    /\ p.clears = "never" => p.without # "loading" /\ p.fans = "one"
    /\ p.first => p.guard = "object"
    /\ p.again = "captured" /\ p.guard = "object" =>
        p.clears = "select" /\ p.fans = "one" /\ ~ p.first
    /\ p.again = "kept" => p.first
    /\ p.again = "never" => p.acts = "nobody"

(* So it is of every page of the table.                                     *)
LEMMA TablePrompt == \A p \in AllPages : Prompt(p)
<1> USE DEF Prompt, View, Changes, OfFirst
<1>1. /\ Prompt(fetch_host_network) /\ Prompt(fetch_host_services) /\ Prompt(fetch_host_disks)
      /\ Prompt(fetch_host_snapshots) /\ Prompt(fetch_host_health) /\ Prompt(fetch_host_metrics)
  BY DEF fetch_host_network, fetch_host_services, fetch_host_disks, fetch_host_snapshots,
         fetch_host_health, fetch_host_metrics
<1>2. /\ Prompt(_fetch_cluster_snapshots) /\ Prompt(_fetch_cluster_health)
      /\ Prompt(_fetch_cluster_status) /\ Prompt(fetch_ha) /\ Prompt(_fetch_backup_jobs)
  BY DEF _fetch_cluster_snapshots, _fetch_cluster_health, _fetch_cluster_status, fetch_ha,
         _fetch_backup_jobs
<1>3. /\ Prompt(_fetch_access_users) /\ Prompt(_fetch_access_groups)
      /\ Prompt(_fetch_access_roles) /\ Prompt(_fetch_access_acl) /\ Prompt(_fetch_access_tokens)
  BY DEF _fetch_access_users, _fetch_access_groups, _fetch_access_roles, _fetch_access_acl,
         _fetch_access_tokens
<1>4. /\ Prompt(load_storage_content) /\ Prompt(fetch_storage_backups_simple)
      /\ Prompt(fetch_storage_disks_simple) /\ Prompt(fetch_storage_metrics)
      /\ Prompt(_load_datastores) /\ Prompt(_load_snapshots) /\ Prompt(_load_jobs)
  BY DEF load_storage_content, fetch_storage_backups_simple, fetch_storage_disks_simple,
         fetch_storage_metrics, _load_datastores, _load_snapshots, _load_jobs
<1> HIDE DEF Prompt
<1> QED BY <1>1, <1>2, <1>3, <1>4 DEF AllPages

(* The pages that are never cleared never say "Loading...".                 *)
Idle == page.clears = "never" => view # "loading"
FInv == Idle /\ LoadingIsAwaited

(* Load asks for every part, and leaves the answers it was given.           *)
LEMMA LoadSends ==
    ASSUME TypeOK, NEW o, NEW left \in SUBSET flight, NEW sel, Load(o, left, sel)
    PROVE  /\ left \subseteq flight' /\ parts' \in 1..MaxParts
           /\ \A p \in 1..parts' : \E f \in flight' : f.of = o /\ f.selection = sel /\ f.part = p
<1>1. PICK n \in 1..MaxParts : parts' = n /\ flight' = left \cup Sent(o, sel, n)
  BY BoundsAssumption DEF Load
<1>2. ASSUME NEW p \in 1..n
      PROVE  \E f \in flight' : f.of = o /\ f.selection = sel /\ f.part = p
  <2> DEFINE f == [of |-> o, load |-> loads + 1, selection |-> sel, part |-> p]
  <2>1. f \in Sent(o, sel, n)
    BY <1>2 DEF Sent
  <2>2. f.of = o /\ f.selection = sel /\ f.part = p
    OBVIOUS
  <2> HIDE DEF f
  <2> QED BY <1>1, <2>1, <2>2
<1>3. parts' \in 1..MaxParts /\ 1..parts' = 1..n
  BY <1>1
<1> QED BY <1>1, <1>2, <1>3

(* A load for the object that is shown, for any that has the page's guard   *)
(* let it in, or for the first in its place, which Misses tells of.         *)
LEMMA LoadAwaited ==
    ASSUME IInv, FInv, NEW o, NEW left \in SUBSET flight, NEW sel \in 0..MaxLoads,
           Load(o, left, sel), page' = page, selection' = sel,
           \/ o = Source(shown') \/ page.guard \in {"pane", "any"}
           \/ page.first /\ page.again = "kept"
    PROVE  FInv'
<1>0. TypeOK /\ Prompt(page) /\ Known(page)
  BY TableKnown, TablePrompt DEF IInv, Rest, Asked
<1>1. /\ page.clears = "load" => rows' = {}
      /\ page.clears = "never" => view' = view
      /\ kept' = o
  BY <1>0, LoadFacts DEF Known
<1>2. /\ parts' \in 1..MaxParts
      /\ \A p \in 1..parts' : \E f \in flight' : f.of = o /\ f.selection = sel /\ f.part = p
  BY <1>0, LoadSends
<1>3. 1 \in 1..parts' /\ parts' \in Nat
  BY <1>2, BoundsAssumption
<1>4. Idle'
  BY <1>1 DEF FInv, Idle
<1>5. LoadingIsAwaited'
  <2> SUFFICES ASSUME Waits'
               PROVE  IF page.fans = "all"
                      THEN /\ ~ Whole(rows)'
                           /\ \A p \in 1..parts' : \E f \in flight' : Accepts(f)' /\ f.part = p
                      ELSE \E f \in flight' : Ends(f)'
    BY DEF LoadingIsAwaited
  <2>1. page.guard \in {"object", "selection", "pane", "any"} /\ shown' # Elsewhere
    BY <1>0 DEF Prompt, Known, Page, Guards, Waits
  <2>2. page.off = "all" \/ o = shown' \/ page.guard \in {"pane", "any"}
    BY <1>1, LoadedInstead DEF Waits, Misses, Source
  <2>3. ASSUME NEW f \in flight', f.of = o, f.selection = sel
        PROVE  Accepts(f)' \/ page.off = "all"
    BY <2>1, <2>2, <2>3 DEF Accepts
  <2>4. CASE page.fans # "all"
    <3>1. PICK f \in flight' : f.of = o /\ f.selection = sel
      BY <1>2, <1>3
    <3>2. Ends(f)'
      BY <2>3, <3>1 DEF Ends
    <3> QED BY <2>4, <3>2
  <2>5. CASE page.fans = "all"
    <3>1. rows' = {} /\ page.off = "taken"
      BY <1>0, <1>1, <2>5 DEF Known
    <3>2. Cardinality(rows') = 0 /\ ~ (1..parts' \subseteq {r.part : r \in rows'})
      BY <1>3, <3>1, FS_EmptySet
    <3>3. ~ Whole(rows)'
      BY <1>3, <3>2 DEF Whole
    <3>4. \A p \in 1..parts' : \E f \in flight' : Accepts(f)' /\ f.part = p
      BY <1>2, <2>3, <3>1
    <3> QED BY <2>5, <3>3, <3>4
  <2> QED BY <2>4, <2>5
<1> QED BY <1>4, <1>5 DEF FInv

(* What is awaited stays so while neither it nor the page changes.          *)
LEMMA StillAwaited ==
    ASSUME IInv, FInv, flight \subseteq flight',
           UNCHANGED <<const, shown, selection, view, rows>>,
           page.fans = "all" => parts' = parts, page.first => kept' = kept /\ instead' = instead
    PROVE  FInv'
<1>1. page' = page /\ Prompt(page) /\ (Waits' <=> Waits)
  BY TablePrompt DEF IInv, Rest, Asked, const, Waits, Misses, Silent
<1>2. Idle'
  BY <1>1 DEF FInv, Idle
<1>3. Waits => \A f \in flight : Accepts(f) => Accepts(f)'
  <2>1. page.guard \in Guards
    BY TableKnown DEF IInv, Rest, Asked, Known, Page
  <2>2. Waits => page.guard # "load"
    BY <1>1 DEF Waits, Prompt
  <2> QED BY <1>1, <2>1, <2>2 DEF Accepts, Guards
<1>4. LoadingIsAwaited'
  <2>1. CASE page.fans = "all"
    <3>1. Whole(rows)' <=> Whole(rows)
      BY <1>1, <2>1 DEF Whole
    <3> QED BY <1>1, <1>3, <2>1, <3>1 DEF FInv, LoadingIsAwaited
  <2>2. CASE page.fans # "all"
    BY <1>1, <1>3, <2>2 DEF FInv, LoadingIsAwaited, Ends
  <2> QED BY <2>1, <2>2
<1> QED BY <1>2, <1>4 DEF FInv

(* A page that does not say "Loading..." waits for nothing.                 *)
LEMMA NothingAwaited ==
    ASSUME page' = page, ~ Waits', page.clears = "never" => view' # "loading"
    PROVE  FInv'
BY DEF FInv, Idle, LoadingIsAwaited

(* Another object is selected.                                              *)
LEMMA SelectAwaited ==
    ASSUME IInv, FInv, NEW o \in Objects \cup {Elsewhere}, Select(o)
    PROVE  FInv'
<1>0. TypeOK /\ Prompt(page) /\ Known(page)
  BY TableKnown, TablePrompt DEF IInv, Rest, Asked
<1>1. /\ page' = page /\ configured' = configured /\ shown' = o
      /\ selection' = selection + 1 /\ selection' \in 0..MaxLoads
  BY <1>0, BoundsAssumption DEF Select, TypeOK, const
<1>2. PICK left \in SUBSET flight :
        \/ Load(Source(o), left, selection')
        \/ view' = "rows"
        \/ (o = Elsewhere \/ ~ page.selects) /\ view' = view
        \/ /\ o \in Objects \ configured
           /\ view' = IF page.without = "stays" THEN view ELSE page.without
  BY DEF Select, Cached
<1>3. CASE Load(Source(o), left, selection')
  <2> DEFINE sel == selection'
  <2>1. sel \in 0..MaxLoads /\ Load(Source(o), left, sel) /\ selection' = sel
    BY <1>1, <1>3
  <2> HIDE DEF sel
  <2> QED BY <1>1, <2>1, LoadAwaited
<1>4. CASE view' = "rows"
  BY <1>1, <1>4, NothingAwaited DEF Waits
<1>5. CASE (o = Elsewhere \/ ~ page.selects) /\ view' = view
  <2>1. ~ Waits'
    BY <1>1, <1>5 DEF Waits
  <2>2. page.clears = "never" => view' # "loading"
    BY <1>5 DEF FInv, Idle
  <2> QED BY <1>1, <2>1, <2>2, NothingAwaited
<1>6. CASE /\ o \in Objects \ configured
           /\ view' = IF page.without = "stays" THEN view ELSE page.without
  <2>1. ~ Waits'
    BY <1>1, <1>6 DEF Waits, Silent
  <2>2. page.clears = "never" => view' # "loading"
    BY <1>0, <1>6 DEF FInv, Idle, Prompt
  <2> QED BY <1>1, <2>1, <2>2, NothingAwaited
<1> QED BY <1>2, <1>3, <1>4, <1>5, <1>6

(* The page is asked for again, or found in the cache.                      *)
LEMMA AskAwaited == ASSUME IInv, FInv, Ask PROVE FInv'
<1>0. TypeOK /\ Prompt(page)
  BY TablePrompt DEF IInv, Rest, Asked
<1>1. PICK o : /\ page.guard = "load" \/ o = shown
               /\ Load(Source(o), flight, selection) \/ Cached(o, flight)
  BY DEF Ask
<1>2. /\ page' = page /\ shown' = shown /\ selection' = selection
      /\ flight \in SUBSET flight /\ selection \in 0..MaxLoads
  BY <1>0 DEF Ask, const, TypeOK
<1>3. CASE Cached(o, flight)
  BY <1>2, <1>3, NothingAwaited DEF Cached, Waits
<1>4. CASE o = shown /\ Load(Source(o), flight, selection)
  BY <1>2, <1>4, LoadAwaited
<1>5. CASE page.guard = "load" /\ Load(Source(o), flight, selection)
  <2>1. ~ Waits'
    BY <1>0, <1>2, <1>5 DEF Waits, Prompt
  <2>2. page.clears = "never" => view' = view
    BY <1>5 DEF Load
  <2> QED BY <1>2, <2>1, <2>2, NothingAwaited DEF FInv, Idle
<1> QED BY <1>1, <1>3, <1>4, <1>5

(* The lists are replaced: nothing that is awaited is dropped.              *)
LEMMA ListsAwaited == ASSUME IInv, FInv, set_lists PROVE FInv'
<1>1. /\ UNCHANGED <<const, shown, selection>> /\ page' = page
      /\ flight \in SUBSET flight /\ selection \in 0..MaxLoads
  BY DEF set_lists, const, IInv, TypeOK
<1>2. CASE NoLoad(flight) /\ UNCHANGED <<view, rows>>
  BY <1>1, <1>2, StillAwaited DEF NoLoad
<1>3. CASE page.caches /\ Load(shown, flight, selection)
  <2>1. ~ page.first
    BY <1>3, TableKnown DEF IInv, Rest, Asked, Known
  <2>2. Source(shown') = shown
    BY <1>1, <2>1 DEF Source
  <2> QED BY <1>1, <1>3, <2>2, LoadAwaited
<1> QED BY <1>2, <1>3 DEF set_lists

(* A change has come back: what it loads again is taken by the page, or     *)
(* what the page waits for is left alone.                                   *)
LEMMA ChangedAwaited ==
    ASSUME IInv, FInv, NEW o \in changing, Changed(o)
    PROVE  FInv'
<1>0. TypeOK /\ Asked /\ Prompt(page) /\ Known(page)
  BY TableKnown, TablePrompt DEF IInv, Rest, Asked
<1>1. /\ UNCHANGED <<const, shown, selection>> /\ page' = page
      /\ flight \in SUBSET flight /\ selection \in 0..MaxLoads /\ page.acts # "nobody"
  BY <1>0 DEF Changed, const, TypeOK, Asked
<1>2. CASE NoLoad(flight) /\ UNCHANGED <<view, rows>>
  BY <1>1, <1>2, StillAwaited DEF NoLoad
<1>3. CASE Load(Reloaded(o), flight, selection)
  <2>1. CASE \/ Reloaded(o) = Source(shown) \/ page.guard \in {"pane", "any"}
             \/ page.first /\ page.again = "kept"
    BY <1>1, <1>3, <2>1, LoadAwaited
  <2>2. CASE page.guard = "object" /\ page.again = "captured"
    <3>1. page.clears = "select" /\ page.fans = "one" /\ ~ page.first
      BY <1>0, <2>2 DEF Prompt
    <3>2. UNCHANGED <<view, rows>> /\ flight \subseteq flight'
      BY <1>0, <1>1, <1>3, <3>1, LoadSends DEF Load
    <3> QED BY <1>1, <3>1, <3>2, StillAwaited
  <2>3. CASE page.guard = "load"
    <3>1. ~ Waits'
      BY <1>0, <1>1, <2>3 DEF Waits, Prompt
    <3>2. page.clears = "never" => view' = view
      BY <1>3 DEF Load
    <3> QED BY <1>1, <3>1, <3>2, NothingAwaited DEF FInv, Idle
  <2>4. page.again \in {"shown", "kept", "captured", "never"} /\ page.guard \in Guards
    BY <1>0 DEF Known, Page
  <2>5. page.guard # "selection" /\ page.again # "never"
    BY <1>0, <1>1 DEF Known, Prompt
  <2>6. page.again = "shown" => Reloaded(o) = Source(shown)
    BY DEF Reloaded
  <2>7. page.again = "kept" => page.first
    BY <1>0 DEF Prompt
  <2> QED BY <2>1, <2>2, <2>3, <2>4, <2>5, <2>6, <2>7 DEF Guards
<1> QED BY <1>2, <1>3 DEF Changed

(* An answer that is taken ends the loading, or is one of the parts; one    *)
(* that is not leaves what is awaited, or ends it all the same.             *)
LEMMA AnswerAwaited ==
    ASSUME IInv, FInv, NEW f \in flight, Answer(f)
    PROVE  FInv'
<1>0. TypeOK /\ Prompt(page) /\ Known(page)
  BY TableKnown, TablePrompt DEF IInv, Rest, Asked
<1>1. /\ page' = page /\ configured' = configured /\ shown' = shown /\ selection' = selection
      /\ parts' = parts /\ kept' = kept /\ instead' = instead /\ loads' = loads
      /\ flight' = flight \ {f}
  BY DEF Answer, const
<1>2. \A g : Accepts(g)' <=> Accepts(g)
  BY <1>1 DEF Accepts
<1>3. view' = "loading" => view = "loading"
  BY DEF Answer, Gathers, Adds, Replaces, Fails, Refused, Uncovered
<1>4. Idle'
  BY <1>1, <1>3 DEF FInv, Idle
<1>5. LoadingIsAwaited'
  <2> SUFFICES ASSUME Waits' PROVE LoadingIsAwaited'
    BY DEF LoadingIsAwaited
  <2>1. Waits /\ page.clears # "never" /\ view' = "loading"
    BY <1>1, <1>3 DEF Waits, Misses, Silent, FInv, Idle
  <2>2. page.selects /\ page.fans # "counts" /\ page.fails # "stays"
    BY <1>0, <2>1 DEF Prompt, Waits
  <2>3. CASE page.fans # "all"
    <3>1. ~ Accepts(f)
      BY <2>1, <2>2, <2>3 DEF Answer, Adds, Replaces, Fails, Uncovered
    <3>2. page.off # "all"
      BY <2>1, <3>1 DEF Answer, Refused, Uncovered
    <3>3. PICK g \in flight : Accepts(g)
      BY <2>1, <2>3, <3>2 DEF FInv, LoadingIsAwaited, Ends
    <3>4. g \in flight' /\ Accepts(g)'
      BY <1>1, <1>2, <3>1, <3>3
    <3> QED BY <1>1, <2>3, <3>4 DEF LoadingIsAwaited, Ends
  <2>4. CASE page.fans = "all"
    <3>1. /\ ~ Whole(rows)
          /\ \A p \in 1..parts : \/ \E r \in rows : r.part = p
                                 \/ \E g \in flight : Accepts(g) /\ g.part = p
      BY <2>1, <2>4 DEF FInv, LoadingIsAwaited
    <3>2. CASE ~ Accepts(f)
      <4>1. rows' = rows
        BY <3>2 DEF Answer, Refused
      <4>2. ~ Whole(rows)'
        BY <1>1, <3>1, <4>1 DEF Whole
      <4> QED BY <1>1, <1>2, <2>4, <3>1, <3>2, <4>1, <4>2 DEF LoadingIsAwaited
    <3>3. CASE Accepts(f)
      <4>1. Gathers(f)
        BY <2>4, <3>1, <3>3 DEF Answer
      <4>2. rows' = Without(f) \cup {f} /\ ~ Whole(rows')
        BY <2>1, <4>1 DEF Gathers
      <4>3. ~ Whole(rows)'
        BY <1>1, <4>2 DEF Whole
      <4>4. \A r \in rows : r \in rows' \/ r.part = f.part
        BY <4>2 DEF Without
      <4>5. ASSUME NEW p \in 1..parts
            PROVE  \/ \E r \in rows' : r.part = p
                   \/ \E g \in flight' : Accepts(g)' /\ g.part = p
        <5>1. CASE p = f.part
          BY <4>2, <5>1
        <5>2. CASE p # f.part
          BY <1>1, <1>2, <3>1, <4>4, <5>2
        <5> QED BY <5>1, <5>2
      <4> QED BY <1>1, <2>4, <4>3, <4>5 DEF LoadingIsAwaited
    <3> QED BY <3>2, <3>3
  <2> QED BY <2>3, <2>4
<1> QED BY <1>4, <1>5 DEF FInv

LEMMA NextFInv == IInv /\ FInv /\ [Next]_vars => FInv'
<1> SUFFICES ASSUME IInv, FInv, [Next]_vars PROVE FInv'
  OBVIOUS
<1>1. ASSUME NEW o \in Objects \cup {Elsewhere}, Select(o) PROVE FInv'
  BY <1>1, SelectAwaited
<1>2. CASE Ask
  BY <1>2, AskAwaited
<1>3. CASE set_lists
  BY <1>3, ListsAwaited
<1>4. ASSUME NEW f \in flight, Answer(f) PROVE FInv'
  BY <1>4, AnswerAwaited
<1>5. CASE Change
  BY <1>5, StillAwaited DEF Change
<1>6. ASSUME NEW o \in changing, Changed(o) PROVE FInv'
  BY <1>6, ChangedAwaited
<1>7. CASE UNCHANGED vars
  BY <1>7, StillAwaited DEF vars
<1> QED BY <1>1, <1>2, <1>3, <1>4, <1>5, <1>6, <1>7 DEF Next

LEMMA InitFInv == Init => FInv
BY DEF Init, FInv, Idle, LoadingIsAwaited, Waits

(* No page waits for an answer that cannot come any more, but the ones that *)
(* Waits leaves out: that is what remains of LoadingEnds when nothing is    *)
(* assumed of the workers.                                                  *)
THEOREM LoadingAlwaysAwaited == Spec => []LoadingIsAwaited
<1>1. FInv => LoadingIsAwaited
  BY DEF FInv
<1> QED BY <1>1, InitFInv, NextFInv, Invariant, PTL DEF Spec
=============================================================================
