------------------------------- MODULE Pages -------------------------------
(***************************************************************************)
(* One page of the detail panel (module PageTable says which there are)    *)
(* while the user selects one object after another: what is shown there,   *)
(* the answers under way, and the changes made from it.                    *)
(***************************************************************************)
EXTENDS PageTable, Naturals, FiniteSets

CONSTANTS
    Objects,    \* hosts, clusters or storages, which have this page
    Elsewhere,  \* what has none of them, a VM for instance
    MaxParts,   \* bound of the members of a cluster, of the types of contents
    MaxLoads    \* bound of loads and of selections

ASSUME ElsewhereAssumption == Elsewhere \notin Objects
ASSUME BoundsAssumption == MaxParts \in Nat \ {0} /\ MaxLoads \in Nat

VARIABLES
    page,
    configured, \* those with a configuration in _cfg_by_name
    taken,      \* what each is taken for: the first storage of its name, any node of its name
    cache,      \* the answers in metrics_cache
    shown,      \* current_obj_id
    selection,  \* _generation
    view,       \* what the page shows: "message", "loading" or its "rows"
    rows,       \* the answers in them, or gathered for them
    parts,      \* how many are expected
    kept,       \* the object whose configuration the last load left behind
    instead,    \* that one was the first's, in the place of the one shown
    loads,      \* number of the last load
    flight,     \* answers under way
    changing    \* objects a change is under way for

const == <<page, configured>>
vars == <<const, taken, cache, shown, selection, view, rows, parts, kept, instead, loads, flight,
          changing>>

Item == [of : Objects, load : 1..MaxLoads, selection : 0..MaxLoads, part : 1..MaxParts]

(* The storages of a name that are listed for one host or cluster have the  *)
(* same first; the nodes of a name are those of several servers.            *)
Takings == {t \in [Objects -> Objects] :
               \A o \in Objects : t[t[o]] = t[o] /\ (t[o] \in configured <=> o \in configured)}

Init ==
    /\ page \in AllPages /\ configured \in SUBSET Objects
    /\ taken \in Takings /\ (page.first \/ page.caches \/ \A o \in Objects : taken[o] = o)
    /\ cache = {} /\ shown = Elsewhere /\ selection = 0
    /\ view = "message" /\ rows = {} /\ parts = 1
    /\ kept = Elsewhere /\ instead = FALSE /\ loads = 0 /\ flight = {} /\ changing = {}
----------------------------------------------------------------------------
(* What the page of o is loaded for: filtered[0], for a storage.            *)
Source(o) == IF page.first /\ o \in Objects THEN taken[o] ELSE o

(* The workers of a load for o.                                             *)
Sent(o, sel, n) == [of : {o}, load : {loads + 1}, selection : {sel}, part : 1..n]

(* A load of the page for o, with the workers for all its parts; left are   *)
(* the answers that are still under way.                                    *)
Load(o, left, sel) ==
    /\ o \in configured
    /\ loads < MaxLoads /\ loads' = loads + 1
    /\ \E n \in (IF page.fans = "one" THEN {1} ELSE 1..MaxParts) :
          /\ parts' = n
          /\ flight' = left \cup Sent(o, sel, n)
    /\ kept' = o /\ instead' = (o # shown' /\ o = Source(shown'))
    /\ IF page.clears = "never" \/ (page.clears = "select" /\ sel = selection)
       THEN UNCHANGED <<view, rows>>
       ELSE /\ view' = "loading"
            /\ rows' = IF page.clears = "covers" /\ sel = selection THEN rows ELSE {}
NoLoad(left) == flight' = left /\ UNCHANGED <<parts, kept, instead, loads>>

(* Or its rows are in the cache, for the time frame that is chosen.         *)
Cached(o, left) ==
    /\ page.caches /\ o \in configured
    /\ \E f \in cache : taken[f.of] = taken[o] /\ rows' = {f} /\ view' = "rows"
    /\ NoLoad(left)

(* show_details: what is queued is dropped, what runs goes on.              *)
Select(o) ==
    /\ selection < MaxLoads /\ selection' = selection + 1
    /\ shown' = o
    /\ changing' \in SUBSET changing
    /\ \E left \in SUBSET flight :
          \/ page.selects /\ (Load(Source(o), left, selection') \/ Cached(o, left))
          \/ /\ o = Elsewhere \/ ~ page.selects
             /\ NoLoad(left) /\ view' = view
             /\ rows' = IF page.clears = "covers" THEN {} ELSE rows
          \/ /\ o \in Objects \ configured /\ page.selects
             /\ NoLoad(left)
             /\ rows' = IF page.clears = "never" THEN rows ELSE {}
             /\ view' = IF page.without = "stays" THEN view ELSE page.without
    /\ UNCHANGED <<const, taken, cache>>

(* The refresh button of HA, another time frame, the answer with the users. *)
Ask ==
    /\ page.asks /\ shown # Elsewhere
    /\ UNCHANGED <<const, taken, cache, shown, selection, changing>>
    /\ \E o \in {shown, kept} \ {Elsewhere} :
          /\ page.guard = "load" \/ o = shown
          /\ Load(Source(o), flight, selection) \/ Cached(o, flight)

(* set_lists: the order of the storages may be another one; after a soft    *)
(* refresh, the host that is shown is asked for its metrics.                *)
set_lists ==
    /\ page.first \/ page.caches
    /\ UNCHANGED <<const, shown, selection, changing>>
    /\ cache' = {}
    /\ taken' \in IF page.first THEN Takings ELSE {taken}
    /\ \/ NoLoad(flight) /\ UNCHANGED <<view, rows>>
       \/ page.caches /\ Load(shown, flight, selection)
----------------------------------------------------------------------------
AcceptsPane(f) ==
    CASE page.guard \in {"object", "selection", "pane"} -> shown # Elsewhere
      [] page.guard = "load" -> f.load = loads
      [] page.guard = "any" -> TRUE
Accepts(f) ==
    CASE page.guard = "object" -> f.of = shown
      [] page.guard = "selection" -> f.selection = selection
      [] page.guard = "load" -> f.load = loads
      [] page.guard = "pane" -> shown # Elsewhere
      [] page.guard = "any" -> TRUE

(* A dictionary by type of contents is full, or as many have answered as    *)
(* there are hosts.                                                         *)
Whole(items) ==
    IF page.guard = "object" THEN 1..parts \subseteq {r.part : r \in items}
    ELSE Cardinality(items) >= parts
(* A worker's answer, or its error, in the slot of the page.                *)
Without(f) == IF page.guard = "object" THEN {r \in rows : r.part # f.part} ELSE rows
ShowsAtOnce(f) == rows' = Without(f) \cup {f} /\ view' = "rows"
Gathers(f) ==
    /\ rows' = Without(f) \cup {f}
    /\ view' = IF Whole(rows') THEN "rows" ELSE view
Adds(f) == rows' = rows \cup {f} /\ view' = "rows"
Replaces(f) == rows' = {f} /\ view' = "rows"
Counted(left) == \A g \in left : g.load # loads
Uncovered == IF rows = {} THEN "message" ELSE "rows"
FailsUnseen(left) == UNCHANGED <<rows, view>>
Fails(left) ==
    /\ rows' = rows
    /\ view' = IF page.fails = "stays" \/ (page.fans = "counts" /\ (rows # {} \/ ~ Counted(left)))
               THEN view
               ELSE IF page.fails = "uncovers" THEN Uncovered ELSE "message"

(* What the slot does before it looks whose answer it is, or without.       *)
Refused ==
    /\ rows' = rows
    /\ \/ page.off # "all" /\ view' = view
       \/ page.off # "taken" /\ view' = IF view = "loading" THEN Uncovered ELSE view

Answer(f) ==
    /\ flight' = flight \ {f}
    /\ IF ~ Accepts(f) THEN Refused /\ cache' = cache
       ELSE IF page.fans = "all" /\ Whole(rows) THEN UNCHANGED <<view, rows, cache>>
       ELSE \/ page.fans = "all" /\ Gathers(f) /\ cache' = cache
            \/ page.fans \in {"adds", "counts"} /\ Adds(f) /\ cache' = cache
            \/ /\ page.fans = "one" /\ Replaces(f)
               /\ cache' = IF page.caches THEN cache \cup {f} ELSE cache
            \/ page.fans \in {"one", "counts"} /\ Fails(flight') /\ cache' = cache
    /\ UNCHANGED <<const, taken, shown, selection, parts, kept, instead, loads, changing>>
----------------------------------------------------------------------------
(* A change from the page, and its success, after which it is loaded again. *)
Target == IF page.acts = "kept" THEN kept ELSE shown
Change ==
    /\ shown # Elsewhere /\ page.acts # "nobody"
    /\ Target \in configured /\ Target \notin changing
    /\ changing' = changing \cup {Target}
    /\ UNCHANGED <<const, taken, cache, shown, selection, view, rows, parts, kept, instead, loads>>
    /\ flight' = flight

ReloadedItsOwn(o) == o
Reloaded(o) ==
    CASE page.again = "captured" -> o
      [] page.again = "kept" -> kept
      [] page.again = "shown" -> Source(shown)
Changed(o) ==
    /\ changing' = changing \ {o}
    /\ UNCHANGED <<const, taken, cache, shown, selection>>
    /\ \/ NoLoad(flight) /\ UNCHANGED <<view, rows>>       \* it failed
       \/ Reloaded(o) # Elsewhere /\ (page.again = "kept" => shown # Elsewhere)
          /\ Load(Reloaded(o), flight, selection)

Next ==
    \/ \E o \in Objects \cup {Elsewhere} : Select(o)
    \/ Ask \/ set_lists
    \/ \E f \in flight : Answer(f)
    \/ Change
    \/ \E o \in changing : Changed(o)

(* Every worker that runs answers.                                          *)
Answering == \E f \in flight : Answer(f)
Spec == Init /\ [][Next]_vars /\ WF_vars(Answering)
----------------------------------------------------------------------------
TypeOK ==
    /\ page \in Page /\ configured \subseteq Objects /\ taken \in Takings /\ cache \subseteq Item
    /\ shown \in Objects \cup {Elsewhere} /\ selection \in 0..MaxLoads
    /\ view \in {"message", "loading", "rows"} /\ rows \subseteq Item /\ flight \subseteq Item
    /\ parts \in 1..MaxParts /\ kept \in Objects \cup {Elsewhere} /\ instead \in BOOLEAN
    /\ loads \in 0..MaxLoads /\ changing \subseteq Objects

(* What the page shows is the object's that is selected, whatever answers   *)
(* are late, cached or reloaded: of every page that has a guard for it and  *)
(* is cleared for the next object (README, section 3, for the others).  The *)
(* cached curves of a host may be those of a node of the same name.         *)
Guarded == page.guard \in {"object", "selection"} /\ page.clears # "never"
Own(r) == r.of = shown \/ (page.caches /\ taken[r.of] = taken[shown])
OwnPage == Guarded /\ shown # Elsewhere /\ view = "rows" => \A r \in rows : Own(r)

(* A page that is put together is shown when every member has answered, the *)
(* members of the object that is selected.                                  *)
WholePage ==
    page.fans = "all" /\ shown # Elsewhere /\ view = "rows" =>
        \A p \in 1..parts : \E r \in rows : r.part = p /\ r.of = shown

(* No page stays at "Loading...", but for these: a storage in the place of  *)
(* which the first was loaded is never answered, nor one whose backups are  *)
(* loaded again for the storage remembered; of two pages for a cluster or a *)
(* storage without a configuration, nothing ends it; the tokens are not     *)
(* asked for when the users do not come.                                    *)
Misses ==
    page.first /\ page.off # "all" /\ kept # shown /\ (instead \/ page.again = "kept")
Silent == shown \notin configured /\ page.without # "message"
Waits == view = "loading" /\ shown # Elsewhere /\ page.selects /\ ~ Misses /\ ~ Silent
LoadingEnds == Waits ~> ~ Waits

(* While a page says "Loading...", an answer that ends it is to come:       *)
(* neither another selection nor a reload for another object leaves it      *)
(* waiting for what was dropped.  What is put together has one for every    *)
(* part that it lacks, and is not whole without being shown.                *)
Ends(f) == Accepts(f) \/ page.off = "all"
LoadingIsAwaited ==
    Waits =>
        IF page.fans = "all"
        THEN /\ ~ Whole(rows)
             /\ \A p \in 1..parts : \/ \E r \in rows : r.part = p
                                    \/ \E f \in flight : Accepts(f) /\ f.part = p
        ELSE \E f \in flight : Ends(f)
=============================================================================
