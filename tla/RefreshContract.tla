-------------------------- MODULE RefreshContract --------------------------
(***************************************************************************)
(* What the refresh cycles promise, without the pool, the generations, the *)
(* counters and the time-outs that they are made of.  A hard cycle and a   *)
(* soft one each wait for the answers of a set of hosts; an answer that is *)
(* not waited for changes nothing.  An answer changes what is known of its *)
(* own host, and forgets nothing of it.  The tree shows what the hard      *)
(* cycle has so far, and what a soft cycle has gathered only when its last *)
(* host has answered, if that is anything; what is kept on the disk is     *)
(* always the result of a whole cycle.                                     *)
(***************************************************************************)
CONSTANTS Hosts, Item

VARIABLES
    configured,  \* the hosts
    tree,        \* what is known and shown of them
    gathered,    \* what the soft cycle has so far
    asked,       \* the hosts the hard cycle waits for
    probed,      \* the hosts the soft cycle waits for
    loading,     \* the loading marks are shown
    kept         \* what the next start of the program will show

vars == <<configured, tree, gathered, asked, probed, loading, kept>>

Lasting(items) == {i \in items : i.part = "vm" \/ i.st # "error"}
Cached(items) == {[i EXCEPT !.st = "cached"] : i \in items}

Learned(h, old, new) ==
    /\ new \subseteq Item
    /\ {i \in new : i.host # h} = {i \in old : i.host # h}
    /\ \A i \in old : \E j \in new : j.host = i.host /\ j.part = i.part

(* The program starts with what is kept, and a hard cycle.                  *)
Init ==
    /\ configured \subseteq Hosts /\ asked \subseteq configured
    /\ tree = Cached(kept) /\ loading = (configured # {})
    /\ gathered = {} /\ probed = {}

Restart ==
    /\ asked' \subseteq configured
    /\ tree' = Cached(kept) /\ loading' = (configured # {})
    /\ gathered' = {} /\ probed' = {}
    /\ UNCHANGED <<configured, kept>>

(* The user refreshes, or changes the hosts; of those some are fetched.     *)
HardBegin(hosts) ==
    /\ configured' = hosts /\ asked' \subseteq hosts
    /\ tree' = {} /\ loading' = (hosts # {})
    /\ gathered' = {} /\ probed' = {}
    /\ UNCHANGED kept

HardAnswer(h) ==
    /\ h \in asked /\ asked' = asked \ {h}
    /\ Learned(h, tree, tree')
    /\ IF asked' = {} THEN loading' = FALSE /\ kept' = Lasting(tree')
                      ELSE UNCHANGED <<loading, kept>>
    /\ UNCHANGED <<configured, gathered, probed>>

(* The timer begins a soft cycle; one that takes too long is given up.      *)
SoftBegin ==
    /\ probed' \subseteq configured /\ gathered' = {}
    /\ UNCHANGED <<configured, tree, asked, loading, kept>>

SoftAnswer(h) ==
    /\ h \in probed /\ probed' = probed \ {h} /\ probed' # {}
    /\ Learned(h, gathered, gathered')
    /\ UNCHANGED <<configured, tree, asked, loading, kept>>

SoftEnd(h) ==
    /\ probed = {h} /\ probed' = {} /\ gathered' = {}
    /\ \/ /\ tree' # {} /\ Learned(h, gathered, tree')
          /\ loading' \in {loading, FALSE} /\ kept' = Lasting(tree')
       \/ UNCHANGED <<tree, loading, kept>>
    /\ UNCHANGED <<configured, asked>>

Next ==
    \/ Restart \/ SoftBegin
    \/ \E hosts \in SUBSET Hosts : HardBegin(hosts)
    \/ \E h \in Hosts : HardAnswer(h) \/ SoftAnswer(h) \/ SoftEnd(h)
Spec == Init /\ [][Next]_vars
=============================================================================
