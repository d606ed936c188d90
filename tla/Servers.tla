------------------------------ MODULE Servers ------------------------------
(***************************************************************************)
(* The configured servers: nodes_cfg, the list of the main window, with    *)
(* the indexes by name that the window and the panes keep into it; the     *)
(* database and the keyring that outlive the program (config.py); and what *)
(* changes them.  A save is a commit and then one write to the keyring     *)
(* after the other; the process may end between any two.                   *)
(*                                                                         *)
(* The servers are mutable dicts which an index, a dialog or a worker may  *)
(* hold when the list has others in their place.  A reference is the       *)
(* dict's place in the list here, or Gone: what is written to a dict that  *)
(* is not in the list is never read again.                                 *)
(***************************************************************************)
EXTENDS Naturals, Sequences, FiniteSets

CONSTANTS
    Names,
    Hosts,      \* addresses: what an import merges by
    Tokens,
    MaxHosts,   \* bound of the list
    MaxGrouped, \* bound of the servers in a group at a time
    MaxOld,     \* bound of the tokens from before the renaming
    MaxRaised   \* bound of the saves in a row that raise

ASSUME ServersAssumption == MaxHosts \in Nat /\ MaxRaised \in Nat

VARIABLES
    list,       \* MainWindow.nodes_cfg
    index,      \* MainWindow._cfg_by_name
    pane,       \* the same of the detail panel and of the PBS panel
    dialog,     \* the dialog on the screen and the dicts it was opened for
    joining,    \* the dict a ClusterJoinWorker or ClusterCreateWorker was given
    db,         \* the table of nodes
    ring,       \* the keyring: [name -> token]
    legacy,     \* its entries under the service name of before the renaming
    todo,       \* what the running slot has yet to store
    unsaved,    \* names of the list whose last token the keyring did not take
    raised,     \* how many saves have raised since one did not
    up          \* the program runs

memory == <<list, index, pane, dialog, joining>>
vars == <<memory, db, ring, legacy, todo, unsaved, raised, up>>

None == 0                       \* of a reference: no entry
Gone == MaxHosts + 1            \* of a reference: to a dict no longer listed
Reference == 0..(MaxHosts + 1)
Blank == "none"                 \* of a token: none is known
Node == [name : Names, host : Hosts, clustered : BOOLEAN, grouped : BOOLEAN,
         token : Tokens \cup {Blank}]
Dialog == [kind : {"none", "token", "remove"}, at : SUBSET (1..MaxHosts)]
NoDialog == [kind |-> "none", at |-> {}]
Write == [does : {"commit", "set", "forget"}, name : Names \cup {"none"},
          token : Tokens \cup {Blank}]
----------------------------------------------------------------------------
Max0(S) == IF S = {} THEN 0 ELSE CHOOSE k \in S : \A l \in S : l <= k

(* A list comprehension: the entries at some places, in their order.        *)
Place(S, k) == Cardinality({l \in S : l <= k})
Only(seq, S) == [j \in 1..Cardinality(S) |-> seq[CHOOSE k \in S : Place(S, k) = j]]

(* build_cfg_index: the last of a name.                                     *)
build_cfg_index(nodes) ==
    [n \in Names |-> Max0({k \in DOMAIN nodes : nodes[k].name = n})]

(* load_config: the rows with their tokens, those of before the renaming    *)
(* where there is no other.  _load_token reads name by name and gives a     *)
(* blank one where the keyring fails; it moves what it finds under the old  *)
(* service name, unless the keyring does not take it.                       *)
Found(n) == IF ring[n] # Blank THEN ring[n] ELSE legacy[n]
FoundIf(n, readable) == IF n \in readable THEN Found(n) ELSE Blank
Loaded(readable) == [k \in DOMAIN db |-> [db[k] EXCEPT !.token = FoundIf(db[k].name, readable)]]
MovedTokens(moved) == [n \in Names |-> IF n \in moved THEN Found(n) ELSE ring[n]]
Keyed == {n \in Names : Found(n) # Blank /\ \E k \in DOMAIN db : db[k].name = n}
Old(readable) == {n \in readable : ring[n] = Blank}

(* save_config: the rows, without tokens, and then the tokens that are      *)
(* known; delete_node_tokens.                                               *)
Rows(nodes) == [k \in DOMAIN nodes |-> [nodes[k] EXCEPT !.token = Blank]]
Do(does, name, token) == [does |-> does, name |-> name, token |-> token]
SaveTokens(nodes) ==
    LET known == Only(nodes, {k \in DOMAIN nodes : nodes[k].token # Blank})
    IN  [k \in DOMAIN known |-> Do("set", known[k].name, known[k].token)]
Save(nodes) == <<Do("commit", "none", Blank)>> \o SaveTokens(nodes)
Forget(nodes) == [k \in DOMAIN nodes |-> Do("forget", nodes[k].name, Blank)]
----------------------------------------------------------------------------
(* A slot runs when the event loop turns: not while another one stores, and *)
(* the user's only when no modal dialog is open.                            *)
Turns == up /\ todo = <<>>
Idle == Turns /\ dialog = NoDialog

(* What the slots end with: the new list, the panes' index of it, and what  *)
(* is to be stored; moved says where a dict of the old list is now.         *)
Leave(nodes, moved, stores) ==
    /\ list' = nodes
    /\ pane' = build_cfg_index(nodes)
    /\ joining' = IF joining \in DOMAIN list THEN moved[joining] ELSE joining
    /\ dialog' = NoDialog
    /\ todo' = stores
    /\ unsaved' = unsaved \cap {nodes[k].name : k \in DOMAIN nodes}
    /\ UNCHANGED <<legacy, up>>
Stays == [k \in DOMAIN list |-> k]
Opens(kind, at) ==
    /\ Idle /\ at # {}
    /\ dialog' = [kind |-> kind, at |-> at]
    /\ UNCHANGED <<list, index, pane, joining, db, ring, legacy, todo, unsaved, raised, up>>

(* _on_add_server: appended.                                                *)
_on_add_server(n, h, t) ==
    /\ Idle
    /\ LET node == [name |-> n, host |-> h, clustered |-> FALSE, grouped |-> FALSE, token |-> t]
           nodes == Append(list, node)
       IN  /\ index' = [index EXCEPT ![n] = Len(nodes)]
           /\ Leave(nodes, Stays, Save(nodes))
    /\ UNCHANGED <<db, ring, raised>>

(* _on_import_config, import_config: the stored nodes and those of the      *)
(* bundle, one for each address, the last; all dicts are new ones.          *)
(* import_config has stored them when the window takes and stores them; if  *)
(* that raises, the window never has them.                                  *)
Merged(bundle, readable) ==
    LET all == Loaded(readable) \o bundle
        of(k) == {l \in DOMAIN all : all[l].host = all[k].host}
        firsts == {k \in DOMAIN all : \A l \in of(k) : k <= l}
    IN  Only([k \in DOMAIN all |-> all[Max0(of(k))]], firsts)
_on_import_config(bundle, readable, moved) ==
    /\ Idle
    /\ LET nodes == Merged(bundle, readable)
       IN  /\ index' = build_cfg_index(nodes)
           /\ db' = Rows(nodes) /\ raised' = 0
           /\ Leave(nodes, [k \in DOMAIN list |-> Gone], SaveTokens(nodes) \o Save(nodes))
    /\ ring' = MovedTokens(moved)
ImportRaises(moved) ==
    /\ Idle
    /\ ring' = MovedTokens(moved)
    /\ UNCHANGED <<memory, db, legacy, todo, unsaved, raised, up>>

(* _on_group_move; _on_group_rename, _on_group_delete and _on_host_trust_ssl *)
(* are of this form: a change in the dict itself.                           *)
_on_group_move(n, grouped) ==
    /\ Idle /\ index[n] # None
    /\ LET nodes == IF index[n] = Gone THEN list ELSE [list EXCEPT ![index[n]].grouped = grouped]
       IN  Leave(nodes, Stays, Save(nodes))
    /\ UNCHANGED <<index, db, ring, raised>>

(* _on_host_token_refresh: the dict is looked up, the dialog runs, and its  *)
(* answer is a new dict in the place of that name.                          *)
_on_host_token_refresh(n) == Opens("token", {index[n]} \ {None})
NotIndexed(at, name) == [index EXCEPT ![name] = Gone]
Indexed(at, name) == [index EXCEPT ![name] = at]
TokenRefreshed(t) ==
    /\ Turns /\ dialog.kind = "token"
    /\ \E at \in dialog.at :
          LET nodes == [list EXCEPT ![at].token = t, ![at].grouped = FALSE]
          IN  /\ index' = Indexed(at, list[at].name)
              /\ Leave(nodes, [Stays EXCEPT ![at] = Gone], Save(nodes))
    /\ UNCHANGED <<db, ring, raised>>

(* _on_host_remove, of a host or of a whole cluster: matched before the     *)
(* question is asked; stored without them first, their tokens then.         *)
_on_host_remove ==
    \/ \E n \in Names : Opens("remove", {k \in DOMAIN list : list[k].name = n})
    \/ Opens("remove", {k \in DOMAIN list : list[k].clustered})
ForgottenFirst(nodes, removed) == Forget(removed) \o Save(nodes)
Without(nodes, removed) == Save(nodes) \o Forget(removed)
HostRemoved ==
    /\ Turns /\ dialog.kind = "remove"
    /\ LET matched == {list[k] : k \in dialog.at}
           kept == {k \in DOMAIN list : list[k] \notin matched}
           nodes == Only(list, kept)
           now == [k \in DOMAIN list |-> IF k \in kept THEN Place(kept, k) ELSE Gone]
       IN  /\ index' = build_cfg_index(nodes)
           /\ Leave(nodes, now, Without(nodes, Only(list, DOMAIN list \ kept)))
    /\ UNCHANGED <<db, ring, raised>>

Dismiss ==
    /\ Turns /\ dialog # NoDialog
    /\ dialog' = NoDialog
    /\ UNCHANGED <<list, index, pane, joining, db, ring, legacy, todo, unsaved, raised, up>>

(* _on_cluster_join, _on_cluster_create: the worker's answer marks the dict *)
(* it was started with, listed or not, and the list is stored.              *)
_on_cluster_join(at) ==
    /\ Idle /\ joining = None
    /\ at \in DOMAIN list /\ ~ list[at].clustered
    /\ joining' = at
    /\ UNCHANGED <<list, index, pane, dialog, db, ring, legacy, todo, unsaved, raised, up>>
MarkedOnly ==
    /\ Turns /\ joining # None
    /\ joining' = None
    /\ LET nodes == IF joining = Gone THEN list ELSE [list EXCEPT ![joining].clustered = TRUE]
       IN  list' = nodes /\ pane' = build_cfg_index(nodes)
    /\ UNCHANGED <<index, dialog, db, ring, legacy, todo, unsaved, raised, up>>
_mark_joinee ==
    /\ Turns /\ joining # None
    /\ joining' = None
    /\ LET nodes == IF joining = Gone THEN list ELSE [list EXCEPT ![joining].clustered = TRUE]
       IN  list' = nodes /\ pane' = build_cfg_index(nodes) /\ todo' = Save(nodes)
    /\ UNCHANGED <<index, dialog, db, ring, legacy, unsaved, raised, up>>
JoinFails ==
    /\ Turns /\ joining # None
    /\ joining' = None
    /\ UNCHANGED <<list, index, pane, dialog, db, ring, legacy, todo, unsaved, raised, up>>
----------------------------------------------------------------------------
(* The store, one write after the other.  save_config may raise, for a      *)
(* field it does not take or for the database: nothing is committed and the *)
(* slot stops there, with the list already changed.  The keyring's errors   *)
(* are logged.                                                              *)
Stores(does) == up /\ todo # <<>> /\ Head(todo).does = does /\ todo' = Tail(todo)

Commit ==
    /\ Stores("commit")
    /\ db' = Rows(list) /\ raised' = 0
    /\ UNCHANGED <<memory, ring, legacy, unsaved, up>>

CommitRaises ==
    /\ up /\ todo # <<>> /\ Head(todo).does = "commit"
    /\ raised < MaxRaised /\ raised' = raised + 1
    /\ todo' = <<>>
    /\ UNCHANGED <<memory, db, ring, legacy, unsaved, up>>

_save_token ==
    /\ Stores("set")
    /\ LET n == Head(todo).name
       IN  \/ ring' = [ring EXCEPT ![n] = Head(todo).token] /\ unsaved' = unsaved \ {n}
           \/ ring' = ring /\ unsaved' = unsaved \cup {n}
    /\ UNCHANGED <<memory, db, legacy, raised, up>>

_delete_token ==
    /\ Stores("forget")
    /\ LET n == Head(todo).name
       IN  /\ ring' \in {ring, [ring EXCEPT ![n] = Blank]}
           /\ legacy' \in {legacy, [legacy EXCEPT ![n] = Blank]}
    /\ UNCHANGED <<memory, db, unsaved, raised, up>>

(* The process ends, between two slots or between two writes.               *)
NoIndex == [n \in Names |-> None]
End ==
    /\ up /\ up' = FALSE
    /\ list' = <<>> /\ index' = NoIndex /\ pane' = NoIndex
    /\ dialog' = NoDialog /\ joining' = None /\ todo' = <<>>
    /\ unsaved' = {} /\ raised' = 0
    /\ UNCHANGED <<db, ring, legacy>>

(* main(): load_config, and the window with what it gives.                  *)
Start(readable, moved) ==
    /\ ~ up /\ up' = TRUE
    /\ list' = Loaded(readable) /\ index' = build_cfg_index(list') /\ pane' = index'
    /\ ring' = MovedTokens(moved)
    /\ UNCHANGED <<dialog, joining, db, legacy, todo, unsaved, raised>>
----------------------------------------------------------------------------
Init ==
    /\ db = <<>> /\ ring = [n \in Names |-> Blank]
    /\ legacy \in [Names -> Tokens \cup {Blank}]
    /\ Cardinality({n \in Names : legacy[n] # Blank}) <= MaxOld
    /\ unsaved = {} /\ raised = 0 /\ up = FALSE
    /\ list = <<>> /\ index = NoIndex /\ pane = NoIndex
    /\ dialog = NoDialog /\ joining = None /\ todo = <<>>

(* Bundles of one server, exported elsewhere; servers of different names,   *)
(* which the code expects and does not demand.                              *)
Bundles == {<<c>> : c \in [name : Names, host : Hosts, clustered : {FALSE},
                           grouped : {FALSE}, token : Tokens \cup {Blank}]}
Apart == /\ Len(list') <= MaxHosts
         /\ Cardinality({k \in DOMAIN list' : list'[k].grouped}) <= MaxGrouped
         /\ \A k, l \in DOMAIN list' : list'[k].name = list'[l].name => k = l

User ==
    \/ \E n \in Names, h \in Hosts, t \in Tokens : _on_add_server(n, h, t)
    \/ \E readable \in SUBSET Keyed : \E moved \in SUBSET Old(readable) :
          ImportRaises(moved) \/ \E b \in Bundles : _on_import_config(b, readable, moved)
    \/ \E n \in Names, grouped \in BOOLEAN : _on_group_move(n, grouped)
    \/ \E n \in Names : _on_host_token_refresh(n)
    \/ \E t \in Tokens : TokenRefreshed(t)
    \/ _on_host_remove \/ HostRemoved \/ Dismiss
    \/ \E at \in 1..MaxHosts : _on_cluster_join(at)
Next ==
    \/ User /\ Apart
    \/ _mark_joinee \/ JoinFails
    \/ Commit \/ CommitRaises \/ _save_token \/ _delete_token
    \/ End
    \/ \E readable \in SUBSET Keyed : \E moved \in SUBSET Old(readable) : Start(readable, moved)
Spec == Init /\ [][Next]_vars
----------------------------------------------------------------------------
TypeOK ==
    /\ list \in Seq(Node) /\ Len(list) <= MaxHosts
    /\ index \in [Names -> Reference] /\ pane \in [Names -> Reference]
    /\ joining \in Reference /\ dialog \in Dialog
    /\ db \in Seq(Node) /\ Len(db) <= MaxHosts /\ todo \in Seq(Write)
    /\ ring \in [Names -> Tokens \cup {Blank}] /\ legacy \in [Names -> Tokens \cup {Blank}]
    /\ unsaved \subseteq Names /\ raised \in Nat /\ up \in BOOLEAN

(* Between two slots the next start would bring back what the window has:   *)
(* every server, and every token the keyring has taken, unless the last     *)
(* save has raised.                                                         *)
RestartRestores ==
    Turns /\ raised = 0 =>
        /\ db = Rows(list)
        /\ \A k \in DOMAIN list :
              LET c == list[k] IN c.token # Blank /\ c.name \notin unsaved => Found(c.name) = c.token

(* What a slot looks up by name, in the window or in a pane, is the dict of *)
(* that name in the list: what is changed through it is stored and shown,   *)
(* and the token used is the current one.                                   *)
ActsOnListed ==
    \A n \in Names : \A at \in {index[n], pane[n]} :
        IF \E k \in DOMAIN list : list[k].name = n
        THEN at \in DOMAIN list /\ list[at].name = n
        ELSE at = None

(* No server that stays in the table loses its token, wherever the process  *)
(* ends: a token is deleted only after its server.                          *)
Stored(rows) == {rows[k].name : k \in DOMAIN rows}
TokenStays ==
    [][\A n \in Stored(db) \cap Stored(db') : ring[n] # Blank => ring'[n] # Blank]_vars

(* An end of the program loses the change whose slot still stores, and that *)
(* one whole, with those before it whose saves have raised since one did    *)
(* not; what the next start finds is what was shown after that one.         *)
Contract == INSTANCE ServersContract WITH
    on <- up, shown <- list, stored <- db, refused <- (raised > 0),
    keys <- [n \in Names |-> Found(n)]
KeepsContract == Contract!Spec
=============================================================================
