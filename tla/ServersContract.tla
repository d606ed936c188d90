-------------------------- MODULE ServersContract --------------------------
(***************************************************************************)
(* What the list of servers promises across ends of the program.  There is *)
(* the list that the window shows, and what outlives it: the rows, which   *)
(* are without tokens, and for every name the token that the next start    *)
(* finds.  A change is shown and then stored, or stored when it is shown.  *)
(* Each write is atomic, and the next change waits until the rows are      *)
(* those shown or the store has been refused: an end loses at most the     *)
(* change under way, that one whole, and the refused ones before it.  The  *)
(* token of a server that is stored is replaced only by the one shown, and *)
(* never lost.                                                             *)
(***************************************************************************)
EXTENDS Naturals, Sequences

CONSTANTS Names, Blank, Node

VARIABLES
    on,       \* the program runs
    shown,    \* the list of servers, empty while it does not
    stored,   \* the rows
    refused,  \* the last change, or more, could not be stored
    keys      \* the token of each name

vars == <<on, shown, stored, refused, keys>>

Plain(nodes) == [k \in DOMAIN nodes |-> [nodes[k] EXCEPT !.token = Blank]]
AtRest == on /\ stored = Plain(shown)

Init == on = FALSE /\ shown = <<>> /\ stored = <<>> /\ refused = FALSE /\ DOMAIN keys = Names

Change ==
    /\ AtRest \/ (on /\ refused)
    /\ shown' \in Seq(Node)
    /\ \/ UNCHANGED <<stored, refused>>
       \/ stored' = Plain(shown') /\ refused' = FALSE
    /\ UNCHANGED <<on, keys>>

Store ==
    /\ on /\ stored' = Plain(shown) /\ refused' = FALSE
    /\ UNCHANGED <<on, shown, keys>>
Refuse == on /\ refused' = TRUE /\ UNCHANGED <<on, shown, stored, keys>>

Keep(k) ==
    /\ AtRest /\ k \in DOMAIN shown /\ shown[k].token # Blank
    /\ keys' = [keys EXCEPT ![shown[k].name] = shown[k].token]
    /\ UNCHANGED <<on, shown, stored, refused>>

Lose(n) ==
    /\ AtRest /\ \A k \in DOMAIN stored : stored[k].name # n
    /\ keys' = [keys EXCEPT ![n] = keys'[n]]
    /\ UNCHANGED <<on, shown, stored, refused>>

End ==
    /\ on /\ on' = FALSE
    /\ shown' = <<>> /\ refused' = FALSE
    /\ UNCHANGED <<stored, keys>>

(* With the tokens, but for those that cannot be read.                      *)
Start ==
    /\ ~ on /\ on' = TRUE
    /\ \E readable \in SUBSET Names :
          shown' = [k \in DOMAIN stored |->
                      [stored[k] EXCEPT !.token = IF stored[k].name \in readable
                                                  THEN keys[stored[k].name] ELSE Blank]]
    /\ UNCHANGED <<stored, refused, keys>>

Next ==
    \/ Change \/ Store \/ Refuse \/ End \/ Start
    \/ \E k \in DOMAIN shown : Keep(k)
    \/ \E n \in Names : Lose(n)
Spec == Init /\ [][Next]_vars
=============================================================================
