------------------------- MODULE OperationContract -------------------------
(***************************************************************************)
(* What the window relies on in a worker that changes something: it sends  *)
(* requests until it has an answer to give and none after, gives one at    *)
(* most, and answers "success" only when all that was asked for is done.   *)
(***************************************************************************)
VARIABLES
    asked,   \* the requests that have been sent
    whole,   \* what the user asked for is done on the server
    told     \* the answer: "nothing" yet, "success" or "failure"

vars == <<asked, whole, told>>

Init == asked = {} /\ whole \in BOOLEAN /\ told = "nothing"

Ask ==
    /\ told = "nothing"
    /\ asked \subseteq asked' /\ asked # asked'
    /\ UNCHANGED <<whole, told>>

(* The server does its part when it likes, after the answer too.            *)
Happen == ~ whole /\ whole' = TRUE /\ UNCHANGED <<asked, told>>

Succeed == told = "nothing" /\ whole /\ told' = "success" /\ UNCHANGED <<asked, whole>>
Fail == told = "nothing" /\ told' = "failure" /\ UNCHANGED <<asked, whole>>

Next == Ask \/ Happen \/ Succeed \/ Fail
Spec == Init /\ [][Next]_vars
=============================================================================
