--------------------------- MODULE InspectorRpc ---------------------------
(* What CdpClient::command promises its caller: commands are asked one      *)
(* after the other; the inspector performs each at most once and in the     *)
(* order they were asked; and a command that succeeds was performed.        *)
EXTENDS Naturals

VARIABLES
    asked,          \* the number of the last command
    performed,      \* the number of the last command the inspector performed
    outcome         \* of the last command

vars == <<asked, performed, outcome>>

Init == asked = 0 /\ performed = 0 /\ outcome = "none"

Ask ==
    /\ outcome # "waiting"
    /\ asked' = asked + 1 /\ outcome' = "waiting"
    /\ UNCHANGED performed

(* Also after its caller has given up.                                      *)
Perform ==
    /\ performed' \in (performed + 1) .. asked
    /\ UNCHANGED <<asked, outcome>>

Succeed ==
    /\ outcome = "waiting" /\ performed = asked
    /\ outcome' = "ok"
    /\ UNCHANGED <<asked, performed>>

Fail ==
    /\ outcome = "waiting"
    /\ outcome' = "error"
    /\ UNCHANGED <<asked, performed>>

Next == Ask \/ Perform \/ Succeed \/ Fail

Spec == Init /\ [][Next]_vars
===========================================================================
