---------------------------- MODULE RunContract ----------------------------
(* What a launch promises to whoever reads its manifest and its exit code.  *)
(* RunLifecycle is shown to implement it.                                    *)
CONSTANTS
    Processes,      \* the target and its descendants, as far as they are seen
    First           \* the target

VARIABLES
    manifest,       \* none, open, or sealed: complete or partial
    running,        \* processes running now
    unfinished,     \* processes whose telemetry starts and does not finish
    outcome         \* success, failure, lost (v8scope was killed); none yet

vars == <<manifest, running, unfinished, outcome>>

TypeOK ==
    /\ manifest \in {"none", "open", "complete", "partial"}
    /\ running \subseteq Processes /\ unfinished \subseteq Processes
    /\ outcome \in {"none", "success", "failure", "lost"}

Init == manifest = "none" /\ running = {} /\ unfinished = {} /\ outcome = "none"

Open ==
    /\ manifest = "none" /\ outcome = "none"
    /\ manifest' = "open"
    /\ UNCHANGED <<running, unfinished, outcome>>

Launch ==
    /\ manifest = "open" /\ outcome = "none"
    /\ running' = running \cup {First}
    /\ UNCHANGED <<manifest, unfinished, outcome>>

(* Only a process that runs starts another, and only one that runs writes.  *)
Fork ==
    /\ running # {}
    /\ \E p \in Processes : running' = running \cup {p}
    /\ UNCHANGED <<manifest, unfinished, outcome>>

Write ==
    /\ \E p \in running : unfinished' \in {unfinished \cup {p}, unfinished \ {p}}
    /\ UNCHANGED <<manifest, running, outcome>>

Leave ==
    /\ running' \subseteq running
    /\ UNCHANGED <<manifest, unfinished, outcome>>

(* A manifest is sealed once, as complete only if nobody is left who could  *)
(* prove it wrong, and everyone who began telemetry ended it.               *)
Seal ==
    /\ manifest = "open" /\ outcome = "none"
    /\ \/ manifest' = "partial"
       \/ running = {} /\ unfinished = {} /\ manifest' = "complete"
    /\ UNCHANGED <<running, unfinished, outcome>>

(* A success needs a complete manifest; nothing follows an outcome but what *)
(* processes that were not stopped still do.                                 *)
Conclude ==
    /\ outcome = "none"
    /\ \/ outcome' \in {"failure", "lost"}
       \/ manifest = "complete" /\ outcome' = "success"
    /\ running' \subseteq running
    /\ UNCHANGED <<manifest, unfinished>>

Next == Open \/ Launch \/ Fork \/ Write \/ Leave \/ Seal \/ Conclude

Spec == Init /\ [][Next]_vars
=============================================================================
