--------------------------- MODULE ProcessSettle ---------------------------
(* process.rs: how v8scope finds the processes a target leaves behind and    *)
(* makes them end.  The root was reaped by child.wait before; Procs are the *)
(* processes descended from it, whatever their process group.               *)
(*                                                                           *)
(* refresh_tree first lists the process table and then reads environments,  *)
(* so a scan is two steps, between which processes fork and exit.  Two scan: *)
(* the settling task and the sampler, which share the tracker.  A process   *)
(* keeps its identity (PID and start time): PIDs are not reused here.       *)
EXTENDS Naturals, FiniteSets

CONSTANTS
    Root,           \* the target, gone by now
    Procs,          \* processes descended from the target
    First,          \* the one that runs in the beginning
    Marked,         \* those whose environment has the V8SCOPE_PROCESS_TOKEN
    Foreign,        \* those that changed user: signals to them are refused
    EmptyChecks,    \* scans in a row that must come back empty (3 in the code)
    MaxGen          \* bound on the generations forked while settling

ASSUME SettleAssumption ==
    /\ Root \notin Procs /\ First \in Procs
    /\ Marked \subseteq Procs /\ Foreign \subseteq Procs
    /\ EmptyChecks \in Nat \ {0} /\ MaxGen \in Nat

Scanners == {"settle", "sampler"}

VARIABLES
    pc,             \* where execute is, from record_telemetry_processes on
    alive, born, parent,
    gen,            \* forks that lead to a process since settling began
    scanning,       \* scanners between the listing and the environments
    listed, link,   \* per scanner: processes listed, <<parent, child>> pairs
    tracked,        \* identities in the ProcessTracker
    known,          \* identities in it when settling began
    remaining,      \* outcome of the last refresh_and_alive
    empty_checks,
    expired,        \* the deadline of the current loop has passed
    forced

procVars == <<alive, born, parent, gen>>
scanVars == <<scanning, listed, link>>
loopVars == <<known, empty_checks, expired, forced>>
vars == <<pc, procVars, scanVars, loopVars, tracked, remaining>>

Init ==
    /\ pc = "running"
    /\ alive = {First} /\ born = {First}
    /\ parent = [p \in Procs |-> Root]
    /\ gen = [p \in Procs |-> 0]
    /\ scanning = {}
    /\ listed = [s \in Scanners |-> {}]
    /\ link = [s \in Scanners |-> {}]
    /\ tracked = {} /\ known = {} /\ remaining = {}
    /\ empty_checks = 0 /\ expired = FALSE /\ forced = FALSE
---------------------------------------------------------------------------
(* The processes.  The environment is inherited, and may be cleared.        *)
Fork(p, c) ==
    /\ p \in alive /\ c \notin born /\ gen[p] < MaxGen
    /\ c \in Marked => p \in Marked
    /\ alive' = alive \cup {c} /\ born' = born \cup {c}
    /\ parent' = [parent EXCEPT ![c] = p]
    /\ gen' = [gen EXCEPT ![c] = gen[p] + 1]
    /\ UNCHANGED <<pc, scanVars, loopVars, tracked, remaining>>

Exit(p) ==
    /\ p \in alive
    /\ alive' = alive \ {p}
    /\ UNCHANGED <<pc, born, parent, gen, scanVars, loopVars, tracked,
                   remaining>>

Processes == \E p \in Procs : Exit(p) \/ \E c \in Procs : Fork(p, c)
---------------------------------------------------------------------------
(* refresh_tree.                                                             *)

(* A process whose parent is gone was adopted: the listing does not show    *)
(* where it came from.                                                       *)
List(s) ==
    /\ s \notin scanning
    /\ scanning' = scanning \cup {s}
    /\ listed' = [listed EXCEPT ![s] = alive]
    /\ link' = [link EXCEPT ![s] = {e \in alive \X alive : parent[e[2]] = e[1]}]

(* What follows from seed along the listed parents.                         *)
Descend(seed, s) ==
    {p \in listed[s] :
        \A S \in SUBSET listed[s] :
            seed \subseteq S /\ (\A e \in link[s] : e[1] \in S => e[2] \in S)
            => p \in S}

(* Mutant: only what the tracker knows already, and its children.           *)
Tree_Unmarked(s) == Descend(listed[s] \cap tracked, s)

(* Processes that are still there show their marker; they, and those in the *)
(* tracker, lead to their children.                                         *)
Tree(s) == Descend(listed[s] \cap (tracked \cup (alive \cap Marked)), s)

ReadEnvironments(s) ==
    /\ s \in scanning
    /\ scanning' = scanning \ {s}
    /\ tracked' = tracked \cup Tree(s)
    /\ listed' = [listed EXCEPT ![s] = {}]
    /\ link' = [link EXCEPT ![s] = {}]

SamplerLists ==
    /\ pc \notin {"done", "failed"}
    /\ List("sampler")
    /\ UNCHANGED <<pc, procVars, loopVars, tracked, remaining>>

SamplerRecords ==
    /\ ReadEnvironments("sampler")
    /\ UNCHANGED <<pc, procVars, loopVars, remaining>>

Sampler == SamplerLists \/ SamplerRecords
---------------------------------------------------------------------------
(* record_telemetry_processes: whoever has a start record and still runs.   *)
RecordTelemetry ==
    /\ pc = "running"
    /\ \E started \in SUBSET alive : tracked' = tracked \cup started
    /\ pc' = "recorded"
    /\ UNCHANGED <<procVars, scanVars, loopVars, remaining>>

(* settle_tracked_processes is called; generations are counted from here.   *)
Begin ==
    /\ pc = "recorded"
    /\ known' = tracked
    /\ gen' = [p \in Procs |-> 0]
    /\ pc' = "list"
    /\ UNCHANGED <<alive, born, parent, scanVars, empty_checks, expired,
                   forced, tracked, remaining>>

(* The deadline of the loop settling is in: grace, then one second.         *)
Timer ==
    /\ pc \in {"list", "read", "check", "relist", "reread", "recheck"}
    /\ ~expired
    /\ expired' = TRUE
    /\ UNCHANGED <<pc, procVars, scanVars, known, empty_checks, forced, tracked,
                   remaining>>

(* refresh_and_alive, in the grace loop and in the loop after SIGKILL.      *)
ListTree ==
    /\ \/ pc = "list" /\ pc' = "read"
       \/ pc = "relist" /\ pc' = "reread"
    /\ List("settle")
    /\ UNCHANGED <<procVars, loopVars, tracked, remaining>>

(* Mutant: identities from telemetry are not looked at again.               *)
ReadTree_MarkedOnly ==
    /\ \/ pc = "read" /\ pc' = "check"
       \/ pc = "reread" /\ pc' = "recheck"
    /\ ReadEnvironments("settle")
    /\ remaining' = listed["settle"] \cap alive \cap Marked
    /\ UNCHANGED <<procVars, loopVars>>

ReadTree ==
    /\ \/ pc = "read" /\ pc' = "check"
       \/ pc = "reread" /\ pc' = "recheck"
    /\ ReadEnvironments("settle")
    /\ remaining' = tracked' \cap listed["settle"]
    /\ UNCHANGED <<procVars, loopVars>>

Refused == remaining \cap alive \cap Foreign # {}

(* Mutants: no deadline while something is left; a reset gone wrong.        *)
CheckNonEmpty_Patient ==
    /\ pc = "check" /\ remaining # {} /\ ~Refused
    /\ empty_checks' = 0 /\ pc' = "list"
    /\ UNCHANGED <<procVars, scanVars, known, expired, forced, tracked, remaining>>

CheckNonEmpty_Decrement ==
    /\ pc = "check" /\ ~expired /\ remaining # {} /\ ~Refused
    /\ empty_checks' = empty_checks - 1 /\ pc' = "list"
    /\ UNCHANGED <<procVars, scanVars, known, expired, forced, tracked, remaining>>

(* The grace loop, before its deadline: SIGINT, then count and scan again.  *)
CheckNonEmpty ==
    /\ pc = "check" /\ ~expired /\ remaining # {} /\ ~Refused
    /\ empty_checks' = 0 /\ pc' = "list"
    /\ UNCHANGED <<procVars, scanVars, known, expired, forced, tracked, remaining>>

(* Mutant: one check too few.                                               *)
CheckEmpty_Early ==
    /\ pc = "check" /\ ~expired /\ remaining = {}
    /\ empty_checks' = empty_checks + 1
    /\ pc' = IF empty_checks' + 1 >= EmptyChecks THEN "done" ELSE "list"
    /\ UNCHANGED <<procVars, scanVars, known, expired, forced, tracked, remaining>>

CheckEmpty ==
    /\ pc = "check" /\ ~expired /\ remaining = {}
    /\ empty_checks' = empty_checks + 1
    /\ pc' = IF empty_checks' >= EmptyChecks THEN "done" ELSE "list"
    /\ UNCHANGED <<procVars, scanVars, known, expired, forced, tracked, remaining>>

CheckRefused ==
    /\ pc = "check" /\ ~expired /\ Refused
    /\ pc' = "failed"
    /\ UNCHANGED <<procVars, scanVars, loopVars, tracked, remaining>>

(* At its deadline: what the last scan saw decides.                         *)
Deadline ==
    /\ pc = "check" /\ expired
    /\ forced' = (remaining # {})
    /\ pc' = IF remaining = {} THEN "done" ELSE "kill"
    /\ UNCHANGED <<procVars, scanVars, known, empty_checks, expired, tracked,
                   remaining>>

(* SIGKILL, one process after the other.                                    *)
KillOne ==
    /\ pc = "kill"
    /\ \E p \in remaining :
          IF p \in alive \cap Foreign
          THEN pc' = "failed" /\ UNCHANGED <<alive, remaining>>
          ELSE /\ alive' = alive \ {p} /\ remaining' = remaining \ {p}
               /\ UNCHANGED pc
    /\ UNCHANGED <<born, parent, gen, scanVars, loopVars, tracked>>

AllKilled ==
    /\ pc = "kill" /\ remaining = {}
    /\ expired' = FALSE /\ pc' = "relist"
    /\ UNCHANGED <<procVars, scanVars, known, empty_checks, forced, tracked,
                   remaining>>

(* Up to a second for the killed to vanish: scans, but no more signals.     *)
Recheck ==
    /\ pc = "recheck"
    /\ pc' = IF remaining = {} \/ expired THEN "done" ELSE "relist"
    /\ UNCHANGED <<procVars, scanVars, loopVars, tracked, remaining>>

Settle ==
    \/ RecordTelemetry \/ Begin \/ ListTree \/ ReadTree
    \/ CheckNonEmpty \/ CheckEmpty \/ CheckRefused \/ Deadline
    \/ KillOne \/ AllKilled \/ Recheck

Next == Processes \/ Sampler \/ Settle \/ Timer

Spec == Init /\ [][Next]_vars

(* The settling task is polled and its timers fire; the processes need not  *)
(* do anything.                                                              *)
FairSpec == Spec /\ WF_vars(Settle) /\ WF_vars(Timer)
---------------------------------------------------------------------------
TypeOK ==
    /\ pc \in {"running", "recorded", "list", "read", "check", "kill", "relist",
               "reread", "recheck", "done", "failed"}
    /\ alive \subseteq born /\ born \subseteq Procs
    /\ parent \in [Procs -> Procs \cup {Root}]
    /\ gen \in [Procs -> Nat]
    /\ scanning \subseteq Scanners
    /\ listed \in [Scanners -> SUBSET Procs]
    /\ link \in [Scanners -> SUBSET (Procs \X Procs)]
    /\ tracked \subseteq Procs /\ known \subseteq Procs /\ remaining \subseteq Procs
    /\ empty_checks \in Nat
    /\ expired \in BOOLEAN /\ forced \in BOOLEAN

(* settle_tracked_processes returns Ok only when every process that was     *)
(* running with the marker when it was called is gone, forced or not.       *)
NoElderSurvives ==
    pc = "done" => \A p \in alive \cap Marked : gen[p] >= 1

(* ... and every process the tracker knew then, whatever its environment:   *)
(* this is what record_telemetry_processes is called for.                   *)
KnownSettled == pc = "done" => alive \cap known = {}

(* Without force, and not cut short by its deadline, the loop is evaded     *)
(* only by a family that forked and exited inside each of the last          *)
(* EmptyChecks scans, one generation in each.                               *)
EmptyChecksEarnt ==
    pc = "done" /\ ~forced /\ ~expired =>
        \A p \in alive \cap Marked : gen[p] >= EmptyChecks

(* Settling ends, also when every process ignores SIGINT and keeps forking. *)
SettleEnds == pc = "list" ~> pc \in {"done", "failed"}
===========================================================================
