--------------------------- MODULE RunLifecycle ---------------------------
(* One launch of `v8scope <mode> -- node ...`: run::execute, the processes  *)
(* it starts (the target and its descendants, the --on-ready shell and its  *)
(* descendants), the tasks it spawns (sampler, workload) and the manifest   *)
(* it leaves on disk.                                                        *)
(*                                                                           *)
(* A scan of the process table is one step here; ProcessSettle opens it up,  *)
(* and shows which processes a scan may miss: here they are Evasive.         *)
(* SIGINT has no effect of its own: every process may leave, or ignore it.  *)
EXTENDS Naturals, FiniteSets

CONSTANTS
    Root,           \* the target launched by execute
    Kids,           \* descendants of the target
    Shell,          \* the --on-ready shell
    Helpers,        \* descendants of the shell
    Detached,       \* descendants that leave for a process group of their own
    Evasive,        \* of these, the ones no scan of the process table catches
    Probed,         \* processes of the target that run Node.js with its options
    ExitCodes       \* codes with which the target may exit by itself

Target == {Root} \cup Kids
Workers == {Shell} \cup Helpers
Procs == Target \cup Workers

Signal == 256       \* in the place of an exit code: ended by a signal
Unknown == 257      \* the target has not ended

ASSUME ProcessAssumption ==
    /\ Root \notin Kids /\ Shell \notin Helpers
    /\ Target \cap Workers = {}
    /\ Detached \subseteq Kids \cup Helpers
    /\ Evasive \subseteq Detached
    /\ Probed \subseteq Target
ASSUME CodeAssumption == ExitCodes \subseteq 0..255

VARIABLES
    opts,           \* what the command line asked for
    phase,          \* where execute is
    alive, born,    \* processes running now; processes that ever ran
    rootStatus,     \* the exit status of the target
    started, finished, \* isolates' records in telemetry.ndjson, by process
    profiled,       \* a profile has been written to profiles/
    ctrlC,          \* the user pressed Ctrl+C while execute listened
    end,            \* the branch of select! that was taken
    error,          \* workload_error is Some
    forced,         \* forced_stop
    remaining,      \* what settle_tracked_processes saw at its deadline
    wl,             \* where the workload task is
    result,         \* what the workload task sent
    wlRemaining,    \* as remaining, for the settling of the shell's tree
    sampler,        \* sample_tree is running
    disk,           \* the stage of manifest.json on disk
    partial,        \* manifest.completeness.partial
    inventory,      \* telemetry.ndjson as hashed into manifest.files
    code            \* what execute returned

procVars == <<alive, born, rootStatus>>
fileVars == <<started, finished, profiled>>
wlVars == <<wl, result, wlRemaining>>
mainVars == <<phase, ctrlC, end, error, forced, remaining, sampler>>
diskVars == <<disk, partial, inventory, code>>
vars == <<opts, procVars, fileVars, wlVars, mainVars, diskVars>>
---------------------------------------------------------------------------
(* Options that clap and validate_args let through: --on-ready and          *)
(* --load-url require --ready-url.  profile: the mode has a collector        *)
(* besides telemetry.                                                        *)
Options ==
    {o \in [workload : BOOLEAN, onReady : BOOLEAN, load : BOOLEAN,
            duration : BOOLEAN, profile : BOOLEAN] :
        (o.onReady \/ o.load) => o.workload}

TargetGroup == Target \ Detached
ShellGroup == Workers \ Detached
ShellStages == {"shell", "shell_settle", "shell_kill"}
Stopped == phase \in {"returned", "crashed"}

Init ==
    /\ opts \in Options
    /\ phase = "setup"
    /\ alive = {} /\ born = {} /\ rootStatus = Unknown
    /\ started = {} /\ finished = {} /\ profiled = FALSE
    /\ ctrlC = FALSE /\ end = "none" /\ error = FALSE
    /\ forced = FALSE /\ remaining = {} /\ sampler = FALSE
    /\ wl = "idle" /\ result = "none" /\ wlRemaining = {}
    /\ disk = "none" /\ partial = FALSE /\ inventory = <<{}, {}>> /\ code = 0

Start(p) ==
    /\ born' = born \cup {p}
    /\ alive' = alive \cup {p}
    /\ UNCHANGED rootStatus

Kill(S) ==
    /\ alive' = alive \ S
    /\ rootStatus' = IF Root \in S \cap alive THEN Signal ELSE rootStatus
    /\ UNCHANGED born
---------------------------------------------------------------------------
(* The processes.                                                            *)

(* A process starts another one, which inherits its group, if it does not   *)
(* detach, and the token by which scans know the family, if it has one.     *)
Fork(p, c) ==
    /\ p \in alive /\ c \notin born
    /\ \/ p \in Target /\ c \in Kids
       \/ p \in Workers /\ c \in Helpers
    /\ p \in Detached => c \in Detached
    /\ p \in Evasive => c \in Evasive
    /\ Start(c)
    /\ UNCHANGED <<opts, fileVars, wlVars, mainVars, diskVars>>

(* A process that loads the probe writes its start record; a write may fail  *)
(* without a word, and then there is no such step.                           *)
EmitStart(p) ==
    /\ p \in alive \cap Probed /\ p \notin started \cup finished
    /\ started' = started \cup {p}
    /\ UNCHANGED <<opts, procVars, finished, profiled, wlVars, mainVars, diskVars>>

(* On exit, or on a signal, it writes its finish record, whatever became of *)
(* the first one.                                                            *)
EmitFinish(p) ==
    /\ p \in alive \cap Probed /\ p \notin finished
    /\ finished' = finished \cup {p}
    /\ UNCHANGED <<opts, procVars, started, profiled, wlVars, mainVars, diskVars>>

(* A process ends, in order or not; V8 writes its profile on the way out.   *)
Exit(p) ==
    /\ p \in alive
    /\ alive' = alive \ {p}
    /\ IF p = Root THEN rootStatus' \in ExitCodes \cup {Signal}
                   ELSE UNCHANGED rootStatus
    /\ \/ UNCHANGED profiled
       \/ p \in Probed /\ profiled' = TRUE
    /\ UNCHANGED <<opts, born, started, finished, wlVars, mainVars, diskVars>>

Processes ==
    \/ \E p, c \in Procs : Fork(p, c)
    \/ \E p \in Procs : EmitStart(p) \/ EmitFinish(p) \/ Exit(p)
---------------------------------------------------------------------------
(* The workload task: run_workload and what it calls.                       *)

(* It sends its result and ends.                                             *)
WorkloadEnds(r) == wl' = "done" /\ result' = r

AfterShell == IF opts.load THEN wl' = "load" /\ UNCHANGED result
                           ELSE WorkloadEnds("ok")

(* wait_until_ready sees a success or a redirection, or gives up after      *)
(* READY_TIMEOUT.                                                            *)
TargetReady ==
    /\ wl = "ready"
    /\ IF opts.onReady THEN wl' = "spawn_shell" /\ UNCHANGED result
                       ELSE AfterShell
    /\ UNCHANGED <<opts, procVars, fileVars, wlRemaining, mainVars, diskVars>>

ReadyTimeout ==
    /\ wl = "ready"
    /\ WorkloadEnds("err")
    /\ UNCHANGED <<opts, procVars, fileVars, wlRemaining, mainVars, diskVars>>

SpawnShell ==
    /\ wl = "spawn_shell"
    /\ \/ Start(Shell) /\ wl' = "shell" /\ UNCHANGED result
       \/ WorkloadEnds("err") /\ UNCHANGED procVars
    /\ UNCHANGED <<opts, fileVars, wlRemaining, mainVars, diskVars>>

(* Mutant: what the shell leaves behind is not settled.                     *)
ShellExited_Unsettled ==
    /\ wl = "shell" /\ Shell \notin alive
    /\ Kill(ShellGroup)
    /\ AfterShell
    /\ UNCHANGED <<opts, fileVars, wlRemaining, mainVars, diskVars>>

(* child.wait returned: start_kill kills what is left of the shell's group. *)
ShellExited ==
    /\ wl = "shell" /\ Shell \notin alive
    /\ Kill(ShellGroup)
    /\ wl' = "shell_settle"
    /\ UNCHANGED <<opts, result, fileVars, wlRemaining, mainVars, diskVars>>

(* The shell's exit status decides between an error and the next stage.     *)
ShellConcludes == WorkloadEnds("err") \/ AfterShell

Seen(S) == (alive \cap S) \ Evasive

(* settle_tracked_processes(250 ms) sees the shell's tree empty, reaches its *)
(* deadline with some of it left, or is refused a signal.                    *)
ShellSettled ==
    /\ wl = "shell_settle" /\ Seen(Helpers) = {}
    /\ ShellConcludes
    /\ UNCHANGED <<opts, procVars, fileVars, wlRemaining, mainVars, diskVars>>

ShellDeadline ==
    /\ wl = "shell_settle" /\ Seen(Helpers) # {}
    /\ wlRemaining' = Seen(Helpers)
    /\ \/ wl' = "shell_kill" /\ UNCHANGED result
       \/ WorkloadEnds("err")
    /\ UNCHANGED <<opts, procVars, fileVars, mainVars, diskVars>>

(* SIGKILL for what was seen; whether that was needed is not reported.       *)
ShellKill ==
    /\ wl = "shell_kill"
    /\ Kill(wlRemaining)
    /\ ShellConcludes
    /\ UNCHANGED <<opts, fileVars, wlRemaining, mainVars, diskVars>>

(* run_goose: bounded by --load-duration.                                   *)
LoadEnds ==
    /\ wl = "load"
    /\ WorkloadEnds("ok") \/ WorkloadEnds("err")
    /\ UNCHANGED <<opts, procVars, fileVars, wlRemaining, mainVars, diskVars>>

(* Dropping the task, by a cancellation or a panic, drops ShellGroupGuard,  *)
(* which kills the shell's group.                                            *)
(* Mutant: run_shell without its guard.                                      *)
GuardedBy_Nothing(stage) == {}

GuardedBy(stage) == IF stage \in ShellStages THEN ShellGroup ELSE {}

(* Something in the task panics: it unwinds, and its sender is dropped       *)
(* without a result.  Nothing makes this happen, and nothing rules it out.  *)
WorkloadPanics ==
    /\ wl \notin {"idle", "done", "panicked", "aborted"}
    /\ Kill(GuardedBy(wl))
    /\ wl' = "panicked" /\ result' = "lost"
    /\ UNCHANGED <<opts, fileVars, wlRemaining, mainVars, diskVars>>

Workload ==
    \/ TargetReady \/ ReadyTimeout \/ SpawnShell \/ ShellExited
    \/ ShellSettled \/ ShellDeadline \/ ShellKill \/ LoadEnds
---------------------------------------------------------------------------
(* execute, up to the end of the profiled window.                            *)

(* Mutant: the first manifest is left to the write after spawn.             *)
CreateManifest_Late ==
    /\ phase = "setup"
    /\ phase' = "spawn"
    /\ UNCHANGED <<opts, procVars, fileVars, wlVars, ctrlC, end, error, forced,
                   remaining, sampler, diskVars>>

CreateManifest ==
    /\ phase = "setup"
    /\ disk' = "created" /\ phase' = "spawn"
    /\ UNCHANGED <<opts, procVars, fileVars, wlVars, ctrlC, end, error, forced,
                   remaining, sampler, partial, inventory, code>>

Spawn ==
    /\ phase = "spawn"
    /\ Start(Root)
    /\ phase' = "record_launch"
    /\ UNCHANGED <<opts, fileVars, wlVars, ctrlC, end, error, forced,
                   remaining, sampler, diskVars>>

(* The manifest gets the root's PID; the sampler and the workload start.    *)
RecordLaunch ==
    /\ phase = "record_launch"
    /\ disk' = "launched" /\ phase' = "select"
    /\ sampler' = TRUE
    /\ wl' = IF opts.workload THEN "ready" ELSE "idle"
    /\ UNCHANGED <<opts, procVars, fileVars, result, wlRemaining, ctrlC, end,
                   error, forced, remaining, partial, inventory, code>>

UserInterrupt ==
    /\ phase = "select" /\ ~ctrlC
    /\ ctrlC' = TRUE
    /\ UNCHANGED <<opts, procVars, fileVars, wlVars, phase, end, error, forced,
                   remaining, sampler, diskVars>>

(* The biased select!: each branch is polled only when those before it are  *)
(* not ready.                                                                *)
End(branch, failed, next) ==
    /\ phase = "select"
    /\ end' = branch /\ error' = failed /\ phase' = next
    /\ UNCHANGED <<opts, procVars, fileVars, wlVars, ctrlC, forced, remaining,
                   sampler, diskVars>>

EndExited == Root \notin alive /\ End("exited", opts.workload, "settle_group")

EndInterrupted ==
    Root \in alive /\ ctrlC /\ End("interrupted", FALSE, "stop_child")

(* The channel yields the result, or, closed without one, None: which        *)
(* unwrap_or_else takes for Ok(()).                                          *)
EndWorkload ==
    /\ Root \in alive /\ ~ctrlC /\ result # "none"
    /\ End("workload", result = "err", "stop_child")

(* Mutants: an unfinished workload is no error; no bound on the wait for the *)
(* probe.                                                                    *)
EndDuration_WorkloadIgnored ==
    /\ Root \in alive /\ ~ctrlC /\ result = "none" /\ opts.duration
    /\ End("duration", started = {}, "stop_child")

EndDuration_Unbounded ==
    /\ Root \in alive /\ ~ctrlC /\ result = "none" /\ opts.duration
    /\ started # {}
    /\ End("duration", opts.workload, "stop_child")

(* wait_for_probe_start gave up, or the duration elapsed after it.          *)
EndDuration ==
    /\ Root \in alive /\ ~ctrlC /\ result = "none" /\ opts.duration
    /\ End("duration", started = {} \/ opts.workload, "stop_child")

Select == EndExited \/ EndInterrupted \/ EndWorkload \/ EndDuration
---------------------------------------------------------------------------
(* execute, stopping.                                                        *)

mainRest == <<opts, fileVars, ctrlC, end, error, diskVars>>

(* stop_child: the target left within GRACEFUL_STOP_TIMEOUT of SIGINT.      *)
ChildLeft ==
    /\ phase = "stop_child" /\ Root \notin alive
    /\ phase' = "settle_group"
    /\ UNCHANGED <<mainRest, procVars, wlVars, forced, remaining, sampler>>

(* Mutant: child.wait without a timeout.                                    *)
StopTimeout_Never ==
    /\ phase = "stop_child" /\ Root \in alive
    /\ UNCHANGED vars

StopTimeout ==
    /\ phase = "stop_child" /\ Root \in alive
    /\ Kill(TargetGroup)
    /\ forced' = TRUE /\ phase' = "settle_group"
    /\ UNCHANGED <<mainRest, wlVars, remaining, sampler>>

(* settle_group: nobody is left in the target's group, or its deadline.     *)
GroupGone ==
    /\ phase = "settle_group" /\ alive \cap TargetGroup = {}
    /\ phase' = "abort_workload"
    /\ UNCHANGED <<mainRest, procVars, wlVars, forced, remaining, sampler>>

GroupTimeout ==
    /\ phase = "settle_group" /\ alive \cap TargetGroup # {}
    /\ Kill(TargetGroup)
    /\ forced' = TRUE /\ phase' = "abort_workload"
    /\ UNCHANGED <<mainRest, wlVars, remaining, sampler>>

(* The task is dropped where it stands.                                      *)
CancelWorkload ==
    /\ wl' = IF wl \in {"idle", "done", "panicked"} THEN wl ELSE "aborted"
    /\ UNCHANGED <<result, wlRemaining>>

(* Mutant: execute forgets the tracked tree.                                 *)
AbortWorkload_Unsettled ==
    /\ phase = "abort_workload"
    /\ CancelWorkload
    /\ Kill(IF wl \in ShellStages THEN ShellGroup ELSE {})
    /\ phase' = "stop_sampler"
    /\ UNCHANGED <<mainRest, forced, remaining, sampler>>

AbortWorkload ==
    /\ phase = "abort_workload"
    /\ CancelWorkload
    /\ Kill(GuardedBy(wl))
    /\ phase' = "settle_tracked"
    /\ UNCHANGED <<mainRest, forced, remaining, sampler>>

(* settle_tracked_processes(GRACEFUL_STOP_TIMEOUT), as for the shell.       *)
TreeSettled ==
    /\ phase = "settle_tracked" /\ Seen(Kids) = {}
    /\ phase' = "stop_sampler"
    /\ UNCHANGED <<mainRest, procVars, wlVars, forced, remaining, sampler>>

(* Mutant: `forced_stop |=` is missing.                                      *)
TreeDeadline_Unforced ==
    /\ phase = "settle_tracked" /\ Seen(Kids) # {}
    /\ remaining' = Seen(Kids)
    /\ phase' = "kill_tracked"
    /\ UNCHANGED <<mainRest, procVars, wlVars, forced, sampler>>

TreeDeadline ==
    /\ phase = "settle_tracked" /\ Seen(Kids) # {}
    /\ remaining' = Seen(Kids)
    /\ forced' = TRUE /\ phase' = "kill_tracked"
    /\ UNCHANGED <<mainRest, procVars, wlVars, sampler>>

KillTracked ==
    /\ phase = "kill_tracked"
    /\ Kill(remaining)
    /\ phase' = "stop_sampler"
    /\ UNCHANGED <<mainRest, wlVars, forced, remaining, sampler>>

StopSampler ==
    /\ phase = "stop_sampler"
    /\ sampler' = FALSE /\ phase' = "write_finished"
    /\ UNCHANGED <<mainRest, procVars, wlVars, forced, remaining>>

Stopping ==
    \/ ChildLeft \/ StopTimeout \/ GroupGone \/ GroupTimeout \/ AbortWorkload
    \/ TreeSettled \/ TreeDeadline \/ KillTracked \/ StopSampler
---------------------------------------------------------------------------
(* execute, reporting.                                                       *)

reportRest == <<opts, procVars, fileVars, wlVars, ctrlC, end, error, forced,
                remaining, sampler>>

WriteFinished ==
    /\ phase = "write_finished"
    /\ partial' = (partial \/ forced \/ error)
    /\ disk' = "finished" /\ phase' = "reanalyze"
    /\ UNCHANGED <<reportRest, inventory, code>>

(* An analysis that fails makes the run partial, and is not fatal.          *)
Reanalyze ==
    /\ phase = "reanalyze"
    /\ partial' \in {partial, TRUE}
    /\ phase' = "finalize"
    /\ UNCHANGED <<reportRest, disk, inventory, code>>

(* Mutant: one finish record is enough.                                     *)
TelemetryComplete_Some == started # {} /\ finished # {}

TelemetryComplete == started # {} /\ started = finished

(* finalize_manifest looks at telemetry.ndjson, then at the profiles, then   *)
(* hashes what there is, and then writes: a process that still runs may      *)
(* write, too, between any two of these.                                     *)
(* Mutant: partial is computed afresh.                                      *)
CheckTelemetry_Afresh ==
    /\ phase = "finalize"
    /\ partial' = ~TelemetryComplete
    /\ phase' = "check_profiles"
    /\ UNCHANGED <<reportRest, disk, inventory, code>>

CheckTelemetry ==
    /\ phase = "finalize"
    /\ partial' = (partial \/ ~TelemetryComplete)
    /\ phase' = "check_profiles"
    /\ UNCHANGED <<reportRest, disk, inventory, code>>

CheckProfiles ==
    /\ phase = "check_profiles"
    /\ partial' = (partial \/ (opts.profile /\ ~profiled))
    /\ phase' = "hash"
    /\ UNCHANGED <<reportRest, disk, inventory, code>>

HashFiles ==
    /\ phase = "hash"
    /\ inventory' = <<started, finished>>
    /\ phase' = "write_final"
    /\ UNCHANGED <<reportRest, disk, partial, code>>

WriteFinal ==
    /\ phase = "write_final"
    /\ disk' = "final" /\ phase' = "open"
    /\ UNCHANGED <<reportRest, partial, inventory, code>>

(* Mutant: a target ended by a signal returns its raw status.               *)
ExitCode_Raw == rootStatus

ExitCode ==
    IF rootStatus \in 0..255 THEN rootStatus
    ELSE IF end # "exited" THEN 130 ELSE 1

RequestedCode ==
    CASE end = "interrupted" -> 130
      [] end \in {"duration", "workload"} -> 0
      [] OTHER -> ExitCode

(* Mutant: a partial run returns the code that was asked for.               *)
Return_Partial ==
    /\ phase = "open"
    /\ code' = IF error THEN 70 ELSE RequestedCode
    /\ phase' = "returned"
    /\ UNCHANGED <<reportRest, disk, partial, inventory>>

Return ==
    /\ phase = "open"
    /\ code' = IF error \/ partial THEN 70 ELSE RequestedCode
    /\ phase' = "returned"
    /\ UNCHANGED <<reportRest, disk, partial, inventory>>

Reporting ==
    \/ WriteFinished \/ Reanalyze
    \/ CheckTelemetry \/ CheckProfiles \/ HashFiles \/ WriteFinal
    \/ Return
---------------------------------------------------------------------------
(* Any `?` on the way: main reports 70; dropping the child kills the target  *)
(* (KillOnDrop), dropping the workload task kills the shell's group.         *)
Fail ==
    /\ ~Stopped /\ phase # "reanalyze"
    /\ phase' = "returned" /\ code' = 70
    /\ CancelWorkload
    /\ Kill({Root} \cup GuardedBy(wl))
    /\ sampler' = FALSE
    /\ UNCHANGED <<opts, fileVars, ctrlC, end, error, forced, remaining, disk,
                   partial, inventory>>

(* v8scope itself is killed: nothing is dropped, every process runs on.     *)
Crash ==
    /\ ~Stopped
    /\ phase' = "crashed"
    /\ CancelWorkload
    /\ sampler' = FALSE
    /\ UNCHANGED <<opts, procVars, fileVars, ctrlC, end, error, forced,
                   remaining, diskVars>>

Main ==
    \/ CreateManifest \/ Spawn \/ RecordLaunch
    \/ Select \/ Stopping \/ Reporting

Next ==
    \/ Processes \/ Workload \/ WorkloadPanics \/ Main
    \/ UserInterrupt \/ Fail \/ Crash

Spec == Init /\ [][Next]_vars

(* tokio keeps polling execute and the workload task, and their timers fire. *)
(* Nothing is assumed of the processes, not even that they obey SIGINT.      *)
Fairness == WF_vars(Main) /\ WF_vars(Workload)
FairSpec == Spec /\ Fairness
---------------------------------------------------------------------------
TypeOK ==
    /\ opts \in Options
    /\ phase \in {"setup", "spawn", "record_launch", "select", "stop_child",
                  "settle_group", "abort_workload", "settle_tracked",
                  "kill_tracked", "stop_sampler", "write_finished", "reanalyze",
                  "finalize", "check_profiles", "hash", "write_final", "open",
                  "returned", "crashed"}
    /\ alive \subseteq born /\ born \subseteq Procs
    /\ rootStatus \in 0..257
    /\ started \cup finished \subseteq born \cap Target
    /\ profiled \in BOOLEAN
    /\ ctrlC \in BOOLEAN
    /\ end \in {"none", "exited", "interrupted", "duration", "workload"}
    /\ error \in BOOLEAN /\ forced \in BOOLEAN /\ sampler \in BOOLEAN
    /\ remaining \subseteq Kids /\ wlRemaining \subseteq Helpers
    /\ wl \in {"idle", "ready", "spawn_shell", "shell", "shell_settle",
               "shell_kill", "load", "done", "panicked", "aborted"}
    /\ result \in {"none", "ok", "err", "lost"}
    /\ disk \in {"none", "created", "launched", "finished", "final"}
    /\ partial \in BOOLEAN
    /\ inventory \in (SUBSET Target) \X (SUBSET Target)
    /\ code \in 0..255

CompleteRun == disk = "final" /\ ~partial

(* A manifest that claims a complete run describes a target that is gone:   *)
(* no descendant, in whichever group, runs on unless every scan missed it.  *)
(* (execute settles the group and the tracked tree before finalize_manifest, *)
(* and a stop that was forced makes the run partial.)                        *)
CompleteRunContained == CompleteRun => alive \cap Target \subseteq Evasive

(* ... and its inventory stays true.  Of the processes that a scan can catch *)
(* it has every record there is and ever will be, a finish for each start.  *)
(* One that every scan missed runs on: it may write between the integrity   *)
(* check and the hashing, and then a complete inventory holds its start     *)
(* without its finish.                                                       *)
SealedTelemetry ==
    CompleteRun => /\ inventory[1] # {}
                   /\ inventory[1] \ Evasive = inventory[2] \ Evasive
                   /\ started \ Evasive = inventory[1] \ Evasive
                   /\ finished \ Evasive = inventory[2] \ Evasive
                   /\ inventory[1] \subseteq started /\ inventory[2] \subseteq finished

(* An exit code other than 70 (and 1 or the target's own code among them)   *)
(* is returned only over a sealed, complete manifest, after a workload that *)
(* was asked for had succeeded, or the user gave up on it, or it had         *)
(* panicked: run.rs:182 takes a task that sent nothing for one that          *)
(* succeeded, and the code returned is then 0.                               *)
ExitCodeBacked ==
    phase = "returned" /\ code # 70 =>
        /\ CompleteRun
        /\ opts.workload => \/ result = "ok"
                            \/ end = "interrupted"
                            \/ wl = "panicked" /\ end = "workload" /\ code = 0

(* Once the manifest is final no task of v8scope writes into the run        *)
(* directory any more, and neither does any process of the shell's group,   *)
(* however the run ended.                                                    *)
NoWriterAfterFinal ==
    disk = "final" =>
        /\ ~sampler
        /\ wl \in {"idle", "done", "panicked", "aborted"}
        /\ alive \cap ShellGroup = {}

(* A detached helper that scans can see outlives the run only if the         *)
(* workload task was cancelled or panicked, or its settling ended at its     *)
(* deadline.                                                                 *)
HelperSurvivalExplained ==
    disk = "final" /\ Seen(Workers) # {} =>
        wl \in {"aborted", "panicked"} \/ wlRemaining # {}

(* Whatever fails, no process of the target runs without a manifest, and a  *)
(* manifest without its final inventory never goes with a success.          *)
ManifestBeforeTarget ==
    /\ born # {} => disk # "none"
    /\ phase = "returned" /\ disk # "final" => code = 70

Rank(stage) ==
    CASE stage = "none" -> 0 [] stage = "created" -> 1
      [] stage = "launched" -> 2 [] stage = "finished" -> 3
      [] stage = "final" -> 4

(* The manifest only moves forward, and partial, once set, is never taken   *)
(* back: neither a later analysis nor finalize_manifest clears it.           *)
ManifestForward ==
    [][Rank(disk') >= Rank(disk) /\ (partial => partial')]_vars

(* The final manifest is never rewritten, and nothing forked by the target  *)
(* changes telemetry.ndjson under a complete one unless every scan missed it. *)
SealedForGood ==
    [][CompleteRun => UNCHANGED <<disk, partial, inventory, started \ Evasive,
                                  finished \ Evasive>>]_vars

(* Once select! has taken a branch the run comes to an end, even if no      *)
(* process ever obeys a signal.                                             *)
StopTerminates == end # "none" ~> Stopped

(* A run that has a duration, or a workload without a shell command, is     *)
(* bounded: a target that never becomes ready or never exits cannot hold it. *)
BoundedRun ==
    opts.duration \/ (opts.workload /\ ~opts.onReady) => <>Stopped

(* A launch keeps RunContract, for the processes that scans can see.        *)
Manifest ==
    CASE disk = "none" -> "none"
      [] disk \in {"created", "launched", "finished"} -> "open"
      [] disk = "final" -> IF partial THEN "partial" ELSE "complete"

Outcome ==
    CASE phase = "crashed" -> "lost"
      [] phase = "returned" -> IF code = 70 THEN "failure" ELSE "success"
      [] OTHER -> "none"

Contract == INSTANCE RunContract WITH
    Processes <- Target \ Evasive, First <- Root,
    manifest <- Manifest, outcome <- Outcome,
    running <- (alive \cap Target) \ Evasive,
    unfinished <- (started \ finished) \ Evasive

(* What main returns and what the manifest says in the end are what the     *)
(* abstract launch allows: no success without a complete manifest, no       *)
(* complete manifest over running processes or unfinished telemetry, and    *)
(* neither taken back.                                                       *)
ImplementsContract == Contract!Spec

(* README.md:102 of the repository: workload processes and their            *)
(* descendants are contained and settled before artifact finalization.      *)
WorkloadSettledBeforeFinal == disk = "final" => alive \cap Workers = {}

(* docs/architecture.md:26: a five-second graceful window followed by       *)
(* contained-tree termination, whether or not the stop was forced.          *)
TreeTerminatedBeforeFinal == disk = "final" => alive \cap Target = {}
===========================================================================
