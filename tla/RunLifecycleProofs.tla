------------------------ MODULE RunLifecycleProofs ------------------------
(* What RunLifecycle guarantees for every set of processes, every choice of *)
(* the ones that detach, and every exit code of the target.                 *)
EXTENDS RunLifecycle, TLAPS

Early == {"setup", "spawn", "record_launch"}
Waited == {"settle_group", "abort_workload", "settle_tracked", "kill_tracked"}
Finalizing == {"check_profiles", "hash", "write_final"}
Written == {"reanalyze", "finalize", "open"} \cup Finalizing
Settled == {"stop_sampler", "write_finished"} \cup Written
Over == {"idle", "done", "panicked", "aborted"}

(* The stage of the manifest on disk follows the phase.                     *)
DiskStage ==
    /\ phase = "setup" => disk = "none"
    /\ phase \in {"spawn", "record_launch"} => disk = "created"
    /\ phase \in {"select", "stop_child", "stop_sampler", "write_finished"}
                 \cup Waited => disk = "launched"
    /\ phase \in {"reanalyze", "finalize"} \cup Finalizing => disk = "finished"
    /\ phase = "open" => disk = "final"
    /\ disk = "final" => phase \in {"open", "returned", "crashed"}
    /\ disk \in {"none", "created", "launched", "finished", "final"}

(* The target was reaped before its tree is settled; once settled without   *)
(* force the tree is empty but for what no scan sees, and stays so.          *)
TreeGone ==
    /\ phase \in Waited => Root \notin alive
    /\ phase = "kill_tracked" => forced
    /\ (phase \in Settled \/ disk = "final") /\ ~forced =>
          alive \cap Target \subseteq Evasive

(* A forced stop and a failed workload are in the manifest from the write   *)
(* that sets finished_at.                                                    *)
TroubleIsPartial ==
    (phase \in Written \/ disk = "final") /\ (forced \/ error) => partial

(* Once telemetry.ndjson was found complete, only a process that no scan    *)
(* catches adds to it; and what is hashed is what there is then.            *)
Inventoried ==
    /\ inventory[1] # {}
    /\ inventory[1] \ Evasive = inventory[2] \ Evasive
    /\ started \ Evasive = inventory[1] \ Evasive
    /\ finished \ Evasive = inventory[2] \ Evasive
    /\ inventory[1] \subseteq started /\ inventory[2] \subseteq finished

StaysComplete ==
    /\ phase \in Finalizing /\ ~partial =>
          started # {} /\ started \ Evasive = finished \ Evasive
    /\ (phase = "write_final" \/ disk = "final") /\ ~partial => Inventoried

(* The workload task sends at most one result, as its last step; or none,   *)
(* if it panics.                                                             *)
OneResult ==
    /\ result # "none" => wl \in {"done", "panicked"}
    /\ result = "lost" => wl = "panicked"
    /\ phase \in Early => wl = "idle" /\ result = "none"
    /\ disk = "none" => wl = "idle"

(* A branch of select! that records no error had a reason not to.           *)
EndExplained ==
    /\ phase \in {"stop_child"} \cup Waited \cup Settled => end # "none"
    /\ phase \in Early \cup {"select"} => end = "none"
    /\ end # "none" /\ ~error /\ opts.workload =>
          \/ result = "ok" \/ end = "interrupted"
          \/ wl = "panicked" /\ end = "workload"

(* The shell's group lives only while the task waits for the shell.         *)
ShellContained ==
    /\ (wl # "shell" /\ phase # "crashed") \/ disk = "final" =>
          alive \cap ShellGroup = {}
    /\ phase \in {"settle_tracked", "kill_tracked"} \cup Settled \/ disk = "final" =>
          wl \in Over
    /\ phase \in Settled \ {"stop_sampler"} \/ disk = "final" => ~sampler

IInv ==
    /\ TypeOK /\ DiskStage /\ TreeGone /\ TroubleIsPartial
    /\ OneResult /\ EndExplained /\ ShellContained
    /\ StaysComplete /\ ExitCodeBacked /\ ManifestBeforeTarget
---------------------------------------------------------------------------
(* The tuples and shorthands in which the actions are written.              *)
USE DEF procVars, fileVars, wlVars, mainVars, diskVars, mainRest, reportRest,
        Start, Kill, Seen, End, WorkloadEnds, AfterShell, ShellConcludes,
        CancelWorkload

(* Every step keeps the variables in their types.                           *)
LEMMA TypeStep == ASSUME TypeOK, [Next]_vars PROVE TypeOK'
<1> USE ProcessAssumption, CodeAssumption
    DEF TypeOK, Target, Workers, Procs, Signal, Unknown, Options
<1>1. CASE Processes
  <2>1. CASE \E p, c \in Procs : Fork(p, c)
    BY <2>1 DEF Fork
  <2>2. CASE \E p \in Procs : EmitStart(p)
    BY <2>2 DEF EmitStart
  <2>3. CASE \E p \in Procs : EmitFinish(p)
    BY <2>3 DEF EmitFinish
  <2>4. ASSUME NEW p \in Procs, Exit(p) PROVE TypeOK'
    <3>1. profiled' \in BOOLEAN
      BY <2>4, Zenon DEF Exit
    <3>2. rootStatus' \in 0..257
      <4>1. ExitCodes \cup {256} \subseteq 0..257
        BY CodeAssumption
      <4>2. CASE p = Root
        <5>1. rootStatus' \in ExitCodes \cup {256}
          BY <2>4, <4>2, Zenon DEF Exit
        <5> QED
          BY <4>1, <5>1
      <4>3. CASE p # Root
        BY <2>4, <4>3 DEF Exit
      <4> QED
        BY <4>2, <4>3
    <3> QED
      BY <2>4, <3>1, <3>2 DEF Exit
  <2> QED
    BY <1>1, <2>1, <2>2, <2>3, <2>4 DEF Processes
<1>2. CASE Workload
  BY <1>2 DEF Workload, TargetReady, ReadyTimeout, SpawnShell, ShellExited,
                   ShellSettled, ShellDeadline, ShellKill, LoadEnds
<1>3. CASE CreateManifest
  BY <1>3 DEF CreateManifest
<1>4. CASE Spawn
  BY <1>4 DEF Spawn
<1>5. CASE RecordLaunch
  BY <1>5 DEF RecordLaunch
<1>6. CASE UserInterrupt
  BY <1>6 DEF UserInterrupt
<1>7. CASE EndExited
  BY <1>7 DEF EndExited
<1>8. CASE EndInterrupted
  <2>1. error' \in BOOLEAN
    BY <1>8, Zenon DEF EndInterrupted
  <2> QED
    BY <1>8, <2>1 DEF EndInterrupted
<1>9. CASE EndWorkload
  BY <1>9 DEF EndWorkload
<1>10. CASE EndDuration
  BY <1>10 DEF EndDuration
<1>11. CASE ChildLeft
  BY <1>11 DEF ChildLeft
<1>12. CASE StopTimeout
  BY <1>12 DEF StopTimeout
<1>13. CASE GroupGone
  BY <1>13 DEF GroupGone
<1>14. CASE GroupTimeout
  BY <1>14 DEF GroupTimeout
<1>15. CASE AbortWorkload
  BY <1>15 DEF AbortWorkload
<1>16. CASE TreeSettled
  BY <1>16 DEF TreeSettled
<1>17. CASE TreeDeadline
  BY <1>17 DEF TreeDeadline
<1>18. CASE KillTracked
  BY <1>18 DEF KillTracked
<1>19. CASE StopSampler
  <2>1. sampler' \in BOOLEAN
    BY <1>19, Zenon DEF StopSampler
  <2> QED
    BY <1>19, <2>1 DEF StopSampler
<1>20. CASE WriteFinished
  BY <1>20 DEF WriteFinished
<1>21. CASE Reanalyze
  <2>1. partial' \in BOOLEAN
    BY <1>21, Zenon DEF Reanalyze
  <2> QED
    BY <1>21, <2>1 DEF Reanalyze
<1>22. CASE CheckTelemetry \/ CheckProfiles \/ HashFiles \/ WriteFinal
  <2>1. CASE CheckTelemetry
    <3>1. partial' \in BOOLEAN
      BY <2>1, Zenon DEF CheckTelemetry
    <3> QED
      BY <2>1, <3>1 DEF CheckTelemetry
  <2>2. CASE CheckProfiles
    <3>1. partial' \in BOOLEAN
      BY <2>2, Zenon DEF CheckProfiles
    <3> QED
      BY <2>2, <3>1 DEF CheckProfiles
  <2>3. CASE HashFiles
    BY <2>3 DEF HashFiles
  <2>4. CASE WriteFinal
    BY <2>4 DEF WriteFinal
  <2> QED
    BY <1>22, <2>1, <2>2, <2>3, <2>4
<1>23. CASE Return
  BY <1>23 DEF Return, RequestedCode, ExitCode
<1>24. CASE Fail
  <2>1. sampler' \in BOOLEAN
    BY <1>24, Zenon DEF Fail
  <2> QED
    BY <1>24, <2>1 DEF Fail
<1>25. CASE Crash
  <2>1. sampler' \in BOOLEAN
    BY <1>25, Zenon DEF Crash
  <2> QED
    BY <1>25, <2>1 DEF Crash
<1>26. CASE UNCHANGED vars
  BY <1>26 DEF vars
<1>27. CASE WorkloadPanics
  BY <1>27 DEF WorkloadPanics
<1> QED
  BY <1>1, <1>2, <1>3, <1>4, <1>5, <1>6, <1>7, <1>8, <1>9, <1>10, <1>11,
     <1>12, <1>13, <1>14, <1>15, <1>16, <1>17, <1>18, <1>19, <1>20, <1>21,
     <1>22, <1>23, <1>24, <1>25, <1>26, <1>27
  DEF Next, Main, Select, Stopping, Reporting

(* Every step keeps the rest of the invariant.                              *)
LEMMA SafetyStep ==
    ASSUME IInv, TypeOK', [Next]_vars
    PROVE  /\ DiskStage' /\ TreeGone' /\ TroubleIsPartial' /\ OneResult'
           /\ EndExplained' /\ ShellContained'
           /\ ExitCodeBacked' /\ ManifestBeforeTarget'
<1> USE ProcessAssumption, CodeAssumption
    DEF TypeOK, Target, Workers, Procs, Signal, Unknown, Options,
        IInv, DiskStage, TreeGone, TroubleIsPartial, OneResult, EndExplained,
        ShellContained, ExitCodeBacked, CompleteRun, ManifestBeforeTarget,
        Early, Waited, Settled, Written, Finalizing, Over,
        TargetGroup, ShellGroup, GuardedBy, ShellStages, Stopped
<1>1. CASE Processes
  <2>1. CASE \E p, c \in Procs : Fork(p, c)
    BY <2>1 DEF Fork
  <2>2. CASE \E p \in Procs : EmitStart(p)
    BY <2>2 DEF EmitStart
  <2>3. CASE \E p \in Procs : EmitFinish(p)
    BY <2>3 DEF EmitFinish
  <2>4. CASE \E p \in Procs : Exit(p)
    <3>1. /\ alive' \subseteq alive /\ profiled' \in BOOLEAN
          /\ UNCHANGED <<opts, born, started, finished, wlVars, mainVars, diskVars>>
      BY <2>4 DEF Exit
    <3> QED
      BY <3>1
  <2> QED
    BY <1>1, <2>1, <2>2, <2>3, <2>4 DEF Processes
<1>2. CASE Workload
  <2>1. CASE TargetReady
    BY <2>1 DEF TargetReady
  <2>2. CASE ReadyTimeout
    BY <2>2 DEF ReadyTimeout
  <2>3. CASE SpawnShell
    <3>1. disk # "final" /\ disk # "none" /\ phase \notin Settled
      BY <2>3 DEF SpawnShell
    <3>2. CASE wl' = "shell"
      BY <2>3, <3>1, <3>2 DEF SpawnShell
    <3>3. CASE wl' = "done"
      BY <2>3, <3>1, <3>3 DEF SpawnShell
    <3> QED
      BY <2>3, <3>2, <3>3 DEF SpawnShell
  <2>4. CASE ShellExited
    BY <2>4 DEF ShellExited
  <2>5. CASE ShellSettled
    BY <2>5 DEF ShellSettled
  <2>6. CASE ShellDeadline
    BY <2>6 DEF ShellDeadline
  <2>7. CASE ShellKill
    BY <2>7 DEF ShellKill
  <2>8. CASE LoadEnds
    BY <2>8 DEF LoadEnds
  <2> QED
    BY <1>2, <2>1, <2>2, <2>3, <2>4, <2>5, <2>6, <2>7, <2>8 DEF Workload
<1>3. CASE CreateManifest
  BY <1>3 DEF CreateManifest
<1>4. CASE Spawn
  BY <1>4 DEF Spawn
<1>5. CASE RecordLaunch
  BY <1>5 DEF RecordLaunch
<1>6. CASE UserInterrupt
  BY <1>6 DEF UserInterrupt
<1>7. CASE EndExited
  BY <1>7 DEF EndExited
<1>8. CASE EndInterrupted
  BY <1>8 DEF EndInterrupted
<1>9. CASE EndWorkload
  BY <1>9 DEF EndWorkload
<1>10. CASE EndDuration
  BY <1>10 DEF EndDuration
<1>11. CASE ChildLeft
  BY <1>11 DEF ChildLeft
<1>12. CASE StopTimeout
  BY <1>12 DEF StopTimeout
<1>13. CASE GroupGone
  BY <1>13 DEF GroupGone
<1>14. CASE GroupTimeout
  BY <1>14 DEF GroupTimeout
<1>15. CASE AbortWorkload
  BY <1>15 DEF AbortWorkload
<1>16. CASE TreeSettled
  BY <1>16 DEF TreeSettled
<1>17. CASE TreeDeadline
  BY <1>17 DEF TreeDeadline
<1>18. CASE KillTracked
  BY <1>18 DEF KillTracked
<1>19. CASE StopSampler
  BY <1>19 DEF StopSampler
<1>20. CASE WriteFinished
  BY <1>20 DEF WriteFinished
<1>21. CASE Reanalyze
  BY <1>21 DEF Reanalyze
<1>22. CASE CheckTelemetry \/ CheckProfiles \/ HashFiles \/ WriteFinal
  BY <1>22 DEF CheckTelemetry, CheckProfiles, HashFiles, WriteFinal
<1>23. CASE Return
  BY <1>23 DEF Return, RequestedCode, ExitCode
<1>24. CASE Fail
  BY <1>24 DEF Fail
<1>25. CASE Crash
  BY <1>25 DEF Crash
<1>26. CASE UNCHANGED vars
  BY <1>26 DEF vars
<1>27. CASE WorkloadPanics
  BY <1>27 DEF WorkloadPanics
<1> QED
  BY <1>1, <1>2, <1>3, <1>4, <1>5, <1>6, <1>7, <1>8, <1>9, <1>10, <1>11,
     <1>12, <1>13, <1>14, <1>15, <1>16, <1>17, <1>18, <1>19, <1>20, <1>21,
     <1>22, <1>23, <1>24, <1>25, <1>26, <1>27
  DEF Next, Main, Select, Stopping, Reporting

(* From the integrity check on, a run that is not partial has no process    *)
(* left that a scan catches, and so its records stay as they are.           *)
LEMMA CompleteStep ==
    ASSUME IInv, [Next]_vars
    PROVE  StaysComplete'
<1>0. \/ Processes \/ Workload \/ Select \/ Stopping \/ UNCHANGED vars
      \/ WorkloadPanics \/ UserInterrupt \/ Fail \/ Crash
      \/ CreateManifest \/ Spawn \/ RecordLaunch
      \/ WriteFinished \/ Reanalyze \/ CheckTelemetry \/ CheckProfiles
      \/ HashFiles \/ WriteFinal \/ Return
  BY DEF Next, Main, Reporting
<1>1. CASE \/ phase \notin Finalizing \cup {"finalize"} /\ disk # "final"
           \/ partial
  <2>1. ASSUME \/ Processes \/ Workload \/ UNCHANGED vars \/ WorkloadPanics
               \/ UserInterrupt \/ Select \/ Stopping
        PROVE  UNCHANGED <<disk, partial>> /\ (phase' = phase \/ phase' \notin Finalizing)
    BY <2>1
    DEF Finalizing, Processes, Workload, Select, Stopping, Fork, EmitStart, EmitFinish,
        Exit, TargetReady, ReadyTimeout, SpawnShell, ShellExited, ShellSettled,
        ShellDeadline, ShellKill, LoadEnds, WorkloadPanics, UserInterrupt, EndExited,
        EndInterrupted, EndWorkload, EndDuration, ChildLeft, StopTimeout, GroupGone,
        GroupTimeout, AbortWorkload, TreeSettled, TreeDeadline, KillTracked,
        StopSampler, vars
  <2>2. ASSUME Fail \/ Crash \/ CreateManifest \/ Spawn \/ RecordLaunch
               \/ WriteFinished \/ Reanalyze \/ Return
        PROVE  /\ (disk' = disk \/ disk' # "final") /\ phase' \notin Finalizing
               /\ partial => partial'
    <3>1. CASE Reanalyze
      <4>1. partial => partial'
        BY <3>1, Zenon DEF Reanalyze
      <4> QED
        BY <3>1, <4>1 DEF Reanalyze, Finalizing
    <3>2. CASE WriteFinished
      BY <3>2 DEF WriteFinished, Finalizing
    <3>3. CASE Fail \/ Crash \/ CreateManifest \/ Spawn \/ RecordLaunch \/ Return
      BY <3>3 DEF Fail, Crash, CreateManifest, Spawn, RecordLaunch, Return, Finalizing
    <3> QED
      BY <2>2, <3>1, <3>2, <3>3
  <2>3. ASSUME CheckTelemetry \/ CheckProfiles \/ HashFiles \/ WriteFinal
        PROVE  phase \in Finalizing \cup {"finalize"} /\ (partial => partial')
    <3>1. CASE CheckTelemetry
      BY <3>1 DEF CheckTelemetry
    <3>2. CASE CheckProfiles
      BY <3>2 DEF CheckProfiles, Finalizing
    <3>3. CASE HashFiles \/ WriteFinal
      BY <3>3 DEF HashFiles, WriteFinal, Finalizing
    <3> QED
      BY <2>3, <3>1, <3>2, <3>3
  <2>4. phase' \in Finalizing \/ disk' = "final" => partial'
    BY <1>0, <1>1, <2>1, <2>2, <2>3 DEF IInv, DiskStage, Finalizing
  <2> QED
    BY <2>4 DEF StaysComplete, Finalizing
<1>2. CASE (phase \in Finalizing \cup {"finalize"} \/ disk = "final") /\ ~partial
  <2>1. /\ alive \cap Target \subseteq Evasive
        /\ phase \in Finalizing \cup {"finalize", "open", "returned", "crashed"}
    BY <1>2 DEF IInv, TreeGone, TroubleIsPartial, Settled, Written, Finalizing,
                DiskStage, TypeOK
  <2>2. CASE Processes
    <3>1. ASSUME NEW p \in Procs, EmitStart(p) \/ EmitFinish(p)
          PROVE  StaysComplete'
      <4>1. p \in Evasive
        BY <2>1, <3>1, ProcessAssumption DEF EmitStart, EmitFinish
      <4>2. /\ started' \ Evasive = started \ Evasive
            /\ finished' \ Evasive = finished \ Evasive
            /\ started \subseteq started' /\ finished \subseteq finished'
            /\ UNCHANGED <<phase, disk, partial, inventory>>
        BY <3>1, <4>1 DEF EmitStart, EmitFinish
      <4> QED
        BY <4>2 DEF IInv, StaysComplete, Inventoried
    <3>2. ASSUME NEW p \in Procs, NEW c \in Procs, Fork(p, c) \/ Exit(p)
          PROVE  UNCHANGED <<started, finished, phase, disk, partial, inventory>>
      BY <3>2 DEF Fork, Exit
    <3>3. CASE UNCHANGED <<started, finished, phase, disk, partial, inventory>>
      BY <3>3 DEF IInv, StaysComplete, Inventoried
    <3> QED
      BY <2>2, <3>1, <3>2, <3>3 DEF Processes
  <2>3. CASE CheckTelemetry
    BY <2>3 DEF CheckTelemetry, TelemetryComplete, IInv, DiskStage, StaysComplete
  <2>4. CASE CheckProfiles
    BY <2>4 DEF CheckProfiles, IInv, DiskStage, StaysComplete, Finalizing
  <2>5. CASE HashFiles
    <3>1. /\ inventory' = <<started, finished>> /\ phase' = "write_final"
          /\ UNCHANGED <<started, finished, partial, disk>>
      BY <2>5 DEF HashFiles
    <3>2. partial \/ (started # {} /\ started \ Evasive = finished \ Evasive)
      BY <2>5 DEF HashFiles, IInv, StaysComplete, Finalizing
    <3> QED
      BY <3>1, <3>2 DEF StaysComplete, Inventoried
  <2>6. CASE WriteFinal
    BY <2>6 DEF WriteFinal, IInv, StaysComplete, Inventoried, Finalizing
  <2>7. CASE UNCHANGED <<started, finished, disk, partial, inventory>>
             /\ (phase' = phase \/ phase' \in {"returned", "crashed"})
    BY <2>7 DEF IInv, StaysComplete, Inventoried, Finalizing
  <2>8. Next \/ UNCHANGED vars
    OBVIOUS
  <2>9. ASSUME Workload \/ WorkloadPanics \/ UserInterrupt \/ Return \/ Fail \/ Crash
               \/ UNCHANGED vars
        PROVE  UNCHANGED <<started, finished, disk, partial, inventory>>
               /\ (phase' = phase \/ phase' \in {"returned", "crashed"})
    BY <2>9 DEF Workload, TargetReady, ReadyTimeout, SpawnShell, ShellExited,
                ShellSettled, ShellDeadline, ShellKill, LoadEnds, WorkloadPanics,
                UserInterrupt, Return, Fail, Crash, vars
  <2> QED
    BY <2>1, <2>2, <2>3, <2>4, <2>5, <2>6, <2>7, <2>8, <2>9
    DEF Next, Main, Select, Stopping, Reporting, CreateManifest, Spawn,
        RecordLaunch, EndExited, EndInterrupted, EndWorkload, EndDuration,
        ChildLeft, StopTimeout, GroupGone, GroupTimeout, AbortWorkload,
        TreeSettled, TreeDeadline, KillTracked, StopSampler, WriteFinished,
        Reanalyze, Finalizing
<1> QED
  BY <1>1, <1>2

(* All of it holds in the initial states.                                    *)
LEMMA InitInv == Init => IInv
<1> SUFFICES ASSUME Init PROVE IInv
  OBVIOUS
<1>1. TypeOK
  <2>1. /\ profiled \in BOOLEAN /\ ctrlC \in BOOLEAN /\ error \in BOOLEAN
        /\ forced \in BOOLEAN /\ sampler \in BOOLEAN /\ partial \in BOOLEAN
    BY Zenon DEF Init
  <2>2. inventory \in (SUBSET Target) \X (SUBSET Target)
    BY Zenon DEF Init
  <2> QED
    BY <2>1, <2>2 DEF Init, TypeOK, Unknown
<1>2. DiskStage /\ TreeGone /\ TroubleIsPartial /\ OneResult
  BY DEF Init, DiskStage, TreeGone, TroubleIsPartial, OneResult,
         Early, Waited, Settled, Written, Finalizing
<1>3. EndExplained /\ ShellContained
  BY DEF Init, EndExplained, ShellContained, Early, Waited, Settled, Written,
         Finalizing, Over
<1>4. StaysComplete /\ ExitCodeBacked /\ ManifestBeforeTarget
  BY DEF Init, StaysComplete, ExitCodeBacked, ManifestBeforeTarget, CompleteRun,
         Finalizing
<1> QED
  BY <1>1, <1>2, <1>3, <1>4 DEF IInv

LEMMA StepInv == IInv /\ [Next]_vars => IInv'
BY TypeStep, SafetyStep, CompleteStep DEF IInv

(* IInv holds in every reachable state of execute, its processes and its    *)
(* tasks.                                                                    *)
THEOREM Invariance == Spec => []IInv
BY InitInv, StepInv, PTL DEF Spec

(* The variables of a run keep their types.                                 *)
THEOREM TypeCorrect == Spec => []TypeOK
<1>1. IInv => TypeOK
  BY DEF IInv
<1> QED
  BY <1>1, Invariance, PTL

(* However many processes the target starts, in whichever groups: a         *)
(* manifest that finalize_manifest left as complete describes a tree that   *)
(* is dead, or hidden from every scan.                                       *)
THEOREM Containment == Spec => []CompleteRunContained
<1>1. IInv => CompleteRunContained
  BY DEF IInv, TreeGone, TroubleIsPartial, CompleteRunContained, CompleteRun,
         TypeOK
<1> QED
  BY <1>1, Invariance, PTL

(* The inventory of a complete run holds every record there is and ever     *)
(* will be of a process that scans catch, a finish for each start.          *)
THEOREM Sealing == Spec => []SealedTelemetry
<1>1. IInv => SealedTelemetry
  BY DEF IInv, StaysComplete, Inventoried, SealedTelemetry, CompleteRun
<1> QED
  BY <1>1, Invariance, PTL

(* No target without a manifest, no success without its final inventory.    *)
THEOREM Manifest_First == Spec => []ManifestBeforeTarget
<1>1. IInv => ManifestBeforeTarget
  BY DEF IInv
<1> QED
  BY <1>1, Invariance, PTL

(* Only a complete, sealed run exits with a code other than 70, after a      *)
(* workload that succeeded, was given up, or panicked.                       *)
THEOREM ExitCodes_Backed == Spec => []ExitCodeBacked
<1>1. IInv => ExitCodeBacked
  BY DEF IInv
<1> QED
  BY <1>1, Invariance, PTL

(* After the final manifest neither the sampler, nor the workload task, nor *)
(* a process of the shell's group writes into the run directory.            *)
THEOREM Quiescence == Spec => []NoWriterAfterFinal
<1>1. IInv => NoWriterAfterFinal
  BY DEF IInv, ShellContained, NoWriterAfterFinal, Over
<1> QED
  BY <1>1, Invariance, PTL
---------------------------------------------------------------------------
(* Action properties.                                                        *)

(* No step takes the manifest back, and none clears partial.                *)
THEOREM Forward == Spec => ManifestForward
<1>1. ASSUME IInv, [Next]_vars
      PROVE  [Rank(disk') >= Rank(disk) /\ (partial => partial')]_vars
  <2>0. Rank(disk) \in 0..4
    BY <1>1 DEF IInv, DiskStage, Rank
  <2>1. CASE CreateManifest
    BY <1>1, <2>1 DEF CreateManifest, IInv, DiskStage, Rank
  <2>2. CASE RecordLaunch
    BY <1>1, <2>2 DEF RecordLaunch, IInv, DiskStage, Rank
  <2>3. CASE WriteFinished
    <3>1. disk = "launched" /\ disk' = "finished" /\ (partial => partial')
      BY <1>1, <2>3 DEF WriteFinished, IInv, DiskStage
    <3> QED
      BY <3>1 DEF Rank
  <2>4. CASE Reanalyze \/ CheckTelemetry \/ CheckProfiles
    <3>1. disk' = disk
      BY <2>4 DEF Reanalyze, CheckTelemetry, CheckProfiles
    <3>2. partial => partial'
      BY <2>4 DEF Reanalyze, CheckTelemetry, CheckProfiles
    <3> QED
      BY <2>0, <3>1, <3>2
  <2>5. CASE WriteFinal
    <3>1. disk = "finished" /\ disk' = "final" /\ (partial => partial')
      BY <1>1, <2>5 DEF WriteFinal, IInv, DiskStage, Finalizing
    <3> QED
      BY <3>1 DEF Rank
  <2>6. CASE UNCHANGED <<disk, partial>>
    BY <2>0, <2>6
  <2> QED
    BY <1>1, <2>1, <2>2, <2>3, <2>4, <2>5, <2>6
    DEF Next, Processes, Workload, Main, Select, Stopping, Reporting,
        Fork, EmitStart, EmitFinish, Exit, TargetReady, ReadyTimeout, SpawnShell,
        ShellExited, ShellSettled, ShellDeadline, ShellKill, LoadEnds, WorkloadPanics,
        CreateManifest, Spawn, RecordLaunch, UserInterrupt, EndExited,
        EndInterrupted, EndWorkload, EndDuration, ChildLeft, StopTimeout,
        GroupGone, GroupTimeout, AbortWorkload, TreeSettled, TreeDeadline,
        KillTracked, StopSampler, WriteFinished, Reanalyze,
        CheckTelemetry, CheckProfiles, HashFiles, WriteFinal, Return,
        Fail, Crash, Stopped, vars
<1> QED
  BY <1>1, Invariance, PTL DEF Spec, ManifestForward

(* No step, of v8scope or of a process, changes a complete run.             *)
THEOREM Sealed_For_Good == Spec => SealedForGood
<1>1. ASSUME IInv, [Next]_vars
      PROVE  [CompleteRun => UNCHANGED <<disk, partial, inventory, started \ Evasive,
                                         finished \ Evasive>>]_vars
  <2>1. SUFFICES ASSUME CompleteRun
                 PROVE  UNCHANGED <<disk, partial, inventory, started \ Evasive,
                                    finished \ Evasive>>
    OBVIOUS
  <2>2. /\ alive \cap Target \subseteq Evasive
        /\ phase \in {"open", "returned", "crashed"}
    BY <1>1, <2>1 DEF IInv, DiskStage, TreeGone, TroubleIsPartial, CompleteRun, TypeOK
  <2>3. CASE Processes
    <3>1. ASSUME NEW p \in Procs, EmitStart(p) \/ EmitFinish(p)
          PROVE  /\ started' \ Evasive = started \ Evasive
                 /\ finished' \ Evasive = finished \ Evasive
                 /\ UNCHANGED <<disk, partial, inventory>>
      <4>1. p \in Evasive
        BY <2>2, <3>1, ProcessAssumption DEF EmitStart, EmitFinish
      <4> QED
        BY <3>1, <4>1 DEF EmitStart, EmitFinish
    <3>2. CASE \E p, c \in Procs : Fork(p, c)
      BY <3>2 DEF Fork
    <3>3. CASE \E p \in Procs : Exit(p)
      BY <3>3 DEF Exit
    <3> QED
      BY <2>3, <3>1, <3>2, <3>3 DEF Processes
  <2>4. CASE Workload \/ WorkloadPanics
    BY <2>4 DEF Workload, TargetReady, ReadyTimeout, SpawnShell, ShellExited,
                ShellSettled, ShellDeadline, ShellKill, LoadEnds, WorkloadPanics
  <2>5. CASE Main
    BY <2>2, <2>5
    DEF Main, Select, Stopping, Reporting, CreateManifest, Spawn, RecordLaunch,
        EndExited, EndInterrupted, EndWorkload, EndDuration, ChildLeft, StopTimeout,
        GroupGone, GroupTimeout, AbortWorkload, TreeSettled, TreeDeadline,
        KillTracked, StopSampler, WriteFinished, Reanalyze,
        CheckTelemetry, CheckProfiles, HashFiles, WriteFinal, Return
  <2>6. CASE UserInterrupt \/ Fail \/ Crash
    BY <2>6 DEF UserInterrupt, Fail, Crash
  <2>7. CASE UNCHANGED vars
    BY <2>7 DEF vars
  <2> QED
    BY <1>1, <2>3, <2>4, <2>5, <2>6, <2>7 DEF Next
<1> QED
  BY <1>1, Invariance, PTL DEF Spec, SealedForGood
---------------------------------------------------------------------------
(* The refinement.                                                           *)

Visible == Target \ Evasive
Running == (alive \cap Target) \ Evasive
Unfinished == (started \ finished) \ Evasive

(* What the abstract launch sees.                                            *)
Observed == <<Manifest, Running, Unfinished, Outcome>>

(* A step of the processes starts, ends or reports one of them; only the    *)
(* visible ones matter, and a visible one is started by a visible one.       *)
LEMMA ProcessesRefine ==
    ASSUME IInv, Processes
    PROVE  Contract!Next \/ UNCHANGED Observed
<1> USE DEF Observed, Running, Unfinished, Manifest, Outcome
<1>1. ASSUME NEW p \in Procs, NEW c \in Procs, Fork(p, c)
      PROVE  Contract!Fork \/ UNCHANGED Observed
  <2>1. /\ p \in alive /\ alive' = alive \cup {c}
        /\ UNCHANGED <<phase, disk, partial, code, started, finished>>
    BY <1>1 DEF Fork
  <2>2. CASE c \in Target \ Evasive
    <3>1. p \in Running
      BY <1>1, <2>2, ProcessAssumption DEF Fork, Target, Workers
    <3>2. Running' = Running \cup {c}
      BY <2>1, <2>2
    <3> QED
      BY <2>1, <2>2, <3>1, <3>2 DEF Contract!Fork
  <2>3. CASE c \notin Target \ Evasive
    BY <2>1, <2>3
  <2> QED
    BY <2>2, <2>3
<1>2. ASSUME NEW p \in Procs, EmitStart(p) \/ EmitFinish(p)
      PROVE  Contract!Write \/ UNCHANGED Observed
  <2>1. UNCHANGED <<phase, disk, partial, code, alive>>
    BY <1>2 DEF EmitStart, EmitFinish
  <2>2. /\ p \in alive \cap Target
        /\ started \ finished \subseteq Target
    BY <1>2, ProcessAssumption DEF EmitStart, EmitFinish, IInv, TypeOK
  <2>3. CASE p \in Evasive
    <3>1. Unfinished' = Unfinished
      BY <1>2, <2>3 DEF EmitStart, EmitFinish
    <3> QED
      BY <2>1, <3>1
  <2>4. CASE p \notin Evasive
    <3>1. Unfinished' \in {Unfinished \cup {p}, Unfinished \ {p}}
      <4>1. CASE EmitStart(p)
        <5>1. started' = started \cup {p} /\ finished' = finished /\ p \notin finished
          BY <4>1 DEF EmitStart, IInv, TypeOK
        <5>2. Unfinished' = Unfinished \cup {p}
          BY <5>1, <2>4
        <5> QED
          BY <5>2
      <4>2. CASE EmitFinish(p)
        <5>1. Unfinished' = Unfinished \ {p}
          BY <4>2, <2>4 DEF EmitFinish
        <5> QED
          BY <5>1
      <4> QED
        BY <1>2, <4>1, <4>2
    <3> QED
      BY <2>1, <2>2, <2>4, <3>1 DEF Contract!Write
  <2> QED
    BY <2>3, <2>4
<1>3. ASSUME NEW p \in Procs, Exit(p)
      PROVE  Contract!Leave
  <2>1. /\ alive' = alive \ {p}
        /\ UNCHANGED <<phase, disk, partial, code, started, finished>>
    BY <1>3 DEF Exit
  <2> QED
    BY <2>1 DEF Contract!Leave
<1> QED
  BY <1>1, <1>2, <1>3 DEF Processes, Contract!Next
(* The workload task moves only processes of its own.                       *)
LEMMA WorkloadRefine ==
    ASSUME IInv, Workload \/ WorkloadPanics
    PROVE  UNCHANGED Observed
<1>1. alive' \cap Target = alive \cap Target
  <2> USE ProcessAssumption DEF Target, Workers, ShellGroup, IInv, TypeOK
  <2>1. CASE SpawnShell
    BY <2>1 DEF SpawnShell
  <2>2. CASE ShellExited \/ ShellKill \/ WorkloadPanics
    BY <2>2 DEF ShellExited, ShellKill, WorkloadPanics, GuardedBy
  <2>3. CASE TargetReady \/ ReadyTimeout \/ ShellSettled \/ ShellDeadline \/ LoadEnds
    BY <2>3 DEF TargetReady, ReadyTimeout, ShellSettled, ShellDeadline, LoadEnds
  <2> QED
    BY <2>1, <2>2, <2>3 DEF Workload
<1>2. UNCHANGED <<phase, disk, partial, code, started, finished>>
  BY DEF Workload, TargetReady, ReadyTimeout, SpawnShell, ShellExited,
         ShellSettled, ShellDeadline, ShellKill, LoadEnds, WorkloadPanics
<1> QED
  BY <1>1, <1>2 DEF Observed, Running, Unfinished, Manifest, Outcome

(* Between its writes of the manifest execute only stops processes.         *)
LEMMA ExecuteRefine ==
    ASSUME IInv, Select \/ Stopping \/ UserInterrupt
    PROVE  Contract!Leave
<1>1. /\ alive' \subseteq alive
      /\ UNCHANGED <<disk, partial, started, finished>>
  BY DEF Select, Stopping, UserInterrupt, EndExited, EndInterrupted, EndWorkload,
         EndDuration, ChildLeft, StopTimeout, GroupGone, GroupTimeout, AbortWorkload,
         TreeSettled, TreeDeadline, KillTracked, StopSampler
<1>2. phase \notin {"returned", "crashed"} /\ phase' \notin {"returned", "crashed"}
  BY DEF Select, Stopping, UserInterrupt, EndExited, EndInterrupted, EndWorkload,
         EndDuration, ChildLeft, StopTimeout, GroupGone, GroupTimeout, AbortWorkload,
         TreeSettled, TreeDeadline, KillTracked, StopSampler
<1>3. UNCHANGED <<Manifest, Unfinished, Outcome>>
  <2>1. Outcome = "none" /\ Outcome' = "none"
    BY <1>2 DEF Outcome
  <2> QED
    BY <1>1, <2>1 DEF Manifest, Unfinished
<1>4. Running' \subseteq Running
  BY <1>1 DEF Running
<1> QED
  BY <1>3, <1>4 DEF Contract!Leave, Running, Unfinished

(* The writes of the manifest, and the ends of execute.                     *)
LEMMA ReportingRefine ==
    ASSUME IInv, IInv', CreateManifest \/ Spawn \/ RecordLaunch \/ Reporting \/ Fail \/ Crash
    PROVE  Contract!Next \/ UNCHANGED Observed
<1> USE DEF IInv, DiskStage, TypeOK
<1>1. CASE CreateManifest
  <2>1. Manifest = "none" /\ Manifest' = "open"
    BY <1>1 DEF CreateManifest, Manifest
  <2>2. Outcome = "none" /\ Outcome' = "none"
    BY <1>1 DEF CreateManifest, Outcome
  <2> QED
    BY <1>1, <2>1, <2>2 DEF CreateManifest, Contract!Next, Contract!Open
<1>2. CASE Spawn
  <2>1. Manifest = "open" /\ Manifest' = "open"
    BY <1>2 DEF Spawn, Manifest
  <2>2. Outcome = "none" /\ Outcome' = "none"
    BY <1>2 DEF Spawn, Outcome
  <2>3. Running' = Running \cup {Root}
    BY <1>2, ProcessAssumption DEF Spawn, Running, Target, Workers
  <2> QED
    BY <1>2, <2>1, <2>2, <2>3 DEF Spawn, Running, Contract!Next, Contract!Launch
<1>3. CASE RecordLaunch
  <2>1. Manifest = "open" /\ Manifest' = "open"
    BY <1>3 DEF RecordLaunch, Manifest
  <2>2. Outcome = "none" /\ Outcome' = "none"
    BY <1>3 DEF RecordLaunch, Outcome
  <2> QED
    BY <1>3, <2>1, <2>2 DEF RecordLaunch, Observed, Running, Unfinished
<1>4. CASE WriteFinished \/ Reanalyze \/ CheckTelemetry \/ CheckProfiles \/ HashFiles
  <2>1. Manifest = "open" /\ Manifest' = "open"
    BY <1>4 DEF WriteFinished, Reanalyze, CheckTelemetry, CheckProfiles, HashFiles,
                Manifest, Finalizing
  <2>2. Outcome = "none" /\ Outcome' = "none"
    BY <1>4 DEF WriteFinished, Reanalyze, CheckTelemetry, CheckProfiles, HashFiles,
                Outcome
  <2> QED
    BY <1>4, <2>1, <2>2
    DEF WriteFinished, Reanalyze, CheckTelemetry, CheckProfiles, HashFiles,
        Observed, Running, Unfinished
<1>5. CASE WriteFinal
  <2>1. Manifest = "open" /\ Manifest' = IF partial' THEN "partial" ELSE "complete"
    BY <1>5 DEF WriteFinal, Manifest, Finalizing
  <2>2. Outcome = "none" /\ Outcome' = "none"
    BY <1>5 DEF WriteFinal, Outcome
  <2>3. UNCHANGED <<Running, Unfinished>>
    BY <1>5 DEF WriteFinal, Running, Unfinished
  <2>4. ASSUME ~partial' PROVE Running = {} /\ Unfinished = {}
    <3>1. /\ ~partial /\ ~forced
          /\ started \ Evasive = finished \ Evasive
      BY <1>5, <2>4 DEF WriteFinal, TroubleIsPartial, Written, StaysComplete, Finalizing
    <3>2. alive \cap Target \subseteq Evasive
      BY <1>5, <3>1 DEF WriteFinal, TreeGone, Settled, Written, Finalizing
    <3> QED
      BY <3>1, <3>2 DEF Running, Unfinished
  <2> QED
    BY <2>1, <2>2, <2>3, <2>4 DEF Contract!Next, Contract!Seal, Running, Unfinished
<1>6. CASE Return
  <2>1. Manifest = (IF partial THEN "partial" ELSE "complete") /\ Manifest' = Manifest
    BY <1>6 DEF Return, Manifest
  <2>2. Outcome = "none" /\ Outcome' = IF code' = 70 THEN "failure" ELSE "success"
    BY <1>6 DEF Return, Outcome
  <2>3. partial => code' = 70
    BY <1>6 DEF Return
  <2>4. UNCHANGED <<Running, Unfinished>>
    BY <1>6 DEF Return, Running, Unfinished
  <2> QED
    BY <2>1, <2>2, <2>3, <2>4
    DEF Contract!Next, Contract!Conclude, Running, Unfinished
<1>7. CASE Fail \/ Crash
  <2>1. Outcome = "none" /\ Outcome' \in {"failure", "lost"}
    BY <1>7 DEF Fail, Crash, Stopped, Outcome
  <2>2. UNCHANGED <<Manifest, Unfinished>>
    BY <1>7 DEF Fail, Crash, Manifest, Unfinished
  <2>3. Running' \subseteq Running
    BY <1>7 DEF Fail, Crash, Running
  <2> QED
    BY <2>1, <2>2, <2>3 DEF Contract!Next, Contract!Conclude, Running, Unfinished
<1> QED
  BY <1>1, <1>2, <1>3, <1>4, <1>5, <1>6, <1>7 DEF Reporting

(* A launch of v8scope is a launch as RunContract specifies it, whatever    *)
(* the target forks and however the run ends.                                *)
THEOREM Refinement == Spec => ImplementsContract
<1>1. Init => Contract!Init
  BY DEF Init, Contract!Init, Manifest, Outcome
<1>2. ASSUME IInv, IInv', [Next]_vars
      PROVE  [Contract!Next]_(Contract!vars)
  <2>1. CASE UNCHANGED vars
    BY <2>1 DEF vars, Contract!vars, Manifest, Outcome
  <2>2. CASE Next
    BY <1>2, <2>2, ProcessesRefine, WorkloadRefine, ExecuteRefine, ReportingRefine
    DEF Next, Main, Contract!Next, Contract!vars, Observed, Running, Unfinished
  <2> QED
    BY <1>2, <2>1, <2>2
<1> QED
  BY <1>1, <1>2, Invariance, PTL DEF Spec, ImplementsContract, Contract!Spec
---------------------------------------------------------------------------
(* The shell's tree.                                                         *)

(* Outside the stages of the shell only what no scan catches is left of its *)
(* tree, unless the task was cancelled or its settling came to its deadline. *)
HelpersSettled ==
    /\ wl \notin ShellStages \cup {"aborted", "panicked"} /\ wlRemaining = {} =>
          alive \cap Workers \subseteq Evasive
    /\ wl = "shell_kill" => wlRemaining # {}
    /\ phase = "crashed" => wl \in Over

(* Every step keeps it so.                                                   *)
LEMMA HelpersStep ==
    ASSUME IInv, HelpersSettled, [Next]_vars
    PROVE  HelpersSettled'
<1> USE ProcessAssumption
    DEF HelpersSettled, ShellStages, Target, Workers, Procs, ShellGroup, TargetGroup,
        Over
<1>1. CASE Processes
  <2>1. ASSUME NEW p \in Procs, NEW c \in Procs, Fork(p, c)
        PROVE  HelpersSettled'
    <3>1. /\ UNCHANGED <<wl, wlRemaining, phase>> /\ alive' = alive \cup {c}
          /\ p \in alive /\ (p \in Evasive => c \in Evasive)
          /\ c \in Workers => p \in Workers
      BY <2>1 DEF Fork
    <3> QED
      BY <3>1
  <2>2. ASSUME NEW p \in Procs, EmitStart(p) \/ EmitFinish(p) \/ Exit(p)
        PROVE  HelpersSettled'
    <3>1. UNCHANGED <<wl, wlRemaining, phase>> /\ alive' \subseteq alive
      BY <2>2 DEF EmitStart, EmitFinish, Exit
    <3> QED
      BY <3>1
  <2> QED
    BY <1>1, <2>1, <2>2 DEF Processes
<1>2. CASE Workload
  <2>1. CASE TargetReady \/ ReadyTimeout \/ LoadEnds
    BY <2>1 DEF TargetReady, ReadyTimeout, LoadEnds
  <2>2. CASE SpawnShell
    BY <2>2 DEF SpawnShell
  <2>3. CASE ShellExited
    BY <2>3 DEF ShellExited
  <2>4. CASE ShellSettled
    <3>1. /\ alive' = alive /\ wlRemaining' = wlRemaining /\ wl' # "shell_kill"
          /\ phase # "crashed" /\ phase' = phase
          /\ alive \cap Helpers \subseteq Evasive /\ Shell \notin alive
      BY <2>4 DEF ShellSettled, IInv, ShellContained, DiskStage
    <3> QED
      BY <3>1
  <2>5. CASE ShellDeadline
    BY <2>5 DEF ShellDeadline
  <2>6. CASE ShellKill
    BY <2>6 DEF ShellKill
  <2> QED
    BY <1>2, <2>1, <2>2, <2>3, <2>4, <2>5, <2>6 DEF Workload
<1>3. CASE Main
  <2>1. CASE Spawn
    BY <2>1 DEF Spawn
  <2>2. CASE RecordLaunch
    <3>1. wl = "idle"
      BY <2>2 DEF RecordLaunch, IInv, OneResult, Early
    <3> QED
      BY <2>2, <3>1 DEF RecordLaunch
  <2>3. CASE CreateManifest \/ Select \/ Stopping \/ Reporting
    <3>1. /\ wlRemaining' = wlRemaining /\ alive' \subseteq alive
          /\ (wl' = wl /\ phase' # "crashed") \/ wl' = "aborted"
      BY <2>3
      DEF CreateManifest, Select, Stopping, Reporting, EndExited, EndInterrupted,
          EndWorkload, EndDuration, ChildLeft, StopTimeout, GroupGone, GroupTimeout,
          AbortWorkload, TreeSettled, TreeDeadline, KillTracked, StopSampler,
          WriteFinished, Reanalyze,
        CheckTelemetry, CheckProfiles, HashFiles, WriteFinal, Return
    <3> QED
      BY <3>1
  <2> QED
    BY <1>3, <2>1, <2>2, <2>3 DEF Main
<1>4. CASE WorkloadPanics \/ UserInterrupt \/ Fail \/ Crash \/ UNCHANGED vars
  <2>1. /\ wlRemaining' = wlRemaining /\ alive' \subseteq alive
        /\ wl' = wl \/ wl' \in {"aborted", "panicked"}
        /\ phase' = "crashed" => phase = "crashed" \/ wl' \in Over
    BY <1>4 DEF WorkloadPanics, UserInterrupt, Fail, Crash, Stopped, vars, Over
  <2> QED
    BY <2>1
<1> QED
  BY <1>1, <1>2, <1>3, <1>4 DEF Next

(* A visible helper outlives the run only in the two ways that are known.   *)
THEOREM Helpers_Explained == Spec => []HelperSurvivalExplained
<1>1. Init => HelpersSettled
  BY DEF Init, HelpersSettled, Over
<1>2. IInv /\ HelpersSettled => HelperSurvivalExplained
  <2> SUFFICES ASSUME IInv, HelpersSettled, disk = "final",
                      wl \notin {"aborted", "panicked"}, wlRemaining = {}
               PROVE  Seen(Workers) = {}
    BY DEF HelperSurvivalExplained
  <2>1. wl \in {"idle", "done"}
    BY DEF IInv, ShellContained, Over
  <2> QED
    BY <2>1 DEF HelpersSettled, ShellStages
<1> QED
  BY <1>1, <1>2, HelpersStep, Invariance, PTL DEF Spec
===========================================================================
