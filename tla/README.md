# A formal model of v8scope

v8scope launches (or attaches to) a Node.js program, records telemetry and V8
profiles, stops the program and everything it started, and seals what it found
in a run directory with a manifest.  This directory holds TLA+ modules for the
parts of it that are state machines, TLC configurations that check them on
small instances, and TLAPS proofs of what matters most for any instance.

    tlc -workers 2 -config MCRunTarget.cfg MCRun      # any run below
    tlapm RunLifecycleProofs.tla                      # the proofs
    tlapm ProcessSettleProofs.tla
    tlapm AttachProofs.tla
    tlapm ProbeProofs.tla
    tlapm ArtifactsProofs.tla
    tlapm DataLemmas.tla
    tlapm StreamsProofs.tla
    tlapm AnalysisProofs.tla

Line numbers refer to files of the repository (`src/run.rs`, `assets/probe.cjs`,
...).  `PROJECT.json` maps each definition to the lines it stands for.

## 1. The system

| component | code | state | operations | hard because of |
|---|---|---|---|---|
| Launch lifecycle | `run.rs` `execute`, `stop_child`, `finalize_manifest` | manifest (in memory and on disk), the branch of `select!`, forced/partial flags | create manifest, spawn, select, stop, settle, analyse, finalise, exit code | four events that may be ready together; errors at every `?`; processes that do what they like |
| Process containment | `process.rs` | `ProcessTracker`: identities (PID, start time) | scan the table, sample, settle a group, settle a tracked tree | a scan is not atomic; processes fork, detach, drop their environment, change user |
| On-ready workload | `run.rs` `run_workload`, `run_shell`, `run_goose` | a tokio task, a shell with its own group and tracker | wait until ready, shell, load | cancelled by `abort` at any await, cleaned up by a guard |
| Preload probe | `assets/probe.cjs` | timers, observers, hooks, an event buffer, `finished` | sample, push, flush, finish, request stop | several ways to finish, signal ownership, SIGKILL between writes |
| Attach session | `attach.rs` | `CdpClient`: next id, pending map, event broadcast; the session's step | command with timeout, reader task, streamed snapshot | late, lost and refused answers; a bounded broadcast; cancellation |
| Run directories | `analyze.rs` `execute`, `compare.rs` `execute`, `run.rs` `clean`, `util.rs` | files, manifest with hashes | analyse, compare, clean, each file by file | killed commands, temporary files, overlapping commands |
| Budgets and metrics | `compare.rs` | none | deltas, budgets, comparability | sign and zero of a baseline |
| Analysis | `analyze.rs` | none | NDJSON, telemetry, profiles, async graphs | isolates interleaved in one file, cut and lost records, recursion |
| CPU assessment | `doctor.rs` | none | Gaussian HMM, its labelling, the verdict | which state is which is an accident of the fit |
| Report | `report.rs` | none | HTML, SVG | rendering only |
| Command line, schema | `cli.rs`, `contract.rs`, `main.rs` | none | options, error to exit code 70 | - |
| Benchmarks, release scripts | `benchmarks/`, `scripts/` | none | - | not part of the program |

How they interact: `execute` spawns the target with the probe preloaded
(`NODE_OPTIONS`) and a token in its environment; the probe of each process
appends to `telemetry.ndjson`, which `execute` polls for the first start record
and reads for PIDs of processes the tracker lost.  The sampler task shares the
tracker with `settle_tracked_processes`.  The workload task reports through a
oneshot channel that `select!` waits for.  SIGINT (a stop file on Windows) asks
the probe to finish.  `finalize_manifest` is shared by launches, attach sessions
and the analyze and compare commands, which otherwise meet only through files.

What makes each part correct is stated by the properties of section 3; the
places where the code is exposed are the `hazards` of `PROJECT.json`.

## 2. The modules

| module | models | checked by |
|---|---|---|
| `RunLifecycle` | one launch: `execute` with the workload task and the processes | `MCRun` |
| `ProcessSettle` | `refresh_tree`, the sampler, `settle_tracked_processes` | `MCSettle` |
| `Probe` | `probe.cjs` in one process, with the application and v8scope's signals | itself |
| `InspectorRpc` | abstract: what `CdpClient::command` promises its caller | `Attach`, which refines it |
| `Attach` | an attach session, the reader task, the inspector, the connection | itself |
| `Artifacts` | analyze, compare and clean on run directories | `MCArtifacts` |
| `RunContract` | abstract: what a launch promises to a reader of its manifest and exit code | `RunLifecycle`, which refines it |
| `Streams` | the probes of several isolates appending to the same two files, with writes that fail or are cut | `MCAnalysis` |
| `NdjsonAnalysis` | what `analyze.rs` reads from these files: NDJSON, integrity, telemetry, async graph | `MCAnalysis`, over `Streams` |
| `Profiles` | what `analyze.rs` computes from CPU and heap profiles | `MCAnalysis` |
| `CpuAssessment` | `assess_cpu` and `viterbi` of `doctor.rs` | `MCAnalysis` |
| `Budgets` | `compare.rs` from two summaries and a budget file to the exit code | `MCAnalysis` |
| `Walks` | the loops of `analyze.rs` that follow parents | `MCAnalysis` |
| `Analysis` | the inputs that `Profiles`, `CpuAssessment` and `Budgets` may be given, and their properties | `MCAnalysis` |
| `RunLifecycleProofs`, `ProcessSettleProofs`, `AttachProofs`, `ProbeProofs`, `ArtifactsProofs`, `StreamsProofs`, `AnalysisProofs` | theorems | TLAPS |
| `DataLemmas` | lemmas on sums over finite sets, walks, greatest and least elements, and induction over sets | TLAPS |

The modules meet at boundaries that are abstracted the same way on both sides:
`RunLifecycle` takes a scan of the process table for one step and names the
processes it misses (`Evasive`), `ProcessSettle` opens it up and says which these
can be; `RunLifecycle` lets every process write its finish record or not,
`Probe` says when one does; `Artifacts` starts from the directories in which
`RunLifecycle` may end (`Left`); `Streams` keeps of the handlers that `Probe`
has in full what they append to the files, and has several isolates do it, for
`NdjsonAnalysis` to read at any time.

**RunLifecycle.**  `phase` is the program counter of `execute`; each action is
the code between two awaits or calls that can fail, in the order of the source
(`run.rs:40-289`).  `wl` is the position of the workload task.  Every process
may fork, write its records and exit at any time, and may ignore SIGINT, which
therefore needs no action: only SIGKILL (`Kill`) has an effect.  `Probed` are
the processes that load the probe; a write of theirs may fail unnoticed, so that
each record may be missing, the start as well as the finish.  The workload task
may panic at any stage (`WorkloadPanics`): its sender is dropped with it, and
`EndWorkload` takes the closed channel for a success, as `run.rs:182` does.
`finalize_manifest` is four steps, `CheckTelemetry`, `CheckProfiles`,
`HashFiles` and `WriteFinal`, and processes may write between them.  `Fail` is
any `?`: the child is killed on drop, the task is dropped with its guard, `main`
returns 70.  `Evasive` holds the detached processes that escape
`settle_tracked_processes`: those that dropped the token before they were ever
seen with a known parent, those of another user, and those that a family forks
faster than the empty checks follow (`CleanReturnIsEmpty` of section 5 says when
there are none of the last kind).  Which ones these are is a constant, chosen
once per behaviour; the settled tree is empty only but for them.  `Crash` is the
death of v8scope itself, after which nothing is cleaned up.  Time is abstracted:
a timeout may fire whenever its wait is on.

**ProcessSettle.**  `ListTree` takes the process table, `ReadTree` reads the
environments of what was listed and still runs, descends along the listed
parents and records identities; processes fork and exit between the two.  The
sampler does the same with the same tracker.  A process is *marked* when its
environment has the token and *foreign* when signals to it are refused.
Identities are never reused (section 6).

**Probe.**  A callback of the event loop is one action, except `finish`, whose
writes are steps of their own because a SIGKILL may fall between them.  A write
may fail silently, as `write` swallows errors; a failing flush counts what it
drops.  `Then` is `applicationOwnsSignal`; `Continue` is what the caller of
`finish` does afterwards.  `role` says how many SIGINTs v8scope sends: one to
the target (`interrupt_group`) or to a descendant outside its group
(`settle_tracked_processes`), two to a child in its group (`interrupt_group`
and, after the target has left, `settle_group`), none on Windows, where a stop
file is written.

**Attach.**  `step` walks through the commands of `execute`; `stage` is where
the command under way is in `command_with_timeout`.  The reader task routes
responses by id, broadcasts chunks and clears the pending map when the stream
ends.  The inspector may refuse any command, answer late or never; the
connection may be lost with any suffix of what was under way.  Once the snapshot
command has returned, each turn of the loop may take a chunk, see a lag, or
(`Quiet`) end by the 250 ms: the `select!` of `attach.rs:489` is not biased, so
after a stall the timer may win over chunks, or a lag, that are still in the
broadcast.  The keepalive task and the discovery over HTTP change no state that
matters and are left out.

**Artifacts.**  A file's content is the name of the command that wrote it, so
that "the hash matches" is equality of content.  `atomic_write` is two steps
with a temporary file between.  Hashing and verifying proceed file by file in
the order of `collect_files`, temporary files first.  A command may fail or be
killed at every step; `clean` unlinks in any order.

**RunContract.**  A manifest is opened before the first process runs and sealed
once, as complete only when no process runs that a scan can see and every
isolate that began its telemetry has ended it; a success needs a complete
manifest.  `RunLifecycle` maps its phases to it; evasive processes (those that
no scan sees) are no part of the promise.

**Streams.**  Each isolate walks through `running`, `sampled` (the final
sample is written), `summed` (the async summary is) and `done`; buffered
events reach the file with a flush.  `fs.writeSync` hands its bytes to the
kernel once: it may fail, which a flush counts as dropped events, or write less
than all, which nobody notices.  A killed isolate is one that takes no further
step, so there is no action for it.

**NdjsonAnalysis.**  A file is a sequence of writes, each with how it ended:
with its newline, just before it, inside the record, or inside a UTF-8
character.  That is all `read_ndjson_checked` can tell apart.  The functions
have the names they have in `analyze.rs`; values read from a file and the hash
maps of the code are functions of the position in the file (`Inserted` is the
map of resources when the k-th record is processed).

**Profiles, CpuAssessment, Budgets** are functions of one input.  The model of
`GaussianHmm` that is fitted to the observations is a parameter of
`CpuAssessment`, so that its properties hold whatever the fit comes to; a group
of observations is a function of their times.  Percentages are compared after
multiplying out, in integers.  `Analysis` says which inputs there are: profiles
that are forests of any size, with samples of nodes that may be missing and
deltas that may be negative; observations with any scores; runs with integer
metrics.  A node has a call frame; `mapped` is what a source map makes of it
(`mapped_frame`) and `label` its name in the flame graph (`flame_label`, of the
frame as it was), either of which may make one of two.  `HotspotLimit` is the
`truncate` at the end of each list of hotspots.  The assessment is compared with
`viterbi` of the model whose states are numbered the other way round
(`Renumbered`).  `Inputs` is a constant that holds some of them
(`InputsAssumption`, which TLC evaluates for those of the run).

## 3. The runs

| run | instance | shows |
|---|---|---|
| `run_target` | target with four descendants, three in groups of their own, one of these evasive, no workload | `TypeOK`; `CompleteRunContained`: a complete manifest never describes a target with a process still running, but for evasive ones; `SealedTelemetry`, `SealedForGood`: its telemetry is what was hashed, with a finish for each start, for ever after; only an evasive process can add to it, or have got a start without its finish into what was hashed, between check and hash |
| `run_workload` | shell with a detached helper, load, every option, target with a detached child | `ExitCodeBacked`: no exit code but 70 without a complete manifest and a workload that succeeded, unless the user interrupted it or its task panicked; `NoWriterAfterFinal`; `HelperSurvivalExplained`; `ManifestBeforeTarget`; `ManifestForward`; `ImplementsContract`: it is a launch as `RunContract` has it; `BoundedRun`: which launches cannot be held for ever; `StopTerminates`: a stop ends whatever the processes do |
| `run_helper_escape` | a detached helper of a cancelled shell | violates `WorkloadSettledBeforeFinal` (README.md:102) |
| `run_tree_escape` | two detached descendants | violates `TreeTerminatedBeforeFinal` (docs/architecture.md:26) |
| `settle_evasion` | four marked processes, three generations, three empty checks | `NoElderSurvives`: whoever ran with the marker when settling began is gone when it returns; `EmptyChecksEarnt`: a clean return is evaded only by one generation forked inside each of the last scans |
| `settle_known` | three processes, one unmarked, one foreign | `KnownSettled`: so is whoever the tracker knew, from telemetry too; `SettleEnds` |
| `probe` | one async event allowed of three, three records, one SIGTERM by others | `StreamsSealed`: finish and summary are written once and last, numbers rise and are unique; `AsyncAccounted`: a summary accounts for every event; `CutExplained`: a cleanup is cut only at a second signal; `StopObeyed`: whoever is asked to stop ends or hands over to the application, with one exception, a stop file written after `beforeExit` finished the probe |
| `probe_cleanup` | the same without foreign signals | violates `CleanupRetained` (docs/architecture.md:26, probe.cjs:237) |
| `attach` | three chunks through a broadcast of two, all modes | `PendingIsCurrent`: no entry outlives its command; `SuccessIsWhole`; `SnapshotHasNoHole`: what is kept of a snapshot is its first chunks in order, and unless the receiver lagged it lacks only what was still in the broadcast; `RpcSpec`: the session implements `InspectorRpc`, a late answer is never taken for another's; `SessionEnds` |
| `artifacts` | three commands one after the other, or two at once, on two directories | `AcceptsSealedRuns`: what compare accepts is exactly what is inventoried, after any failures and kills; `RefreshesInventory`; `AcceptsOnlyFinishedRuns`: no sequence of commands, overlapping or not, makes compare accept a run that is partial or was killed before its manifest said that it finished (one killed only between that write and the last one may be accepted: another command makes its inventory); `ManifestOnlyWorsens`: no manifest comes to say that its run finished, and partial is taken back only where clean has taken the data |
| `artifacts_race` | two commands at once, one directory | violates `InventoryExactAtRest` (README.md:175) |
| `analysis` | two isolates, three resources, four events of which one may be a timer or five of one isolate, one write that goes wrong; and, each as an initial state, profiles of up to three nodes, models of four observations, pairs of runs with budgets | `AnalysisSplits`: isolates interleaved in one file are told apart; `ChainsHonest`: a causal chain is never wrong, only short, and whole up to the limit where no write went wrong; `LossExplained`: what passes both integrity checks has every event or counts it as dropped; `FinalsCounted`: in a file that passes, what is reported as left is what all isolates had at their end, unless a write lost a record; `ProfilesAttributed`: hotspots and flame graph agree with the tree; `AssessmentSound`: the labelling is a most probable one, and the verdict depends on which state is 0 only where labellings tie; `GateSound`: exit code 0 only if all is well, 10 only if something is not, with negative baselines as the code has them |

Every run's configuration turns deadlock checking off, because each system
really stops: `execute` returns, settling ends, the process is gone, all
commands have ended.

**Bounds.** `Kids` of `run_target`: one process in the group; two outside it, so
that one can fork the other between the last scan and the SIGKILLs; and an
evasive one, so that a complete run with a survivor is among the behaviours. The
root, the evasive process and one of the others are `Probed`, so that each of
them may write between the check and the hashing. `run_workload` needs the
shell, which is alone in its group, and one helper outside it; the two
violations need no evasive process either. Its target exits by itself with 3
only, or by a signal: the code returned is then 3, 1 or 130, and 0 where a
workload or a duration ends the run. `MaxGen = 3` and four processes: as many
generations as there are empty checks, which is what it takes to evade all of
them; with fewer the conclusion of `EmptyChecksEarnt` would never be tested.
`Capacity = 2 < Chunks = 3`: the broadcast overflows. `MaxEvents = 1`,
`MaxRecords = 3`: an event is buffered, others are dropped; the bound leaves
room for records after `finish`, so that one written there would be seen. Three
commands: one to break a directory, one to repair it, one to compare;
`Concurrent = 2`: once two have been active together no third begins.
`analysis`: `ChainLimit = 2 < MaxResources = 3` and `MaxEvents = 4`: three
`init` of one isolate and a callback of the last, whose chain the limit cuts;
`MaxTurns = 5`, of which the isolates share four (`LastTurnAlone`), timers
included, and the fifth is an event of one isolate past the maximum; `MaxTicks =
1`, so that a timer flushes or samples in the middle; `MaxFaults = 1`, so that
both a whole file and every way of losing one write occur; `LargestProfile = 3`
nodes over two call frames, mapped and labelled apart or alike: a frame under
itself with another between; `HotspotLimit = 1`, so that a list is cut. Isolates
are interchangeable (`IsolatesAlike`). `Hurries` leaves out orders that make no
difference: events in an isolate's buffer are seen by nobody, and its last
records (sample, events, summary, finish) go to two files, so that another
isolate's write to one of them in between commutes with those to the other.
Every property reads one file, or (`LossExplained`) both, but there with every
isolate finished and at most one of the files damaged, and then only the order
within that one matters. An isolate killed on its way out is one that stops
there; others that go on after it are those of the same file without it, or with
its events flushed by the timer.

**Fairness.**  `RunLifecycle`: weak fairness of `execute` and of the workload
task (tokio polls a ready task and fires its timers); none of the processes, of
Ctrl+C, of failures.  `ProcessSettle`: of the settling task and its deadline.
`Attach`: of the session and the reader task; none of the inspector.  `Probe`:
of the steps of `finish` and of dispatching a pending signal or the stop timer,
which is the event loop's doing provided the application's callbacks return; it
is the one assumption about the profiled program.  Each `Send` of an attach
session is assumed to end, though `attach.rs:178` awaits it outside the
command's timeout: over a connection that takes no more bytes and is not closed
it would wait for ever.

## 4. What disagrees with the documentation

1. **A detached helper outlives its run** (`run_helper_escape`).  When the
   workload is cancelled, the guard kills the shell's group; a descendant that
   left it is tracked by nobody.
2. **A process forked during the final kill is never signalled**
   (`run_tree_escape`).  The run is marked partial, so `CompleteRunContained`
   holds, but the tree is not terminated.
3. **Overlapping commands leave a stale inventory** (`artifacts_race`).  Two
   `analyze` of one run may both succeed and leave a manifest that matches
   neither; compare then refuses the run.
4. **A child's cleanup is cut by the second SIGINT** (`probe_cleanup`).  A
   cluster worker whose handler was registered with `process.once`, as in
   `tests/fixtures/graceful-signal.cjs`, and is cleaning up when the target
   leaves, is interrupted again by `settle_group`; now only the probe listens,
   and it exits.  The repository's test has that handler in the target itself,
   which is interrupted once (`CutExplained`).

Limits of the code that the properties state as they are, without a run of
their own:

- A regression from a negative baseline (`heap_growth_bytes` of a heap that
  shrank) is never refused, and an improvement by more than the percentage is
  (`GateHolds`, `Within`; `compare.rs:248`), although the repository's
  README.md:52 has budgets fail closed and README.md:127 says that 10 means that
  a budget failed.
- A workload task that panics counts as a success (`run.rs:182`,
  `ExitCodeBacked`): the run may end with 0.
- A process that no scan catches may write its start record between the check
  and the hashing of `finalize_manifest`; the inventory of a complete manifest
  then has a start without a finish (`SealedTelemetry`).
- A snapshot that `attach` accepts may lack what the broadcast still held when
  the 250 ms won, and more if nobody had read of a lag by then
  (`attach.rs:489`, `SnapshotHasNoHole`), although docs/architecture.md:9 has
  streaming fail on receiver lag.
- A launch killed after its manifest said that it finished and before its
  inventory was written is made acceptable by the next analyze
  (`AcceptsOnlyFinishedRuns`).
- A stop file written after `beforeExit` finished the probe is seen by nobody:
  the stop timer was cleared (`probe.cjs:224`, `StopObeyed`).
- Where two labellings are equally probable, `viterbi` prefers state 0, and the
  verdict depends on which of the two modes that is (`AssessmentHolds`).
- Hotspots are the 50 largest, and of frames with equal values any may be cut
  (`analyze.rs:516`); the flame graph names frames by function and file name,
  unmapped, so that it may add up what the hotspots tell apart
  (`CpuAttributed`).
- A record cut inside a UTF-8 character makes the whole file unreadable
  (`read_ndjson_checked`), although docs/architecture.md:26 has one truncated
  final record tolerated.
- A short write that ends exactly between two records is noticed by nothing
  (`unnoticed` in `LossExplained`).
- As soon as one isolate has summarized, live resources of those that have not
  count for nothing (`AnalysisSplits`).
- What a recursive frame allocated counts at every level (`HeapAttributed`).
- The peak adds each isolate's own peak, so that it may exceed what was ever used
  at one time.  The model's measure is one that is added up over isolates and
  not replaced: the peak of `rss` is overwritten by the samples of
  `process.ndjson` where there are any (`analyze.rs:145`), and `FinalsCounted`
  says nothing of it.
- A sample that is missing altogether is noticed by nothing (`missed` in
  `FinalsCounted`).
- Integrity compares sets of (pid, thread id): a second process with the PID of
  a first would pass for it.

## 5. What is proved

For any sets of processes (under `ProcessAssumption`: the families are
disjoint and an evasive process is a detached one; `CodeAssumption`: exit codes
are 0..255), of `RunLifecycle`:

- `Invariance`: `Spec => []IInv`; from it `TypeCorrect`, `Containment`,
  `Sealing`, `Manifest_First`, `ExitCodes_Backed`, `Quiescence`, and for steps
  `Forward` and `Sealed_For_Good`;
- `Refinement`: a launch implements `RunContract`, one lemma per group of
  actions (`ProcessesRefine`, `WorkloadRefine`, `ExecuteRefine`,
  `ReportingRefine`) showing each step to be one of the contract or none;
- `Helpers_Explained`, from one more invariant (`HelpersSettled`: outside the
  stages of the shell nothing that a scan sees is left of its tree, unless the
  task was cancelled or panicked, or its settling came to its deadline).

`IInv` is needed because none of these is inductive.  `TreeGone` carries the
argument of containment: after the group and the tracked tree were settled
either no process of the target runs but evasive ones - and these can only fork
their like - or the stop was forced.  `TroubleIsPartial` says that a forced stop
or an error is in `partial` by the time the manifest is final, so that the two
exclude each other.  `StaysComplete` follows completeness through the four steps
of `finalize_manifest`: what was found complete stays so but for evasive
processes, and what is hashed is what there is then.  `OneResult` and
`EndExplained` tie the workload's answer, or its panic, to the branch of
`select!`; `ShellContained` says in which stages a process of the shell's group
may run; `DiskStage` ties the phase to the stage of the manifest.  The proof has
one step per action and one per conjunct it disturbs.

For any family of processes, any number of empty checks and any scan, of
`ProcessSettle` (under `SettleAssumption`): `Invariance`, `EldersGone`,
`KnownGone`, `ChecksEarnt`, `TypeCorrect`, and `CleanReturnIsEmpty`: if the
family forks fewer generations than there are empty checks, a clean return
leaves no marked process: then no process that keeps the token is `Evasive` in
`RunLifecycle`. Here `IInv` says what a scan cannot miss: a running process of
which no ancestor has been forked since settling began is in every listing, and
each empty check costs the survivors one generation (`Generations`).

For a snapshot of any number of chunks, a broadcast of any capacity and any
inspector, of `Attach` (under `AttachAssumption`: the capacity is positive):
`TypeCorrect`, `Pending_IsCurrent`, `Success_IsWhole`, `Snapshot_HasNoHole` and
`Refinement`, that the session implements `InspectorRpc`.  `IInv` has a part for
each thing that is in two places at once.  `Numbered`: what is under way in
either direction is in the order of its ids, so that an answer to the last
command is the last message there is.  `StillAsked`: of the commands that were
given up, only those whose failure is tolerated can still be performed once the
session has gone on; `ProfilersStop` needs it, for a `start` performed late would
leave a profiler running.  `InOrder`: while a snapshot is taken, late responses
come first on the wire, then chunks that follow those in the broadcast, which
follow those in the file, and then the response, which finds all of them sent;
so when `Quiet` ends the loop, what is missing in the file is what the broadcast
holds.  `FileInOrder` says of the file itself, lag or not, that it has no hole.
The preservation of `InOrder` (`SnapshotStep`) is the
longest proof.

For any maximum of events, any number of records and of foreign signals, of
`Probe` (under `ProbeAssumption`): `TypeCorrect`, `Streams_Sealed`,
`Async_Accounted` and `Cut_Explained`.  Since any write may be lost, `IInv` says
of each file what holds with or without its last record.  `AllNumbered`: the
numbers given out are below `sequence`, those in the buffer above those in the
stream it will be flushed to.  `SwitchedOff`: at each step of `finish`, what is
already switched off, so that nothing is recorded behind a finish record
(`FinishIsLast`) or counted after a summary (`SummaryIsLast`).  `Signalled`
counts dispatches: a cleanup has cost one and an exit during it another, and
there are no more dispatches than signals sent.

For any number of directories and of commands, any of which may overlap, fail
or be killed, of `Artifacts` (under `ArtifactsAssumption`: commands and file
names are distinct): `TypeCorrect`, `Accepts_OnlyFinishedRuns` and
`Manifest_OnlyWorsens`.  `HonestInv` says that every manifest, on disk or in the
memory of a command, tells what the launch did (`HonestRun`), whichever command
wrote it back last.  The theorem also covers three commands at once, which the
run does not: with two analyses and a clean, partial can be taken back from a
run that was whole until clean removed its data, and only from such a run.
`SealedInv` adds where temporary files can be (`Temporary`) and that a command
that has had its directories to itself remembers what is still there
(`OneAtATime`, `Remembers`): from it `Accepts_SealedRuns` and
`Refreshes_Inventory`, for commands that do not overlap.

For any finite number of isolates, any number of resources, events, timers and
failing or cut writes, of `Streams` (under `StreamsAssumption`: there are
finitely many isolates): `Streams_Invariant`, and from it

- `Analysis_Splits`.  A record's key has its isolate's (pid, thread id), so the
  resources, parents and summaries that are looked up for a record are found
  among those of its own isolate.  This needs no more of the history than
  types.
- `Chains_Honest`.  Every known init says what its isolate knew (`RecordsInv`), and a
  trigger is older than what it triggers, so that on the way up the numbers
  decrease and none repeats (`Descends`).  Where no write went wrong, every older
  resource is in the stream before it is referred to (`OrderInv`: an isolate
  drops events only once it has had its maximum, and then drops all, so that
  none before a kept one is missing), and the chain goes all the way or to the
  limit (`ChainComplete`).
- `Loss_Explained`.  A summary is its isolate's last record (`LastInv`) and its
  number of dropped events the final one, so that of the events that happened
  each is a record before it or in that number (`CountInv`).

`Inv` has these five parts (`TypesInv` is the fifth).  What makes it inductive is
that the steps of an isolate are of four kinds (`Quiet`, `Hook`, `Flushing`,
`Summarizing`) that say what happens to its state and to each file, and that no
step takes back what a record told (`StaysTold`).

For any input that `Analysis` describes, of the pure parts
(`InputsAssumption`):

- `Profiles_Attributed`.  `Below`, which the model computes level by level, is the
  least set that has a node and is closed under children (`BelowIs`); a sample's
  stack is the nodes it is below (`StackIs`), and the recursion of
  `aggregate_heap` adds up what is below (`HeapTotals`).  The rest is sums by key
  over frames and over stacks (`SumParts`, `SumOverUnion`, `SumOverParts`), and
  what the cut of a sorted list leaves out (`KeptIs`).
- `Assessment_Sound`.  The recurrences of `viterbi` have a solution
  (`ViterbiIs`), in which each score is the best that a step can give
  (`ScoreStep`); so no labelling is above the chosen one (`ViterbiBest`).  A
  labelling has the score of its opposite in the renumbered model
  (`ScoreEither`), whose `viterbi` is thus the opposite of a most probable one.
  That the two have one verdict (`VerdictEither`) is the rest: it looks at two
  groups in an order that depends on their means.  Where the means are equal, groups
  with any spread are not separated (`SameMean`: the spread of numbers is
  0 only if they are all equal, `ApartSign`), so both have the same percentile.
- `Gate_Sound`, by the cases of a baseline's sign: negative ones included, with the
  inequality that the code then checks.

Induction over the data (lengths of files, depths of trees, numbers of samples)
is by the lemmas `NatInductive`, `UpToInductive` and `FiniteInductive` of
`DataLemmas`: they state it for a set of numbers or of subsets, from the
well-foundedness of `<`, since the library's induction theorems, which take an
operator, cannot be instantiated by the installed provers.  A recursive
function of the model is first shown to exist (some function satisfies its
equation), which is what lets the equation be used.

Numbers that are floating-point in the code (times, sizes, metrics, scores) are
integers in the model: the theorems say nothing of rounding.

Only model-checked: all liveness (`BoundedRun`, `StopTerminates`, `SettleEnds`,
`StopObeyed`, `SessionEnds`), which is out of the prover's reach, and
`FinalsCounted`.

## 6. What is not modelled, and the plan

Left out for good: of `doctor.rs` the fit of the model, forward and backward
(iterations over floating-point numbers), `report.rs` and the schemas
(rendering, declarations), benchmarks and release scripts, the numbers a sample
holds but for one, the Windows Job Object, the signals and the exit of worker
threads (in a worker Node delivers no signals, and `process.exit` ends only the
thread).

Of `analyze.rs` also: how source maps and redaction change a frame (only that
they may make one of two), percentiles and averages, the
findings (thresholds over the summary), wait times, and `promise_resolve`
events, which the analysis counts and otherwise ignores.

What could come next, in order:

1. `TrackerIdentity`: reuse of a PID, of the root's in particular, against the
   start times that `ProcessTracker` records.
2. A launch in an output directory that `clean` works on.
3. The safety half of the liveness properties: a measure of what `SettleEnds`,
   `StopObeyed` and `SessionEnds` wait for, which no step increases and each
   fair step decreases, as theorems beside the runs.
