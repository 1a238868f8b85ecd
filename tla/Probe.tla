------------------------------- MODULE Probe -------------------------------
(* probe.cjs in the main thread of one process of the profiled program.     *)
(*                                                                           *)
(* JavaScript runs one callback at a time; the probe's finish is taken apart *)
(* because a SIGKILL may fall between any two of its writes.  Around it: the *)
(* application's own handlers, and v8scope, which stops the process with     *)
(* SIGINT (Unix) or a stop file (Windows).                                   *)
EXTENDS Naturals, Sequences

CONSTANTS
    MaxEvents,      \* V8SCOPE_ASYNC_MAX_EVENTS
    MaxRecords,     \* bound on records and async events before finish
    Terms           \* bound: SIGTERMs that others send

ASSUME ProbeAssumption ==
    /\ MaxEvents \in Nat \ {0} /\ MaxRecords \in Nat /\ Terms \in Nat

(* On Unix, in the target's group beside it, or not: the target itself or a *)
(* descendant that has left the group.                                       *)
Roles == {"alone", "grouped", "windows"}
Signals == {"SIGINT", "SIGTERM"}

VARIABLES
    role,           \* the process's place in a run
    async,          \* V8SCOPE_ASYNC_PATH is set
    sent, pending,  \* signals sent, and not yet dispatched
    stopFile,       \* v8scope has written the stop file
    process, exitedBy,
    listeners,      \* the application's own, by signal
    cleanup,        \* the asynchronous cleanup that one of them started
    pc, after,      \* step of finish, and what its caller does then
    active,         \* timers, observers and hooks of the probe
    finished,
    sequence,
    telemetry,      \* telemetry.ndjson, this process's records
    stream,         \* events.ndjson, this process's records
    buffer, events, dropped, \* of the async probe
    happened        \* async events while the hook was enabled

outVars == <<role, async, sent, stopFile>>
appVars == <<listeners, cleanup>>
finishVars == <<pc, after, active, finished>>
asyncVars == <<stream, buffer, events, dropped, happened>>
vars == <<outVars, pending, process, exitedBy, appVars, finishVars, sequence,
          telemetry, asyncVars>>
---------------------------------------------------------------------------
(* A record takes the next sequence number.                                 *)
Base(kind) == [kind |-> kind, sequence |-> sequence]

(* write drops its errors: a record may be lost, its number is used.        *)
Written(file, record) == {file, Append(file, record)}

Running == process = "running"
Looping == Running /\ pc = "loop"

Async(handles) == IF async THEN handles ELSE {}

Init ==
    /\ role \in Roles /\ async \in BOOLEAN
    /\ sent = [s \in Signals |-> 0] /\ pending = sent /\ stopFile = FALSE
    /\ process = "running" /\ exitedBy = "none"
    /\ listeners = [s \in Signals |-> {}] /\ cleanup = "none"
    /\ pc = "loop" /\ after = "loop" /\ finished = FALSE
    /\ active = {"sample", "gc", "stop"} \cup Async({"flush", "hook"})
    /\ sequence = 1
    /\ telemetry \in Written(<<>>, [kind |-> "start", sequence |-> 0])
    /\ stream = <<>> /\ buffer = <<>>
    /\ events = 0 /\ dropped = 0 /\ happened = 0
---------------------------------------------------------------------------
(* Recording.                                                                *)

(* The bound leaves room for records after finish.                          *)
Room == sequence < MaxRecords + (IF finished THEN 4 ELSE 0)

(* The interval timer and the observer of garbage collections.              *)
Record(handle) ==
    /\ Looping /\ handle \in active /\ Room
    /\ telemetry' \in Written(telemetry, Base("observed"))
    /\ sequence' = sequence + 1
    /\ UNCHANGED <<outVars, pending, process, exitedBy, appVars, finishVars, asyncVars>>

(* Mutant: one event too many.                                               *)
Push_OffByOne ==
    /\ Looping /\ "hook" \in active /\ happened < MaxRecords
    /\ happened' = happened + 1 /\ events' = events + 1
    /\ events <= MaxEvents
    /\ buffer' = Append(buffer, Base("event"))
    /\ sequence' = sequence + 1
    /\ UNCHANGED <<outVars, pending, process, exitedBy, appVars, finishVars,
                   telemetry, stream, dropped>>

(* push, from a callback of async_hooks.                                    *)
Push ==
    /\ Looping /\ "hook" \in active /\ happened < MaxRecords
    /\ happened' = happened + 1
    /\ IF events >= MaxEvents
       THEN dropped' = dropped + 1 /\ UNCHANGED <<events, buffer, sequence>>
       ELSE /\ events' = events + 1
            /\ buffer' = Append(buffer, Base("event"))
            /\ sequence' = sequence + 1
            /\ UNCHANGED dropped
    /\ UNCHANGED <<outVars, pending, process, exitedBy, appVars, finishVars,
                   telemetry, stream>>

(* Mutant: the events of a failed write are not counted.                    *)
FlushBuffer_Uncounted ==
    /\ buffer' = <<>> /\ UNCHANGED dropped
    /\ stream' \in {stream, stream \o buffer}

(* The buffer is written, or dropped and counted.                           *)
FlushBuffer ==
    /\ buffer' = <<>>
    /\ \/ stream' = stream \o buffer /\ UNCHANGED dropped
       \/ dropped' = dropped + Len(buffer) /\ UNCHANGED stream

Flush ==
    /\ Looping /\ "flush" \in active
    /\ FlushBuffer
    /\ UNCHANGED <<outVars, pending, process, exitedBy, appVars, finishVars,
                   sequence, telemetry, events, happened>>

Recording == Record("sample") \/ Record("gc") \/ Push \/ Flush
---------------------------------------------------------------------------
(* finish and its callers.                                                   *)

(* Mutant: the probe exits when the application's listeners have run.       *)
Continue_Exits(next) ==
    IF next = "loop" THEN UNCHANGED <<process, exitedBy, appVars>>
    ELSE /\ process' = "exited"
         /\ exitedBy' = IF next = "app" THEN "app" ELSE "probe"
         /\ cleanup' = IF next \in Signals THEN "running" ELSE cleanup
         /\ UNCHANGED listeners

(* What the caller of finish does then: process.exit (whose exit event      *)
(* finds the probe finished), the application's listeners for a signal, or  *)
(* nothing.                                                                  *)
Continue(next) ==
    CASE next \in {"probe", "app"} ->
            /\ process' = "exited" /\ exitedBy' = next
            /\ UNCHANGED appVars
      [] next \in Signals ->
            /\ cleanup' = IF cleanup = "none" THEN "running" ELSE cleanup
            /\ listeners' = [listeners EXCEPT ![next] = @ \ {"once"}]
            /\ UNCHANGED <<process, exitedBy>>
      [] OTHER -> UNCHANGED <<process, exitedBy, appVars>>

(* Mutant: the interval timer runs on.                                      *)
Finish_Sampling(next) ==
    IF finished
    THEN Continue(next) /\ UNCHANGED finishVars
    ELSE /\ finished' = TRUE /\ active' = active \ {"stop"}
         /\ pc' = "final" /\ after' = next
         /\ UNCHANGED <<process, exitedBy, appVars>>

Finish(next) ==
    IF finished
    THEN Continue(next) /\ UNCHANGED finishVars
    ELSE /\ finished' = TRUE /\ active' = active \ {"stop", "sample"}
         /\ pc' = "final" /\ after' = next
         /\ UNCHANGED <<process, exitedBy, appVars>>

(* sample(true); then the observers are disconnected.                       *)
WriteFinal ==
    /\ Running /\ pc = "final"
    /\ telemetry' \in Written(telemetry, Base("final"))
    /\ sequence' = sequence + 1
    /\ active' = active \ {"gc"}
    /\ pc' = IF async THEN "flush" ELSE "record"
    /\ UNCHANGED <<outVars, pending, process, exitedBy, appVars, after, finished,
                   asyncVars>>

(* asyncState.finish.                                                        *)
FinalFlush ==
    /\ Running /\ pc = "flush"
    /\ active' = active \ {"hook", "flush"}
    /\ FlushBuffer
    /\ pc' = "summary"
    /\ UNCHANGED <<outVars, pending, process, exitedBy, appVars, after, finished,
                   sequence, telemetry, events, happened>>

Summary == [kind |-> "async_summary", sequence |-> sequence, events |-> events,
            dropped |-> dropped]

WriteSummary ==
    /\ Running /\ pc = "summary"
    /\ stream' \in Written(stream, Summary)
    /\ sequence' = sequence + 1
    /\ pc' = "record"
    /\ UNCHANGED <<outVars, pending, process, exitedBy, appVars, after, active,
                   finished, telemetry, buffer, events, dropped, happened>>

WriteFinish ==
    /\ Running /\ pc = "record"
    /\ telemetry' \in Written(telemetry, Base("finish"))
    /\ sequence' = sequence + 1
    /\ pc' = "loop" /\ Continue(after)
    /\ UNCHANGED <<outVars, pending, after, active, finished, asyncVars>>

Finishing == WriteFinal \/ FinalFlush \/ WriteSummary \/ WriteFinish

calleeRest == <<outVars, sequence, telemetry, asyncVars>>

Then(signal) == IF listeners[signal] = {} THEN "probe" ELSE signal

(* Mutant: a signal after finish is ignored.                                 *)
Dispatch_Once(signal) ==
    /\ Looping /\ pending[signal] > 0
    /\ pending' = [pending EXCEPT ![signal] = @ - 1]
    /\ IF finished THEN UNCHANGED <<process, exitedBy, appVars, finishVars>>
                   ELSE Finish(Then(signal))
    /\ UNCHANGED calleeRest

(* The probe's handler is the first listener of its signal.                 *)
Dispatch(signal) ==
    /\ Looping /\ pending[signal] > 0
    /\ pending' = [pending EXCEPT ![signal] = @ - 1]
    /\ Finish(Then(signal))
    /\ UNCHANGED calleeRest

(* The stop timer sees the file: requestStop.  An owner gets a synthetic    *)
(* SIGINT.                                                                   *)
RequestStop ==
    /\ Looping /\ "stop" \in active /\ stopFile
    /\ Finish(Then("SIGINT"))
    /\ UNCHANGED <<calleeRest, pending>>

(* The loop is empty: beforeExit.  The application may put off its end.     *)
BeforeExit ==
    /\ Looping /\ cleanup # "running"
    /\ Finish("loop") \/ Finish("app")
    /\ UNCHANGED <<calleeRest, pending>>

(* The application calls process.exit, or throws.                           *)
AppExits ==
    /\ Looping
    /\ Finish("app")
    /\ UNCHANGED <<calleeRest, pending>>

Callers ==
    \/ \E s \in Signals : Dispatch(s)
    \/ RequestStop \/ BeforeExit \/ AppExits
---------------------------------------------------------------------------
(* The application and v8scope.                                             *)
jsRest == <<role, async, process, exitedBy, finishVars, sequence, telemetry,
            asyncVars>>

AppListens(signal) ==
    /\ Looping /\ listeners[signal] = {} /\ cleanup = "none"
    /\ \E how \in {"on", "once"} :
          listeners' = [listeners EXCEPT ![signal] = {how}]
    /\ UNCHANGED <<jsRest, sent, pending, stopFile, cleanup>>

CleanupEnds ==
    /\ Looping /\ cleanup = "running"
    /\ cleanup' = "done"
    /\ UNCHANGED <<jsRest, sent, pending, stopFile, listeners>>

(* interrupt_group reaches every member of the target's group, settle_group *)
(* those that outlive the target, settle_tracked_processes the others, each *)
(* once.                                                                     *)
Interrupts == [alone |-> 1, grouped |-> 2, windows |-> 0]

Limit == [SIGINT |-> Interrupts[role],
          SIGTERM |-> IF role = "windows" THEN 0 ELSE Terms]

Send(signal) ==
    /\ Running /\ sent[signal] < Limit[signal]
    /\ sent' = [sent EXCEPT ![signal] = @ + 1]
    /\ pending' = [pending EXCEPT ![signal] = @ + 1]
    /\ UNCHANGED <<jsRest, appVars, stopFile>>

(* stop_child on Windows; the file is removed once the target has left.     *)
WriteStopFile ==
    /\ Running /\ role = "windows" /\ ~stopFile
    /\ stopFile' = TRUE
    /\ UNCHANGED <<jsRest, appVars, sent, pending>>

(* A deadline of v8scope, or anybody's SIGKILL.                              *)
Kill ==
    /\ Running
    /\ process' = "killed"
    /\ UNCHANGED <<outVars, pending, exitedBy, appVars, finishVars, sequence,
                   telemetry, asyncVars>>

Outside ==
    \/ \E s \in Signals : AppListens(s) \/ Send(s)
    \/ CleanupEnds \/ WriteStopFile \/ Kill

Next == Recording \/ Finishing \/ Callers \/ Outside

Spec == Init /\ [][Next]_vars

(* The event loop dispatches what is ready: the application's callbacks     *)
(* return.                                                                   *)
FairSpec ==
    /\ Spec
    /\ WF_vars(Finishing)
    /\ \A s \in Signals : WF_vars(Dispatch(s))
    /\ WF_vars(RequestStop)
---------------------------------------------------------------------------
TypeOK ==
    /\ role \in Roles /\ async \in BOOLEAN /\ stopFile \in BOOLEAN
    /\ \A s \in Signals : pending[s] \in 0..sent[s] /\ sent[s] \in 0..Limit[s]
    /\ process \in {"running", "exited", "killed"}
    /\ exitedBy \in {"none", "probe", "app"}
    /\ listeners \in [Signals -> SUBSET {"on", "once"}]
    /\ cleanup \in {"none", "running", "done"}
    /\ pc \in {"loop", "final", "flush", "summary", "record"}
    /\ after \in {"loop", "probe", "app"} \cup Signals
    /\ active \subseteq {"sample", "gc", "stop", "flush", "hook"}
    /\ finished \in BOOLEAN /\ sequence \in Nat
    /\ Len(buffer) <= events /\ events \in 0..MaxEvents

Sealed(file, kind) ==
    /\ \A i, j \in DOMAIN file : i < j => file[i].sequence < file[j].sequence
    /\ \A i \in DOMAIN file : file[i].kind = kind => i = Len(file)

(* However finish is reached, and wherever the process dies: the finish     *)
(* record and the async summary are written once and nothing follows them;  *)
(* records are in the order of their numbers, and no number is used twice.  *)
StreamsSealed ==
    /\ Sealed(telemetry, "finish") /\ Sealed(stream, "async_summary")
    /\ \A i \in DOMAIN telemetry, j \in DOMAIN stream :
          telemetry[i].sequence # stream[j].sequence

(* An async summary accounts for every event: written, over the maximum, or *)
(* lost in a failed flush.                                                   *)
AsyncAccounted ==
    \A i \in DOMAIN stream : stream[i].kind = "async_summary" =>
        /\ happened = (Len(stream) - 1) + stream[i].dropped
        /\ buffer = <<>>

Cut == exitedBy = "probe" /\ cleanup = "running"

(* The probe cuts an application's cleanup short only at a second signal:   *)
(* never in the target itself, which v8scope interrupts once, nor where a   *)
(* stop file asks.                                                           *)
CutExplained == Cut => sent["SIGINT"] + sent["SIGTERM"] > 1

(* beforeExit has finished the probe, and cleared its stop timer, but the   *)
(* application went on.                                                      *)
Outlived == finished /\ after = "loop"

Asked == stopFile \/ \E s \in Signals : pending[s] > 0

(* A process that is asked to stop ends, or its application has taken over, *)
(* whatever ran in it before: after any signal, and after a stop file too   *)
(* but where it was beforeExit that finished the probe.                      *)
StopObeyed ==
    Asked ~> \/ ~Running \/ cleanup # "none"
             \/ role = "windows" /\ Outlived

(* docs/architecture.md:26 and probe.cjs:237 of the repository: application *)
(* handlers retain ownership of shutdown and may finish asynchronous        *)
(* cleanup.                                                                  *)
CleanupRetained == ~Cut
===========================================================================
