------------------------------ MODULE Attach ------------------------------
(* `v8scope attach`: attach::execute, which sends one Inspector command     *)
(* after the other through CdpClient, and capture_heap_snapshot, which      *)
(* takes chunk events from the client's broadcast meanwhile.                *)
(*                                                                           *)
(* Three actors: the session (execute and the command it awaits), the       *)
(* reader task, and the inspector at the other end of the WebSocket, whose  *)
(* messages arrive in order until the connection is lost.                   *)
EXTENDS Naturals, Sequences, FiniteSets

CONSTANTS
    Chunks,         \* chunk events of a heap snapshot
    Capacity        \* of the event broadcast (4096 in the code)

ASSUME AttachAssumption == Chunks \in Nat /\ Capacity \in Nat \ {0}

VARIABLES
    opts,           \* --mode and --heap-snapshot
    step,           \* of execute
    phase,
    interrupted,    \* Ctrl+C ended the profiled window
    stage,          \* of the command that execute awaits
    next_id,        \* CdpClient.next_id
    pending,        \* ids in the pending map
    slot,           \* the oneshot of the last command
    reader,         \* the reader task runs
    connected,
    toPeer, toClient, \* messages under way
    performed,      \* id of the last command the inspector performed
    sampling,       \* profilers that run in the target
    events,         \* the subscriber's part of the broadcast
    lagged,         \* it missed some
    file,           \* chunks written to the heap snapshot
    result,         \* what the last command returned
    saved,          \* profiles on disk
    disk,           \* the stage of manifest.json on disk
    partial, code

netVars == <<connected, toPeer, toClient, performed, sampling>>
callVars == <<stage, next_id, pending, slot, result>>
eventVars == <<events, lagged>>
diskVars == <<file, saved, disk, partial>>
mainVars == <<opts, step, phase, interrupted, code>>
vars == <<netVars, callVars, eventVars, diskVars, mainVars, reader>>
---------------------------------------------------------------------------
(* The steps of execute; the names of commands are those of the protocol's  *)
(* methods, shortened.                                                       *)
AfterSetup == IF opts.heap THEN "heap_enable" ELSE "window"
AfterProfiles == IF opts.snapshot THEN "snapshot" ELSE "heap_disable"
AfterCpu == IF opts.heap THEN "heap_stop" ELSE AfterProfiles

Following ==
    [evaluate    |-> "create",
     create      |-> IF opts.cpu THEN "cpu_enable" ELSE AfterSetup,
     cpu_enable  |-> "cpu_start",
     cpu_start   |-> AfterSetup,
     heap_enable |-> "heap_start",
     heap_start  |-> "window",
     window      |-> IF opts.cpu THEN "cpu_stop" ELSE AfterCpu,
     cpu_stop    |-> "save_cpu",
     save_cpu    |-> "cpu_disable",
     cpu_disable |-> AfterCpu,
     heap_stop   |-> "save_heap",
     save_heap   |-> AfterProfiles,
     snapshot    |-> "heap_disable",
     heap_disable |-> "finish",
     finish      |-> "reanalyze",
     reanalyze   |-> "finalize",
     finalize    |-> "return"]

Steps == (DOMAIN Following) \cup {"return"}

Commands == {"evaluate", "cpu_enable", "cpu_start", "heap_enable", "heap_start",
             "cpu_stop", "cpu_disable", "heap_stop", "snapshot", "heap_disable"}

(* Mutant: `let _ =` where a profile is fetched.                             *)
Tolerated_Stops == {"cpu_disable", "heap_disable", "cpu_stop", "heap_stop"}

(* `let _ =` drops the error of these.                                      *)
Tolerated == {"cpu_disable", "heap_disable"}

Profile == [cpu_stop |-> "cpu", heap_stop |-> "heap"]
Stops == DOMAIN Profile

Empty == [kind |-> "empty"]
Closed == [kind |-> "closed"]

Options == {o \in [cpu : BOOLEAN, heap : BOOLEAN, snapshot : BOOLEAN] :
                o.cpu \/ o.heap}

(* CdpClient::connect succeeded.                                            *)
Init ==
    /\ opts \in Options
    /\ step = "evaluate" /\ phase = "running" /\ interrupted = FALSE /\ code = 0
    /\ stage = "idle" /\ next_id = 1 /\ pending = {} /\ slot = Empty
    /\ result = "none"
    /\ reader = TRUE /\ connected = TRUE
    /\ toPeer = <<>> /\ toClient = <<>>
    /\ performed = 0 /\ sampling = {}
    /\ events = <<>> /\ lagged = FALSE
    /\ file = <<>> /\ saved = {} /\ disk = "none" /\ partial = FALSE
---------------------------------------------------------------------------
(* The inspector.                                                            *)

(* Whether V8 accepts a command: it may refuse any, and has a profile to    *)
(* return only if it was sampling.                                          *)
MayAccept(method) == method \in Stops => Profile[method] \in sampling

Sampling(method, ok) ==
    CASE method = "cpu_start" /\ ok  -> sampling \cup {"cpu"}
      [] method = "heap_start" /\ ok -> sampling \cup {"heap"}
      [] method = "cpu_stop" /\ ok   -> sampling \ {"cpu"}
      [] method = "heap_stop" /\ ok  -> sampling \ {"heap"}
      [] OTHER                       -> sampling

(* A snapshot is sent as events before the response.                        *)
EventsOf(method) ==
    IF method = "snapshot" THEN [i \in 1..Chunks |-> [kind |-> "chunk", index |-> i]]
    ELSE <<>>

PeerPerforms ==
    /\ phase = "running" /\ connected /\ toPeer # <<>>
    /\ LET c == Head(toPeer) IN
       \E ok \in BOOLEAN :
          /\ ok => MayAccept(c.method)
          /\ sampling' = Sampling(c.method, ok)
          /\ performed' = c.id
          /\ toClient' = toClient
                \o (IF ok THEN EventsOf(c.method) ELSE <<>>)
                \o <<[kind |-> "response", id |-> c.id, ok |-> ok]>>
    /\ toPeer' = Tail(toPeer)
    /\ UNCHANGED <<callVars, eventVars, diskVars, mainVars, reader, connected>>

(* The connection is lost, with what was under way.                         *)
Disconnect ==
    /\ phase = "running" /\ connected
    /\ connected' = FALSE /\ toPeer' = <<>>
    /\ \E n \in 0..Len(toClient) : toClient' = SubSeq(toClient, 1, n)
    /\ UNCHANGED <<callVars, eventVars, diskVars, mainVars, reader, performed,
                   sampling>>

Peer == PeerPerforms \/ Disconnect
---------------------------------------------------------------------------
(* The reader task of CdpClient::connect, aborted when the client is dropped.*)
Reading == reader /\ phase = "running"

(* Mutant: whoever waits gets the response.                                 *)
ReadResponse_Unrouted ==
    /\ Reading /\ toClient # <<>> /\ Head(toClient).kind = "response"
    /\ IF pending # {}
       THEN pending' = {} /\ slot' = Head(toClient)
       ELSE UNCHANGED <<pending, slot>>
    /\ toClient' = Tail(toClient)
    /\ UNCHANGED <<stage, next_id, result, eventVars, diskVars, mainVars, reader,
                   connected, toPeer, performed, sampling>>

(* The response goes to the oneshot pending under its id, if there is one.  *)
ReadResponse ==
    /\ Reading /\ toClient # <<>> /\ Head(toClient).kind = "response"
    /\ IF Head(toClient).id \in pending
       THEN /\ pending' = pending \ {Head(toClient).id}
            /\ slot' = IF Head(toClient).id = next_id - 1 /\ stage # "idle"
                       THEN Head(toClient) ELSE slot
       ELSE UNCHANGED <<pending, slot>>
    /\ toClient' = Tail(toClient)
    /\ UNCHANGED <<stage, next_id, result, eventVars, diskVars, mainVars, reader,
                   connected, toPeer, performed, sampling>>

Subscribed == phase = "running" /\ step = "snapshot" /\ stage # "idle"

(* Mutant: an unbounded broadcast.                                          *)
Broadcast_Unbounded(e) ==
    IF ~Subscribed THEN UNCHANGED eventVars
    ELSE events' = Append(events, e) /\ UNCHANGED lagged

(* An event goes to the subscriber; a full broadcast drops its oldest.      *)
Broadcast(e) ==
    IF ~Subscribed THEN UNCHANGED eventVars
    ELSE IF Len(events) < Capacity
    THEN events' = Append(events, e) /\ UNCHANGED lagged
    ELSE events' = Append(Tail(events), e) /\ lagged' = TRUE

ReadEvent ==
    /\ Reading /\ toClient # <<>> /\ Head(toClient).kind = "chunk"
    /\ Broadcast(Head(toClient))
    /\ toClient' = Tail(toClient)
    /\ UNCHANGED <<callVars, diskVars, mainVars, reader, connected, toPeer,
                   performed, sampling>>

(* The stream ends or fails: every oneshot is dropped.                      *)
ReaderCloses ==
    /\ Reading /\ ~connected /\ toClient = <<>>
    /\ reader' = FALSE
    /\ pending' = {}
    /\ slot' = IF next_id - 1 \in pending THEN Closed ELSE slot
    /\ UNCHANGED <<netVars, stage, next_id, result, eventVars, diskVars, mainVars>>

Reader == ReadResponse \/ ReadEvent \/ ReaderCloses
---------------------------------------------------------------------------
(* The session: command_with_timeout.                                       *)

sessionRest == <<opts, interrupted, reader, saved, disk, partial>>

Proceed == step' = Following[step] /\ UNCHANGED <<phase, code>>

(* A `?`: main reports 70.                                                  *)
Abandon == phase' = "returned" /\ code' = 70 /\ UNCHANGED step

(* The command is over: its result is used or its error propagated.         *)
Conclude(ok) ==
    /\ stage' = "idle" /\ result' = (IF ok THEN "ok" ELSE "error")
    /\ IF ok \/ step \in Tolerated THEN Proceed ELSE Abandon

(* The id is taken and its oneshot pending; the snapshot has subscribed to  *)
(* events and created its file before.                                      *)
Call ==
    /\ phase = "running" /\ stage = "idle" /\ step \in Commands
    /\ next_id' = next_id + 1
    /\ pending' = pending \cup {next_id}
    /\ slot' = Empty /\ stage' = "send" /\ result' = "none"
    /\ events' = <<>> /\ lagged' = FALSE
    /\ UNCHANGED <<sessionRest, netVars, file, step, phase, code>>

(* A send to a lost connection may seem to succeed.                         *)
Send ==
    /\ phase = "running" /\ stage = "send"
    /\ stage' = "await"
    /\ toPeer' = IF connected THEN Append(toPeer, [id |-> next_id - 1, method |-> step])
                 ELSE toPeer
    /\ UNCHANGED <<sessionRest, next_id, pending, slot, result, eventVars, file,
                   connected, toClient, performed, sampling, step, phase, code>>

SendFails ==
    /\ phase = "running" /\ stage = "send" /\ ~connected
    /\ pending' = pending \ {next_id - 1}
    /\ Conclude(FALSE)
    /\ UNCHANGED <<sessionRest, netVars, next_id, slot, eventVars, file>>

(* The oneshot was filled or dropped.  A snapshot goes on until its events  *)
(* have been quiet for 250 ms.                                              *)
Answered ==
    /\ phase = "running" /\ stage = "await" /\ slot # Empty
    /\ LET ok == slot.kind = "response" /\ slot.ok
       IN IF step = "snapshot" /\ ok
          THEN stage' = "quiet" /\ result' = "ok" /\ UNCHANGED <<step, phase, code>>
          ELSE Conclude(ok)
    /\ UNCHANGED <<sessionRest, netVars, next_id, pending, slot, eventVars, file>>

(* Mutant: wait for the answer for ever.                                    *)
TimesOut_Never == FALSE /\ UNCHANGED vars

TimesOut ==
    /\ phase = "running" /\ stage = "await" /\ slot = Empty
    /\ stage' = "forget"
    /\ UNCHANGED <<sessionRest, netVars, next_id, pending, slot, result, eventVars,
                   file, step, phase, code>>

(* Mutant: the entry stays in the map.                                      *)
Forget_Leaks ==
    /\ phase = "running" /\ stage = "forget"
    /\ Conclude(FALSE)
    /\ UNCHANGED <<sessionRest, netVars, next_id, pending, slot, eventVars, file>>

Forget ==
    /\ phase = "running" /\ stage = "forget"
    /\ pending' = pending \ {next_id - 1}
    /\ Conclude(FALSE)
    /\ UNCHANGED <<sessionRest, netVars, next_id, slot, eventVars, file>>

Command == Call \/ Send \/ SendFails \/ Answered \/ TimesOut \/ Forget
---------------------------------------------------------------------------
(* The session: capture_heap_snapshot, whose loop takes events while the    *)
(* command is under way and after it.                                       *)

(* Mutant: a receiver that lagged carries on.                               *)
TakeChunk_Lagging ==
    /\ Subscribed /\ events # <<>>
    /\ file' = Append(file, Head(events).index)
    /\ events' = Tail(events) /\ lagged' = FALSE
    /\ UNCHANGED <<sessionRest, netVars, callVars, step, phase, code>>

TakeChunk ==
    /\ Subscribed /\ events # <<>> /\ ~lagged
    /\ file' = Append(file, Head(events).index)
    /\ events' = Tail(events)
    /\ UNCHANGED <<sessionRest, netVars, callVars, lagged, step, phase, code>>

(* The receiver lagged, or a chunk could not be written or flushed: the     *)
(* command is dropped as it is.                                              *)
GivesUp ==
    /\ Subscribed /\ (lagged \/ events # <<>> \/ stage = "quiet")
    /\ stage' = "idle"
    /\ Abandon
    /\ UNCHANGED <<sessionRest, netVars, next_id, pending, slot, result, eventVars,
                   file>>

(* The task that the dropped command's PendingGuard has spawned, if the     *)
(* runtime still runs it.                                                    *)
GuardRemoves ==
    /\ phase = "returned" /\ pending # {}
    /\ pending' = pending \ {next_id - 1}
    /\ UNCHANGED <<stage, next_id, slot, result, netVars, eventVars, diskVars,
                   mainVars, reader>>

(* 250 ms have passed since the last chunk or the answer.  The select! is   *)
(* unbiased: if the task was not polled for so long, the deadline may win   *)
(* over the chunks, or the lag, that the broadcast holds by then.            *)
Quiet ==
    /\ phase = "running" /\ stage = "quiet"
    /\ Conclude(TRUE)
    /\ UNCHANGED <<sessionRest, netVars, next_id, pending, slot, eventVars, file>>

Snapshot == TakeChunk \/ GivesUp \/ Quiet \/ GuardRemoves
---------------------------------------------------------------------------
(* The session: what execute does between commands.                         *)

localRest == <<opts, netVars, callVars, eventVars, file, reader>>
At(s) == phase = "running" /\ stage = "idle" /\ step = s

(* The profiled window: --duration, or Ctrl+C.                              *)
Window ==
    /\ At("window")
    /\ interrupted' \in BOOLEAN
    /\ Proceed
    /\ UNCHANGED <<localRest, saved, disk, partial>>

(* Writing a file may fail.                                                 *)
Writes(s, name) ==
    /\ At(s)
    /\ saved' = saved \cup (IF result = "ok" THEN {name} ELSE {})
    /\ Proceed
    /\ UNCHANGED <<localRest, interrupted, disk, partial>>

ManifestWrite(s, stageOnDisk) ==
    /\ At(s)
    /\ disk' = stageOnDisk
    /\ Proceed
    /\ UNCHANGED <<localRest, interrupted, saved, partial>>

Reanalyze ==
    /\ At("reanalyze")
    /\ Proceed
    /\ UNCHANGED <<localRest, interrupted, saved, disk, partial>>

(* finalize_manifest over the collectors of attach.                         *)
Finalize ==
    /\ At("finalize")
    /\ disk' = "final"
    /\ partial' = ((opts.cpu /\ "cpu" \notin saved) \/ (opts.heap /\ "heap" \notin saved))
    /\ Proceed
    /\ UNCHANGED <<localRest, interrupted, saved>>

Return ==
    /\ At("return")
    /\ phase' = "returned" /\ code' = IF interrupted THEN 130 ELSE 0
    /\ UNCHANGED <<localRest, step, interrupted, saved, disk, partial>>

(* A file that cannot be created or written, a profile or a runtime that is *)
(* not what it should be.                                                    *)
LocalFails ==
    /\ phase = "running" /\ stage = "idle"
    /\ step \notin Commands \ {"snapshot"}
    /\ Abandon
    /\ UNCHANGED <<localRest, interrupted, saved, disk, partial>>

LocalSteps ==
    \/ ManifestWrite("create", "created") \/ Window
    \/ Writes("save_cpu", "cpu") \/ Writes("save_heap", "heap")
    \/ ManifestWrite("finish", "finished") \/ Reanalyze \/ Finalize \/ Return
    \/ LocalFails

Session == Command \/ Snapshot \/ LocalSteps

Next == Session \/ Reader \/ Peer

Spec == Init /\ [][Next]_vars

(* tokio polls the session and the reader, and their timers fire.  Nothing  *)
(* is assumed of the inspector.                                             *)
FairSpec == Spec /\ WF_vars(Session) /\ WF_vars(Reader)
---------------------------------------------------------------------------
Responses == [kind : {"response"}, id : Nat, ok : BOOLEAN]
ChunkEvents == [kind : {"chunk"}, index : 1..Chunks]

TypeOK ==
    /\ opts \in Options /\ step \in Steps
    /\ phase \in {"running", "returned"} /\ code \in {0, 70, 130}
    /\ interrupted \in BOOLEAN /\ reader \in BOOLEAN /\ connected \in BOOLEAN
    /\ stage \in {"idle", "send", "await", "forget", "quiet"}
    /\ next_id \in Nat \ {0} /\ pending \subseteq 1..(next_id - 1)
    /\ slot \in Responses \cup {Empty, Closed} /\ result \in {"none", "ok", "error"}
    /\ toPeer \in Seq([id : Nat, method : Commands])
    /\ toClient \in Seq(Responses \cup ChunkEvents)
    /\ performed \in Nat /\ sampling \subseteq {"cpu", "heap"}
    /\ events \in Seq(ChunkEvents) /\ Len(events) <= Capacity
    /\ lagged \in BOOLEAN /\ file \in Seq(1..Chunks)
    /\ saved \subseteq {"cpu", "heap"}
    /\ disk \in {"none", "created", "finished", "final"} /\ partial \in BOOLEAN

(* However a command ended - answered, late, refused or disconnected -      *)
(* nothing of it stays in the pending map while the session goes on, and    *)
(* the map never holds anything but the last command.                       *)
PendingIsCurrent ==
    /\ phase = "running" /\ stage \in {"idle", "quiet"} => pending = {}
    /\ pending \subseteq {next_id - 1}

(* attach reports success only over a final, complete manifest with every   *)
(* profile that was asked for, each taken from a profiler that had run, and *)
(* leaves no profiler running in the target.                                *)
SuccessIsWhole ==
    phase = "returned" /\ code # 70 =>
        /\ disk = "final" /\ ~partial
        /\ opts.cpu => "cpu" \in saved
        /\ opts.heap => "heap" \in saved
        /\ sampling = {}

Reporting == {"heap_disable", "finish", "reanalyze", "finalize", "return"}

(* A heap snapshot that capture_heap_snapshot accepts is cut at most, never *)
(* holed: the file is the first chunks, each once and in order, however the *)
(* reader and the loop interleave; and unless the receiver lagged, all that *)
(* it lacks is what the broadcast still held when the deadline won.          *)
SnapshotHasNoHole ==
    [][step = "snapshot" /\ step' # step =>
          /\ \A i \in DOMAIN file : file[i] = i
          /\ Len(file) + Len(events) = Chunks \/ lagged]_vars

(* A session ends, whatever the inspector does or fails to do.              *)
SessionEnds == <>(phase = "returned")

Outcome ==
    IF next_id = 1 THEN "none"
    ELSE IF stage \in {"send", "await", "forget"} THEN "waiting"
    ELSE IF result = "ok" THEN "ok" ELSE "error"

(* The pending map, the reader and the timeouts implement InspectorRpc: a   *)
(* late answer is never taken for the answer to a later command.            *)
Rpc == INSTANCE InspectorRpc WITH
    asked <- next_id - 1, performed <- performed, outcome <- Outcome
RpcSpec == Rpc!Spec
===========================================================================
