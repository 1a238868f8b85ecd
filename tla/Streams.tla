------------------------------ MODULE Streams ------------------------------
(* The isolates of a launch, each with the probe, append to the same two    *)
(* files at the same time, and a write may fail or be cut short.  The       *)
(* analysis (NdjsonAnalysis) may find the files in any state they pass      *)
(* through: an isolate that is killed is one that takes no further step.    *)
(*                                                                           *)
(* Probe models one isolate's handlers in detail; this is what several of   *)
(* them make of the files.                                                   *)
EXTENDS NdjsonAnalysis

CONSTANTS
    Isolates,       \* known by their (pid, thread_id)
    MaxEvents,      \* V8SCOPE_ASYNC_MAX_EVENTS
    MaxResources,   \* bounds: resources created by all isolates together,
    MaxTurns,       \* things that happen to them, and timers that fire,
    MaxFaults       \* writes that go wrong

(* A run starts finitely many isolates.                                     *)
ASSUME StreamsAssumption == IsFiniteSet(Isolates)

VARIABLES
    probe,          \* the state of each isolate
    telemetry,      \* telemetry.ndjson
    stream,         \* profiles/async/events.ndjson
    faults,         \* writes that have gone wrong
    unnoticed,      \* isolates, a flush of which was cut between two records
    missed          \* a telemetry record did not reach its file at all

vars == <<probe, telemetry, stream, faults, unnoticed, missed>>

(* triggers: for each async_id handed out, that of its trigger.  happened:  *)
(* inits, callbacks and destroys, whatever became of their records.         *)
NotStarted ==
    [stage |-> "none", triggers |-> <<>>, live |-> {},
     buffer |-> <<>>, events |-> 0, dropped |-> 0, happened |-> 0, ticks |-> 0]

Init ==
    /\ probe = [i \in Isolates |-> NotStarted]
    /\ telemetry = <<>> /\ stream = <<>>
    /\ faults = 0 /\ unnoticed = {} /\ missed = FALSE

Turn(i) ==
    /\ probe[i].stage = "running"
    /\ SumFunction([j \in Isolates |-> probe[j].happened + probe[j].ticks]) < MaxTurns
Record(i, event) == [event |-> event, id |-> i]
---------------------------------------------------------------------------
(* fs.writeSync hands the bytes to the kernel once.                         *)

Whole(records) == [k \in DOMAIN records |-> Piece(records[k], "newline")]

(* What a write that is cut short leaves: some whole records and, unless it *)
(* ended exactly there, a piece of the next.                                 *)
CutAfter(records, n, end) == Whole(SubSeq(records, 1, n)) \o <<Piece(records[n + 1], end)>>

(* Telemetry is ASCII, and its writes have one record.                      *)
Telemetry(rec) ==
    /\ \/ telemetry' = telemetry \o Whole(<<rec>>) /\ UNCHANGED <<faults, missed>>
       \/ /\ faults < MaxFaults /\ faults' = faults + 1
          /\ \/ UNCHANGED telemetry /\ missed' = TRUE
             \/ \E end \in {"bare", "cut"} :
                   telemetry' = telemetry \o CutAfter(<<rec>>, 0, end) /\ UNCHANGED missed
    /\ UNCHANGED <<stream, unnoticed>>

(* The process loads the probe.                                              *)
Start(i) ==
    /\ probe[i].stage = "none"
    /\ Telemetry(Record(i, "start"))
    /\ probe' = [probe EXCEPT ![i].stage = "running"]

(* What a sample measures is the isolate's own: here, its live resources.   *)
Measured(i) == [event |-> "sample", id |-> i, used |-> Cardinality(probe[i].live)]

Sample(i) ==
    /\ Turn(i)
    /\ Telemetry(Measured(i))
    /\ probe' = [probe EXCEPT ![i].ticks = @ + 1]
---------------------------------------------------------------------------
(* The async hooks.                                                          *)

(* Mutant: an event past the maximum takes the place of the oldest buffered. *)
Pushed_Evicting(p, rec) ==
    LET q == [p EXCEPT !.happened = @ + 1]
    IN IF p.events >= MaxEvents
       THEN [q EXCEPT !.dropped = @ + 1,
                      !.buffer = IF @ = <<>> THEN @ ELSE Append(Tail(@), rec)]
       ELSE [q EXCEPT !.events = @ + 1, !.buffer = Append(@, rec)]

(* push: an event past the maximum is dropped and counted.                  *)
Pushed(p, rec) ==
    LET q == [p EXCEPT !.happened = @ + 1]
    IN IF p.events >= MaxEvents THEN [q EXCEPT !.dropped = @ + 1]
       ELSE [q EXCEPT !.events = @ + 1, !.buffer = Append(@, rec)]

Hooked(i) == Turn(i) /\ UNCHANGED <<telemetry, stream, faults, unnoticed, missed>>

(* So that a type tells its resource, an isolate's n-th resource has the    *)
(* type <<i, n>>.  Its trigger is an earlier one, or one no hook has seen.  *)
HookInit(i) ==
    LET p == probe[i]
        n == Len(p.triggers) + 1
    IN /\ Hooked(i) /\ SumFunction([j \in Isolates |-> Len(probe[j].triggers)]) < MaxResources
       /\ \E trigger \in 0..n - 1 :
             probe' = [probe EXCEPT ![i] =
                 Pushed([p EXCEPT !.triggers = Append(@, trigger), !.live = @ \cup {n}],
                        [event |-> "init", id |-> i, async_id |-> n, trigger |-> trigger,
                         type |-> <<i, n>>])]

HookAfter(i) ==
    /\ Hooked(i)
    /\ \E n \in probe[i].live :
          probe' = [probe EXCEPT ![i] =
              Pushed(@, [event |-> "callback", id |-> i, async_id |-> n])]

HookDestroy(i) ==
    LET p == probe[i]
    IN /\ Hooked(i)
       /\ \E n \in p.live :
             probe' = [probe EXCEPT ![i] =
                 Pushed([p EXCEPT !.live = p.live \ {n}],
                        [event |-> "destroy", id |-> i, async_id |-> n])]

(* flush, of a buffer that is not empty: an exception counts what was       *)
(* buffered as dropped; a short write is none, and counts nothing.          *)
Flushed(i, written, lost) ==
    /\ stream' = stream \o written
    /\ probe' = [probe EXCEPT ![i].buffer = <<>>, ![i].dropped = @ + lost,
                              ![i].ticks = IF probe[i].stage = "running"
                                           THEN @ + 1 ELSE @]

(* Mutant: the exception is dropped with the buffer.                        *)
Flush_Uncounted(i) ==
    LET buffer == probe[i].buffer
    IN /\ \/ Flushed(i, Whole(buffer), 0) /\ UNCHANGED <<faults, unnoticed>>
          \/ /\ faults < MaxFaults /\ faults' = faults + 1
             /\ Flushed(i, <<>>, 0) /\ UNCHANGED unnoticed
       /\ UNCHANGED <<telemetry, missed>>

Flush(i) ==
    LET buffer == probe[i].buffer
        Cut(n, end) == Flushed(i, CutAfter(buffer, n, end), 0)
    IN /\ \/ Flushed(i, Whole(buffer), 0) /\ UNCHANGED <<faults, unnoticed>>
          \/ /\ faults < MaxFaults /\ faults' = faults + 1
             /\ \/ Flushed(i, <<>>, Len(buffer)) /\ UNCHANGED unnoticed
                \/ /\ UNCHANGED unnoticed
                   /\ \/ \E n \in 0..Len(buffer) - 1, end \in {"bare", "cut"} : Cut(n, end)
                      \/ Cut(0, "utf8")
                \/ \E n \in 1..Len(buffer) - 1 :
                      /\ Flushed(i, Whole(SubSeq(buffer, 1, n)), 0)
                      /\ unnoticed' = unnoticed \cup {i}
       /\ UNCHANGED <<telemetry, missed>>

FlushTimer(i) == Turn(i) /\ probe[i].buffer # <<>> /\ Flush(i)
---------------------------------------------------------------------------
(* finish: the final sample, the last flush, the summary, the record.       *)
FinalSample(i) ==
    /\ probe[i].stage = "running"
    /\ Telemetry(Measured(i))
    /\ probe' = [probe EXCEPT ![i].stage = "sampled"]

FinalFlush(i) ==
    probe[i].stage = "sampled" /\ probe[i].buffer # <<>> /\ Flush(i)

Summary(i) ==
    LET rec == [event |-> "async_summary", id |-> i, dropped |-> probe[i].dropped,
                live |-> Cardinality(probe[i].live)]
    IN /\ probe[i].stage = "sampled" /\ probe[i].buffer = <<>>
       /\ \/ stream' = stream \o Whole(<<rec>>) /\ UNCHANGED faults
          \/ /\ faults < MaxFaults /\ faults' = faults + 1
             /\ \/ UNCHANGED stream
                \/ \E end \in {"bare", "cut"} : stream' = stream \o CutAfter(<<rec>>, 0, end)
       /\ probe' = [probe EXCEPT ![i].stage = "summed"]
       /\ UNCHANGED <<telemetry, unnoticed, missed>>

Finish(i) ==
    /\ probe[i].stage = "summed"
    /\ Telemetry(Record(i, "finish"))
    /\ probe' = [probe EXCEPT ![i].stage = "done"]

Next ==
    \E i \in Isolates :
        \/ Start(i) \/ Sample(i) \/ HookInit(i) \/ HookAfter(i) \/ HookDestroy(i)
        \/ FlushTimer(i) \/ FinalSample(i) \/ FinalFlush(i) \/ Summary(i)
        \/ Finish(i)

Spec == Init /\ [][Next]_vars
---------------------------------------------------------------------------
T == read_ndjson_checked(telemetry)
E == read_ndjson_checked(stream)

Own(v, d) == Restrict(v, {k \in DOMAIN v : v[k].id = d})

(* The isolates' records, in whatever order they were appended, are told    *)
(* apart by analyze_async: type, edge and chain of every callback are what  *)
(* they would be in its isolate's stream alone, and so is what is live -    *)
(* except that isolates that did not summarize count for nothing as soon as *)
(* one did.                                                                  *)
AnalysisSplits ==
    LET e == E
        v == e.values
        all == analyze_async(v)
        part == [i \in Isolates |-> analyze_async(Own(v, i))]
        heard == By(v, Which(v, "async_summary"))
    IN e.ok =>
         /\ \A k \in DOMAIN all.callbacks :
               all.callbacks[k] = part[v[k].id].callbacks[k]
         /\ all.live = SumFunction([i \in IF heard = {} THEN Isolates ELSE heard |->
                                       part[i].live])

(* The types on the true path of triggers from a resource, its own first.   *)
TruePath(i, n) ==
    LET triggers == probe[i].triggers
        up == [m \in 0..Len(triggers) |-> IF m = 0 THEN 0 ELSE triggers[m]]
        line == Walk(up, n, Len(triggers) + 1)
        length == Min({m \in DOMAIN line : line[m] = 0}) - 1
    IN [m \in 1..length |-> <<i, line[m]>>]

(* The causal chain shown for a callback is the true one, from as far back  *)
(* as the stream knows it: only a write that went wrong shortens it.  Where *)
(* none did it reaches the origin or the limit, also when a kill or the cap *)
(* on events has cut the stream: they take no event before one that is kept.*)
ChainsHonest ==
    LET e == E
        v == e.values
    IN e.ok => \A k \in Which(v, "callback") :
         LET i == v[k].id
             chain == causal_chain(v, k)
             path == TruePath(i, v[k].async_id)
             whole == IF Len(path) < ChainLimit THEN Len(path) ELSE ChainLimit
         IN /\ Len(chain) <= Len(path)
            /\ \A m \in DOMAIN chain : chain[m] = path[Len(chain) + 1 - m]
            /\ faults = 0 => Len(chain) = whole

(* When both integrity checks pass, every event of an isolate the telemetry *)
(* knows is in the stream or in the reported number of dropped ones -       *)
(* unless a short write ended exactly between two records, which nothing    *)
(* notices.                                                                  *)
LossExplained ==
    LET e == E
        t == T
    IN e.ok /\ t.ok /\ telemetry_integrity(t) /\ async_integrity(e, t) =>
         \A i \in By(t.values, Which(t.values, "start")) \ unnoticed :
             LET own == analyze_async(Own(e.values, i))
             IN own.events + own.dropped = probe[i].happened

(* When telemetry_integrity passes, what is reported as left at the end is  *)
(* what all isolates had when they finished, however their samples are      *)
(* interleaved or their records glued, and no less is reported as the peak  *)
(* - unless a record did not reach the file at all, which nothing notices   *)
(* when it was a sample.                                                     *)
FinalsCounted ==
    LET t == T
        report == analyze_telemetry(t.values)
        left == SumFunction([i \in Isolates |-> Cardinality(probe[i].live)])
    IN t.ok /\ telemetry_integrity(t) /\ ~missed =>
         report.last = left /\ report.peak >= left
===========================================================================
