--------------------------- MODULE StreamsProofs ---------------------------
(* What the analysis makes of files that any finite number of isolates      *)
(* wrote together, with any number of events and of faults.                 *)
EXTENDS Streams, SequenceTheorems, DataLemmas

TelemetryRecords ==
    [event : {"start", "finish"}, id : Isolates]
    \cup [event : {"sample"}, id : Isolates, used : Nat]

Inits == [event : {"init"}, id : Isolates, async_id : Nat \ {0}, trigger : Nat,
          type : Isolates \X Nat]
Hooks == Inits \cup [event : {"callback", "destroy"}, id : Isolates, async_id : Nat \ {0}]
Summaries == [event : {"async_summary"}, id : Isolates, dropped : Nat, live : Nat]
AsyncRecords == Hooks \cup Summaries

Pieces(records) == [record : records, end : Ends]

ProbeStates ==
    [stage : {"none", "running", "sampled", "summed", "done"}, triggers : Seq(Nat),
     live : SUBSET Nat, buffer : Seq(Hooks), events : Nat, dropped : Nat,
     happened : Nat, ticks : Nat]

FilesTyped ==
    /\ telemetry \in Seq(Pieces(TelemetryRecords))
    /\ stream \in Seq(Pieces(AsyncRecords))
    /\ faults \in Nat /\ unnoticed \subseteq Isolates

ResourcesTyped(p) ==
    /\ p.live \subseteq DOMAIN p.triggers
    /\ \A n \in DOMAIN p.triggers : p.triggers[n] \in 0..n - 1

TypesInv ==
    /\ FilesTyped
    /\ probe \in [Isolates -> ProbeStates]
    /\ \A i \in Isolates : ResourcesTyped(probe[i])
---------------------------------------------------------------------------
(* What a write leaves in the file.                                         *)

(* A write that succeeds leaves each of its records with its newline.       *)
LEMMA WholeLeaves ==
    ASSUME NEW R, NEW records \in Seq(R)
    PROVE  /\ Whole(records) \in Seq(Pieces(R)) /\ Len(Whole(records)) = Len(records)
           /\ \A k \in DOMAIN records : Whole(records)[k] = Piece(records[k], "newline")
<1>1. Whole(records) = [k \in 1..Len(records) |-> Piece(records[k], "newline")]
  BY DEF Whole
<1>2. \A k \in 1..Len(records) : Piece(records[k], "newline") \in Pieces(R)
  BY DEF Piece, Pieces, Ends
<1> QED
  BY <1>1, <1>2

(* A write that is cut leaves its first records, all but the last of them   *)
(* whole.                                                                   *)
LEMMA CutLeaves ==
    ASSUME NEW R, NEW records \in Seq(R), NEW n \in 0..Len(records) - 1, NEW end \in Ends
    PROVE  LET written == CutAfter(records, n, end)
           IN /\ written \in Seq(Pieces(R)) /\ Len(written) = n + 1
              /\ \A k \in 1..n + 1 : /\ written[k].record = records[k]
                                     /\ written[k].end = IF k = n + 1 THEN end ELSE "newline"
<1> DEFINE head == SubSeq(records, 1, n)
           first == Whole(head)
           last == Piece(records[n + 1], end)
<1>1. head \in Seq(R) /\ Len(head) = n /\ \A k \in 1..n : head[k] = records[k]
  OBVIOUS
<1>2. /\ first \in Seq(Pieces(R)) /\ Len(first) = n
      /\ \A k \in 1..n : first[k] = Piece(records[k], "newline")
  <2> HIDE DEF head
  <2>1. /\ first \in Seq(Pieces(R)) /\ Len(first) = Len(head)
        /\ \A k \in DOMAIN head : first[k] = Piece(head[k], "newline")
    BY <1>1, WholeLeaves
  <2> QED
    BY <1>1, <2>1
<1>3. records[n + 1] \in R
  OBVIOUS
<1>4. last \in Pieces(R) /\ last.record = records[n + 1] /\ last.end = end
  BY <1>3 DEF Piece, Pieces
<1>5. CutAfter(records, n, end) = first \o <<last>>
  BY DEF CutAfter
<1> HIDE DEF first, last, head
<1>6. /\ first \o <<last>> \in Seq(Pieces(R)) /\ Len(first \o <<last>>) = n + 1
      /\ \A k \in 1..n : (first \o <<last>>)[k] = first[k]
      /\ (first \o <<last>>)[n + 1] = last
  BY <1>2, <1>4
<1>7. \A k \in 1..n : first[k].record = records[k] /\ first[k].end = "newline"
  BY <1>2 DEF Piece
<1>8. \A k \in 1..n + 1 : k \in 1..n \/ k = n + 1
  OBVIOUS
<1>9. \A k \in 1..n : k # n + 1
  OBVIOUS
<1> QED
  BY <1>4, <1>5, <1>6, <1>7, <1>8, <1>9
---------------------------------------------------------------------------
(* The kinds of step: one that at most appends to the telemetry, a hook, a  *)
(* flush and the summary.                                                    *)
Summed == {"summed", "done"}

Quiet(i) ==
    \E q \in ProbeStates :
        LET p == probe[i]
        IN /\ probe' = [probe EXCEPT ![i] = q]
           /\ q.triggers = p.triggers /\ q.live = p.live /\ q.buffer = p.buffer
           /\ q.dropped = p.dropped /\ q.happened = p.happened /\ q.events = p.events
           /\ p.stage \in Summed <=> q.stage \in Summed
           /\ faults' \in Nat /\ faults' >= faults
           /\ telemetry' \in Seq(Pieces(TelemetryRecords))
           /\ UNCHANGED <<stream, unnoticed>>

(* An event below the maximum is buffered, any other is dropped.            *)
Counts(p, q, rec) ==
    \/ /\ q.buffer = Append(p.buffer, rec) /\ q.dropped = p.dropped
       /\ ~(p.events >= MaxEvents)
    \/ /\ q.buffer = p.buffer /\ q.dropped = p.dropped + 1
       /\ p.events >= MaxEvents /\ q.events = p.events

Hook(i) ==
    \E q \in ProbeStates, rec \in Hooks :
        LET p == probe[i]
        IN /\ probe' = [probe EXCEPT ![i] = q]
           /\ p.stage = "running" /\ q.stage = "running"
           /\ \/ /\ rec.event # "init" /\ q.triggers = p.triggers
                 /\ rec.async_id \in DOMAIN p.triggers
              \/ \E trigger \in 0..Len(p.triggers) :
                    /\ q.triggers = Append(p.triggers, trigger)
                    /\ rec.event = "init" /\ rec.async_id = Len(p.triggers) + 1
                    /\ rec.trigger = trigger /\ rec.type = <<i, rec.async_id>>
           /\ rec.id = i
           /\ q.live \subseteq DOMAIN q.triggers /\ q.happened = p.happened + 1
           /\ Counts(p, q, rec)
           /\ UNCHANGED <<telemetry, stream, faults, unnoticed>>

Flushing(i) ==
    \E q \in ProbeStates, written \in Seq(Pieces(Hooks)) :
        LET p == probe[i]
        IN /\ probe' = [probe EXCEPT ![i] = q] /\ stream' = stream \o written
           /\ p.stage \in {"running", "sampled"} /\ q.stage = p.stage
           /\ q.triggers = p.triggers /\ q.live = p.live /\ q.happened = p.happened
           /\ q.events = p.events
           /\ q.buffer = <<>>
           /\ Len(written) <= Len(p.buffer)
           /\ \A k \in DOMAIN written : written[k].record = p.buffer[k]
           /\ \/ /\ q.dropped = p.dropped /\ Len(written) = Len(p.buffer)
                 /\ \A k \in DOMAIN written : written[k].end = "newline"
                 /\ UNCHANGED <<faults, unnoticed>>
              \/ /\ faults' = faults + 1 /\ UNCHANGED unnoticed
                 /\ \/ q.dropped = p.dropped + Len(p.buffer) /\ written = <<>>
                    \/ /\ q.dropped = p.dropped
                       /\ \E k \in DOMAIN written : written[k].end # "newline"
              \/ /\ faults' = faults + 1 /\ unnoticed' = unnoticed \cup {i}
                 /\ q.dropped = p.dropped
           /\ UNCHANGED telemetry

Summarizing(i) ==
    \E q \in ProbeStates, written \in Seq(Pieces(Summaries)) :
        LET p == probe[i]
        IN /\ probe' = [probe EXCEPT ![i] = q] /\ stream' = stream \o written
           /\ p.stage = "sampled" /\ q.stage = "summed" /\ p.buffer = <<>>
           /\ q.triggers = p.triggers /\ q.live = p.live /\ q.buffer = p.buffer
           /\ q.dropped = p.dropped /\ q.happened = p.happened /\ q.events = p.events
           /\ Len(written) <= 1
           /\ \A k \in DOMAIN written : /\ written[k].record.id = i
                                       /\ written[k].record.dropped = p.dropped
           /\ \/ UNCHANGED faults /\ \A k \in DOMAIN written : written[k].end = "newline"
              \/ faults' = faults + 1
           /\ UNCHANGED <<telemetry, unnoticed>>

(* A telemetry record is appended, or a fault is counted; nothing else is   *)
(* touched.                                                                 *)
LEMMA Telling ==
    ASSUME TypesInv, NEW rec \in TelemetryRecords, Telemetry(rec)
    PROVE  /\ faults' \in Nat /\ faults' >= faults
           /\ telemetry' \in Seq(Pieces(TelemetryRecords))
           /\ UNCHANGED <<stream, unnoticed>>
<1>1. UNCHANGED <<stream, unnoticed>> /\ faults \in Nat
  BY DEF TypesInv, FilesTyped, Telemetry
<1>2. faults' = faults \/ faults' = faults + 1
  BY DEF Telemetry
<1>3. telemetry \in Seq(Pieces(TelemetryRecords))
  BY DEF TypesInv, FilesTyped
<1>4. <<rec>> \in Seq(TelemetryRecords) /\ Len(<<rec>>) = 1
  OBVIOUS
<1>5. Whole(<<rec>>) \in Seq(Pieces(TelemetryRecords))
  BY <1>4, WholeLeaves
<1>6. \A end \in {"bare", "cut"} : CutAfter(<<rec>>, 0, end) \in Seq(Pieces(TelemetryRecords))
  <2> SUFFICES ASSUME NEW end \in {"bare", "cut"}
               PROVE  CutAfter(<<rec>>, 0, end) \in Seq(Pieces(TelemetryRecords))
    OBVIOUS
  <2>1. end \in Ends
    BY DEF Ends
  <2>2. 0 \in 0..Len(<<rec>>) - 1
    BY <1>4
  <2> QED
    BY <1>4, <2>1, <2>2, CutLeaves
<1>7. \/ telemetry' = telemetry
      \/ \E written \in Seq(Pieces(TelemetryRecords)) : telemetry' = telemetry \o written
  BY <1>5, <1>6 DEF Telemetry
<1>8. telemetry' \in Seq(Pieces(TelemetryRecords))
  BY <1>3, <1>7, ConcatProperties
<1> QED
  BY <1>1, <1>2, <1>8

(* The type of one isolate's state; what is live can be counted.            *)
LEMMA ProbeTyped ==
    ASSUME TypesInv, NEW i \in Isolates
    PROVE  /\ probe[i] \in ProbeStates /\ ResourcesTyped(probe[i])
           /\ IsFiniteSet(probe[i].live) /\ Cardinality(probe[i].live) \in Nat
<1>1. probe[i] \in ProbeStates /\ ResourcesTyped(probe[i])
  BY DEF TypesInv
<1> DEFINE n == Len(probe[i].triggers)
<1>2. n \in Nat /\ probe[i].live \subseteq 1..n
  BY <1>1 DEF ProbeStates, ResourcesTyped
<1> HIDE DEF n
<1>a. IsFiniteSet(1..n)
  BY <1>2, FS_Interval
<1>3. IsFiniteSet(probe[i].live)
  BY <1>2, <1>a, FS_Subset
<1> QED
  BY <1>1, <1>3, FS_CardinalityType

(* The steps that only write telemetry.                                     *)
LEMMA QuietSteps ==
    ASSUME TypesInv, NEW i \in Isolates,
           Start(i) \/ Sample(i) \/ FinalSample(i) \/ Finish(i)
    PROVE  Quiet(i)
<1> DEFINE p == probe[i]
<1>1. p \in ProbeStates /\ Cardinality(p.live) \in Nat
  BY ProbeTyped
<1>2. /\ Record(i, "start") \in TelemetryRecords /\ Record(i, "finish") \in TelemetryRecords
      /\ Measured(i) \in TelemetryRecords
  BY <1>1 DEF Record, Measured, TelemetryRecords
<1>3. \E rec \in TelemetryRecords : Telemetry(rec)
  BY <1>2 DEF Start, Sample, FinalSample, Finish
<1>4. /\ faults' \in Nat /\ faults' >= faults
      /\ telemetry' \in Seq(Pieces(TelemetryRecords))
      /\ UNCHANGED <<stream, unnoticed>>
  BY <1>3, Telling
<1>5. \E q \in ProbeStates :
        /\ probe' = [probe EXCEPT ![i] = q]
        /\ q.triggers = p.triggers /\ q.live = p.live /\ q.buffer = p.buffer
        /\ q.dropped = p.dropped /\ q.happened = p.happened /\ q.events = p.events
        /\ p.stage \in Summed <=> q.stage \in Summed
  <2>1. CASE Start(i)
    <3> DEFINE q == [p EXCEPT !.stage = "running"]
    <3>1. /\ q \in ProbeStates
          /\ q.triggers = p.triggers /\ q.live = p.live /\ q.buffer = p.buffer
          /\ q.dropped = p.dropped /\ q.happened = p.happened /\ q.events = p.events
      BY <1>1 DEF ProbeStates
    <3>2. p.stage \in Summed <=> q.stage \in Summed
      BY <1>1, <2>1 DEF Start, Turn, ProbeStates, Summed
    <3>3. probe' = [probe EXCEPT ![i] = q]
      BY <2>1 DEF Start
    <3> QED
      BY <3>1, <3>2, <3>3
  <2>2. CASE Sample(i)
    <3> DEFINE n == p.ticks + 1
               q == [p EXCEPT !.ticks = n]
    <3>n. n \in Nat
      BY <1>1 DEF ProbeStates
    <3> HIDE DEF n
    <3>1. /\ q \in ProbeStates
          /\ q.triggers = p.triggers /\ q.live = p.live /\ q.buffer = p.buffer
          /\ q.dropped = p.dropped /\ q.happened = p.happened /\ q.events = p.events
      BY <1>1, <3>n DEF ProbeStates
    <3>2. p.stage \in Summed <=> q.stage \in Summed
      BY <1>1, <2>2 DEF Sample, Turn, ProbeStates, Summed
    <3>3. probe' = [probe EXCEPT ![i] = q]
      BY <2>2 DEF Sample, n
    <3> QED
      BY <3>1, <3>2, <3>3
  <2>3. CASE FinalSample(i)
    <3> DEFINE q == [p EXCEPT !.stage = "sampled"]
    <3>1. /\ q \in ProbeStates
          /\ q.triggers = p.triggers /\ q.live = p.live /\ q.buffer = p.buffer
          /\ q.dropped = p.dropped /\ q.happened = p.happened /\ q.events = p.events
      BY <1>1 DEF ProbeStates
    <3>2. p.stage \in Summed <=> q.stage \in Summed
      BY <1>1, <2>3 DEF FinalSample, Turn, ProbeStates, Summed
    <3>3. probe' = [probe EXCEPT ![i] = q]
      BY <2>3 DEF FinalSample
    <3> QED
      BY <3>1, <3>2, <3>3
  <2>4. CASE Finish(i)
    <3> DEFINE q == [p EXCEPT !.stage = "done"]
    <3>1. /\ q \in ProbeStates
          /\ q.triggers = p.triggers /\ q.live = p.live /\ q.buffer = p.buffer
          /\ q.dropped = p.dropped /\ q.happened = p.happened /\ q.events = p.events
      BY <1>1 DEF ProbeStates
    <3>2. p.stage \in Summed <=> q.stage \in Summed
      BY <1>1, <2>4 DEF Finish, Turn, ProbeStates, Summed
    <3>3. probe' = [probe EXCEPT ![i] = q]
      BY <2>4 DEF Finish
    <3> QED
      BY <3>1, <3>2, <3>3
  <2> QED
    BY <2>1, <2>2, <2>3, <2>4
<1> QED
  BY <1>4, <1>5 DEF Quiet

(* push leaves an event that did not fit out of the buffer and counts it.   *)
LEMMA Pushing ==
    ASSUME NEW p \in ProbeStates, NEW rec \in Hooks
    PROVE  LET q == Pushed(p, rec)
           IN /\ q \in ProbeStates
              /\ q.stage = p.stage /\ q.triggers = p.triggers /\ q.live = p.live
              /\ q.happened = p.happened + 1
              /\ Counts(p, q, rec)
<1> DEFINE n == p.happened + 1
           m == p.dropped + 1
           e == p.events + 1
           b == Append(p.buffer, rec)
           h == [p EXCEPT !.happened = n]
<1>1. n \in Nat /\ m \in Nat /\ e \in Nat /\ b \in Seq(Hooks)
  BY DEF ProbeStates
<1> HIDE DEF n, m, e, b
<1>2. /\ h \in ProbeStates /\ h.happened = n /\ h.stage = p.stage
      /\ h.triggers = p.triggers /\ h.live = p.live /\ h.buffer = p.buffer
      /\ h.dropped = p.dropped /\ h.events = p.events
  BY <1>1 DEF ProbeStates
<1>3. Pushed(p, rec) =
        IF p.events >= MaxEvents THEN [h EXCEPT !.dropped = h.dropped + 1]
        ELSE [h EXCEPT !.events = h.events + 1, !.buffer = Append(h.buffer, rec)]
  BY DEF Pushed, n
<1>4. Pushed(p, rec) =
        IF p.events >= MaxEvents THEN [h EXCEPT !.dropped = m]
        ELSE [h EXCEPT !.events = e, !.buffer = b]
  BY <1>2, <1>3 DEF m, e, b
<1> HIDE DEF h
<1>5. CASE p.events >= MaxEvents
  <2> DEFINE q == [h EXCEPT !.dropped = m]
  <2>1. /\ q \in ProbeStates /\ q.happened = h.happened /\ q.stage = h.stage
        /\ q.triggers = h.triggers /\ q.live = h.live /\ q.buffer = h.buffer
        /\ q.dropped = m /\ q.events = h.events
    BY <1>1, <1>2 DEF ProbeStates
  <2>2. Pushed(p, rec) = q
    BY <1>4, <1>5
  <2> HIDE DEF q
  <2> QED
    BY <1>2, <1>5, <2>1, <2>2 DEF n, m, Counts
<1>6. CASE ~(p.events >= MaxEvents)
  <2> DEFINE q == [h EXCEPT !.events = e, !.buffer = b]
  <2>1. /\ q \in ProbeStates /\ q.happened = h.happened /\ q.stage = h.stage
        /\ q.triggers = h.triggers /\ q.live = h.live /\ q.dropped = h.dropped
        /\ q.buffer = b
    BY <1>1, <1>2 DEF ProbeStates
  <2>2. Pushed(p, rec) = q
    BY <1>4, <1>6
  <2> HIDE DEF q
  <2> QED
    BY <1>2, <1>6, <2>1, <2>2 DEF n, b, Counts
<1> QED
  BY <1>5, <1>6

(* The steps of the async hooks.                                            *)
LEMMA HookSteps ==
    ASSUME TypesInv, NEW i \in Isolates, HookInit(i) \/ HookAfter(i) \/ HookDestroy(i)
    PROVE  Hook(i)
<1> DEFINE p == probe[i]
<1>1. p \in ProbeStates /\ ResourcesTyped(p)
  BY ProbeTyped
<1>2. p.stage = "running" /\ UNCHANGED <<telemetry, stream, faults, unnoticed>>
  BY DEF HookInit, HookAfter, HookDestroy, Hooked, Turn
<1>3. p.live \subseteq DOMAIN p.triggers /\ DOMAIN p.triggers = 1..Len(p.triggers)
      /\ Len(p.triggers) \in Nat
  BY <1>1 DEF ResourcesTyped, ProbeStates
<1>4. CASE HookInit(i)
  <2> DEFINE n == Len(p.triggers) + 1
  <2>1. PICK trigger \in 0..n - 1 :
          probe' = [probe EXCEPT ![i] =
              Pushed([p EXCEPT !.triggers = Append(@, trigger), !.live = @ \cup {n}],
                     [event |-> "init", id |-> i, async_id |-> n, trigger |-> trigger,
                      type |-> <<i, n>>])]
    BY <1>4 DEF HookInit
  <2> DEFINE b == [p EXCEPT !.triggers = Append(@, trigger), !.live = @ \cup {n}]
             rec == [event |-> "init", id |-> i, async_id |-> n, trigger |-> trigger,
                     type |-> <<i, n>>]
             q == Pushed(b, rec)
  <2>2. Append(p.triggers, trigger) \in Seq(Nat) /\ p.live \cup {n} \in SUBSET Nat
        /\ DOMAIN Append(p.triggers, trigger) = 1..n
    BY <1>1, <1>3, <2>1 DEF ProbeStates
  <2>3. b \in ProbeStates /\ b.triggers = Append(p.triggers, trigger)
        /\ b.live = p.live \cup {n} /\ b.stage = p.stage /\ b.buffer = p.buffer
        /\ b.dropped = p.dropped /\ b.happened = p.happened /\ b.events = p.events
    BY <1>1, <2>2 DEF ProbeStates
  <2>4. rec \in Hooks
    BY <1>3, <2>1 DEF Hooks, Inits
  <2> HIDE DEF b
  <2>5. /\ q \in ProbeStates
        /\ q.stage = b.stage /\ q.triggers = b.triggers /\ q.live = b.live
        /\ q.happened = b.happened + 1
        /\ Counts(b, q, rec)
    BY <2>3, <2>4, Pushing
  <2>6. /\ rec.event = "init" /\ rec.id = i /\ rec.async_id = n /\ rec.trigger = trigger
        /\ rec.type = <<i, rec.async_id>>
    OBVIOUS
  <2>7. probe' = [probe EXCEPT ![i] = q]
    BY <2>1 DEF b
  <2> HIDE DEF q, rec
  <2>8. q.live \subseteq DOMAIN q.triggers
    BY <1>3, <2>2, <2>3, <2>5
  <2>9. trigger \in 0..Len(p.triggers) /\ q.triggers = Append(p.triggers, trigger)
        /\ rec.event = "init" /\ rec.async_id = Len(p.triggers) + 1
        /\ rec.trigger = trigger /\ rec.type = <<i, rec.async_id>>
    BY <1>3, <2>1, <2>3, <2>5, <2>6
  <2>10. /\ q.stage = "running" /\ q.happened = p.happened + 1
         /\ Counts(p, q, rec)
    BY <1>2, <2>3, <2>5 DEF Counts
  <2> HIDE DEF p, n
  <2>11. rec.id = i
    BY <2>6
  <2> QED
    BY <1>2, <2>4, <2>5, <2>7, <2>8, <2>9, <2>10, <2>11 DEF Hook, p
<1>5. CASE HookAfter(i) \/ HookDestroy(i)
  <2>1. PICK n \in p.live, event \in {"callback", "destroy"}, live \in SUBSET p.live :
          probe' = [probe EXCEPT ![i] =
              Pushed([p EXCEPT !.live = live], [event |-> event, id |-> i, async_id |-> n])]
    <3>1. CASE HookAfter(i)
      <4>1. [p EXCEPT !.live = p.live] = p
        BY <1>1 DEF ProbeStates
      <4> QED
        BY <3>1, <4>1 DEF HookAfter
    <3>2. CASE HookDestroy(i)
      <4>1. PICK n \in p.live :
              probe' = [probe EXCEPT ![i] =
                  Pushed([p EXCEPT !.live = p.live \ {n}],
                         [event |-> "destroy", id |-> i, async_id |-> n])]
        BY <3>2 DEF HookDestroy
      <4> QED
        BY <4>1
    <3> QED
      BY <1>5, <3>1, <3>2
  <2> DEFINE b == [p EXCEPT !.live = live]
             rec == [event |-> event, id |-> i, async_id |-> n]
             q == Pushed(b, rec)
  <2>2. b \in ProbeStates /\ b.triggers = p.triggers /\ b.live = live /\ b.stage = p.stage
        /\ b.buffer = p.buffer /\ b.dropped = p.dropped /\ b.happened = p.happened
        /\ b.events = p.events
    BY <1>1 DEF ProbeStates
  <2>3. rec \in Hooks /\ n \in DOMAIN p.triggers
    BY <1>3 DEF Hooks
  <2> HIDE DEF b
  <2>4. /\ q \in ProbeStates
        /\ q.stage = b.stage /\ q.triggers = b.triggers /\ q.live = b.live
        /\ q.happened = b.happened + 1
        /\ Counts(b, q, rec)
    BY <2>2, <2>3, Pushing
  <2>5. rec.event # "init" /\ rec.id = i /\ rec.async_id = n
    OBVIOUS
  <2>6. probe' = [probe EXCEPT ![i] = q]
    BY <2>1 DEF b
  <2> HIDE DEF q, rec
  <2> QED
    BY <1>2, <1>3, <2>2, <2>3, <2>4, <2>5, <2>6 DEF Hook, Counts
<1> QED
  BY <1>4, <1>5

(* The step that writes the async summary.                                  *)
LEMMA SummarySteps ==
    ASSUME TypesInv, NEW i \in Isolates, Summary(i)
    PROVE  Summarizing(i)
<1> DEFINE p == probe[i]
           q == [p EXCEPT !.stage = "summed"]
           rec == [event |-> "async_summary", id |-> i, dropped |-> p.dropped,
                   live |-> Cardinality(p.live)]
<1>1. p \in ProbeStates /\ Cardinality(p.live) \in Nat
  BY ProbeTyped
<1>2. rec \in Summaries
  BY <1>1 DEF Summaries, ProbeStates
<1>3. /\ q \in ProbeStates /\ q.stage = "summed"
      /\ q.triggers = p.triggers /\ q.live = p.live /\ q.buffer = p.buffer
      /\ q.dropped = p.dropped /\ q.happened = p.happened /\ q.events = p.events
  BY <1>1 DEF ProbeStates
<1>4. /\ p.stage = "sampled" /\ p.buffer = <<>> /\ UNCHANGED <<telemetry, unnoticed>>
      /\ probe' = [probe EXCEPT ![i] = q]
      /\ \/ stream' = stream \o Whole(<<rec>>) /\ UNCHANGED faults
         \/ /\ faults' = faults + 1
            /\ \/ UNCHANGED stream
               \/ \E end \in {"bare", "cut"} : stream' = stream \o CutAfter(<<rec>>, 0, end)
  BY DEF Summary
<1>5. rec.id = i /\ rec.dropped = p.dropped
  OBVIOUS
<1> HIDE DEF p, q, rec
<1>6. <<rec>> \in Seq(Summaries) /\ Len(<<rec>>) = 1 /\ <<rec>>[1] = rec
  BY <1>2
<1>7. /\ Whole(<<rec>>) \in Seq(Pieces(Summaries)) /\ Len(Whole(<<rec>>)) = 1
      /\ \A k \in DOMAIN Whole(<<rec>>) : /\ Whole(<<rec>>)[k].record = rec
                                          /\ Whole(<<rec>>)[k].end = "newline"
  <2>1. /\ Whole(<<rec>>) \in Seq(Pieces(Summaries)) /\ Len(Whole(<<rec>>)) = Len(<<rec>>)
        /\ \A k \in DOMAIN <<rec>> : Whole(<<rec>>)[k] = Piece(<<rec>>[k], "newline")
    BY <1>6, WholeLeaves
  <2>2. DOMAIN Whole(<<rec>>) = 1..1 /\ DOMAIN <<rec>> = 1..1
    BY <1>6, <2>1
  <2>3. Piece(rec, "newline").record = rec /\ Piece(rec, "newline").end = "newline"
    BY DEF Piece
  <2> QED
    BY <1>6, <2>1, <2>2, <2>3
<1> DEFINE OneLine(w) == /\ w \in Seq(Pieces(Summaries)) /\ Len(w) = 1
                         /\ \A k \in DOMAIN w : w[k].record = rec
<1>8. ASSUME NEW end \in {"bare", "cut"}
      PROVE  OneLine(CutAfter(<<rec>>, 0, end))
  <2>1. end \in Ends /\ 0 \in 0..Len(<<rec>>) - 1
    BY <1>6 DEF Ends
  <2> DEFINE records == <<rec>>
             n == 0
             written == CutAfter(records, n, end)
  <2>a. records \in Seq(Summaries) /\ n \in 0..Len(records) - 1 /\ records[1] = rec
        /\ n + 1 = 1
    BY <1>6
  <2> HIDE DEF records, n
  <2>2. /\ written \in Seq(Pieces(Summaries)) /\ Len(written) = n + 1
        /\ \A k \in 1..n + 1 : /\ written[k].record = records[k]
                               /\ written[k].end = IF k = n + 1 THEN end ELSE "newline"
    BY <2>1, <2>a, CutLeaves
  <2> HIDE DEF written
  <2>3. DOMAIN written = 1..1
    BY <2>2, <2>a
  <2>4. \A k \in DOMAIN written : written[k].record = rec
    BY <2>2, <2>3, <2>a
  <2>5. written \in Seq(Pieces(Summaries)) /\ Len(written) = 1
    BY <2>2, <2>a
  <2> QED
    BY <2>4, <2>5 DEF written, records, n
<1> DEFINE nothing == <<>>
<1>9. /\ stream = stream \o nothing /\ nothing \in Seq(Pieces(Summaries))
      /\ Len(nothing) <= 1 /\ DOMAIN nothing = {}
  BY DEF TypesInv, FilesTyped
<1> HIDE DEF nothing
<1>10. \E written \in Seq(Pieces(Summaries)) :
         /\ stream' = stream \o written /\ Len(written) <= 1
         /\ \A k \in DOMAIN written : written[k].record = rec
         /\ \/ UNCHANGED faults /\ \A k \in DOMAIN written : written[k].end = "newline"
            \/ faults' = faults + 1
  <2>1. CASE stream' = stream \o Whole(<<rec>>) /\ UNCHANGED faults
    <3> DEFINE written == Whole(<<rec>>)
    <3>1. /\ written \in Seq(Pieces(Summaries)) /\ Len(written) <= 1
          /\ \A k \in DOMAIN written : written[k].record = rec /\ written[k].end = "newline"
          /\ stream' = stream \o written /\ UNCHANGED faults
      BY <1>7, <2>1
    <3> HIDE DEF written
    <3> QED
      BY <3>1
  <2>2. CASE faults' = faults + 1 /\ UNCHANGED stream
    BY <1>9, <2>2
  <2>3. CASE /\ faults' = faults + 1
             /\ \E end \in {"bare", "cut"} : stream' = stream \o CutAfter(<<rec>>, 0, end)
    <3>1. PICK end \in {"bare", "cut"} : stream' = stream \o CutAfter(<<rec>>, 0, end)
      BY <2>3
    <3> DEFINE written == CutAfter(<<rec>>, 0, end)
    <3>2. OneLine(written) /\ stream' = stream \o written
      <4>1. OneLine(CutAfter(<<rec>>, 0, end))
        BY <1>8
      <4> QED
        BY <3>1, <4>1
    <3>3. /\ written \in Seq(Pieces(Summaries)) /\ Len(written) <= 1
          /\ \A k \in DOMAIN written : written[k].record = rec
          /\ stream' = stream \o written
      <4> HIDE DEF written
      <4> QED
        BY <3>2
    <3> HIDE DEF written
    <3> QED
      BY <2>3, <3>3
  <2> QED
    BY <1>4, <2>1, <2>2, <2>3
<1> QED
  BY <1>3, <1>4, <1>5, <1>10 DEF Summarizing, p

(* The steps that flush the buffer, by the timer and at the end.            *)
LEMMA FlushSteps ==
    ASSUME TypesInv, NEW i \in Isolates, FlushTimer(i) \/ FinalFlush(i)
    PROVE  Flushing(i)
<1> DEFINE p == probe[i]
           buffer == p.buffer
           After(lost) == [p EXCEPT !.buffer = <<>>, !.dropped = @ + lost,
                                    !.ticks = IF p.stage = "running" THEN @ + 1 ELSE @]
<1>1. p \in ProbeStates /\ buffer \in Seq(Hooks) /\ p.dropped \in Nat /\ p.ticks \in Nat
  <2>1. p \in ProbeStates
    BY ProbeTyped
  <2> QED
    BY <2>1 DEF ProbeStates
<1>2. p.stage \in {"running", "sampled"} /\ Flush(i)
  BY DEF FlushTimer, FinalFlush, Turn
<1>3. ASSUME NEW lost \in Nat
      PROVE  LET q == After(lost)
             IN /\ q \in ProbeStates /\ q.stage = p.stage
                /\ q.triggers = p.triggers /\ q.live = p.live /\ q.happened = p.happened
                /\ q.events = p.events
                /\ q.buffer = <<>> /\ q.dropped = p.dropped + lost
  <2> DEFINE d == p.dropped + lost
             t == IF p.stage = "running" THEN p.ticks + 1 ELSE p.ticks
             q == [p EXCEPT !.buffer = <<>>, !.dropped = d, !.ticks = t]
  <2>1. d \in Nat /\ t \in Nat
    BY <1>1
  <2>2. After(lost) = q
    OBVIOUS
  <2> HIDE DEF d, t
  <2>3. <<>> \in Seq(Hooks)
    OBVIOUS
  <2>4. /\ q \in ProbeStates /\ q.stage = p.stage
        /\ q.triggers = p.triggers /\ q.live = p.live /\ q.happened = p.happened
        /\ q.events = p.events
        /\ q.buffer = <<>> /\ q.dropped = d
    BY <1>1, <2>1, <2>3 DEF ProbeStates
  <2> HIDE DEF q, After
  <2> QED
    BY <2>2, <2>4 DEF d
<1>4. ASSUME NEW written, NEW lost, Flushed(i, written, lost)
      PROVE  probe' = [probe EXCEPT ![i] = After(lost)] /\ stream' = stream \o written
  BY <1>4 DEF Flushed
<1> HIDE DEF After
<1>5. /\ Whole(buffer) \in Seq(Pieces(Hooks)) /\ Len(Whole(buffer)) = Len(buffer)
      /\ \A k \in DOMAIN Whole(buffer) : /\ Whole(buffer)[k].record = buffer[k]
                                         /\ Whole(buffer)[k].end = "newline"
  <2>1. /\ Whole(buffer) \in Seq(Pieces(Hooks)) /\ Len(Whole(buffer)) = Len(buffer)
        /\ \A k \in DOMAIN buffer : Whole(buffer)[k] = Piece(buffer[k], "newline")
    BY <1>1, WholeLeaves
  <2>2. DOMAIN Whole(buffer) = DOMAIN buffer
    BY <1>1, <2>1
  <2>3. \A r : Piece(r, "newline").record = r /\ Piece(r, "newline").end = "newline"
    BY DEF Piece
  <2> HIDE DEF buffer
  <2> QED
    BY <2>1, <2>2, <2>3
<1> DEFINE cut(n, end) == CutAfter(buffer, n, end)
<1>6. ASSUME NEW n \in 0..Len(buffer) - 1, NEW end \in {"bare", "cut", "utf8"}
      PROVE  /\ cut(n, end) \in Seq(Pieces(Hooks)) /\ Len(cut(n, end)) <= Len(buffer)
             /\ \A k \in DOMAIN cut(n, end) : cut(n, end)[k].record = buffer[k]
             /\ \E k \in DOMAIN cut(n, end) : cut(n, end)[k].end # "newline"
  <2> DEFINE w == cut(n, end)
  <2>1. end \in Ends /\ end # "newline" /\ n \in Int /\ n + 1 <= Len(buffer) /\ n + 1 >= 1
        /\ Len(buffer) \in Nat
    BY <1>1, <1>6 DEF Ends
  <2>2. /\ w \in Seq(Pieces(Hooks)) /\ Len(w) = n + 1
        /\ \A k \in 1..n + 1 : /\ w[k].record = buffer[k]
                               /\ w[k].end = IF k = n + 1 THEN end ELSE "newline"
    BY <1>1, <2>1, CutLeaves
  <2> HIDE DEF w
  <2>3. DOMAIN w = 1..n + 1
    BY <2>2
  <2>4. n + 1 \in DOMAIN w /\ w[n + 1].end # "newline"
    BY <2>1, <2>2, <2>3
  <2>5. w \in Seq(Pieces(Hooks)) /\ Len(w) <= Len(buffer)
        /\ \A k \in DOMAIN w : w[k].record = buffer[k]
    BY <2>1, <2>2, <2>3
  <2> QED
    BY <2>4, <2>5 DEF w
<1> DEFINE part(n) == Whole(SubSeq(buffer, 1, n))
<1>7. ASSUME NEW n \in 1..Len(buffer) - 1
      PROVE  /\ part(n) \in Seq(Pieces(Hooks)) /\ Len(part(n)) <= Len(buffer)
             /\ \A k \in DOMAIN part(n) : part(n)[k].record = buffer[k]
  <2> DEFINE head == SubSeq(buffer, 1, n)
             w == part(n)
  <2>1. head \in Seq(Hooks) /\ Len(head) = n /\ \A k \in 1..n : head[k] = buffer[k]
    BY <1>1
  <2>2. w = Whole(head) /\ n \in Nat /\ n <= Len(buffer)
    BY <1>1
  <2> HIDE DEF head, w
  <2>3. /\ Whole(head) \in Seq(Pieces(Hooks)) /\ Len(Whole(head)) = Len(head)
        /\ \A k \in DOMAIN head : Whole(head)[k] = Piece(head[k], "newline")
    BY <2>1, WholeLeaves
  <2>4. DOMAIN w = 1..n /\ DOMAIN head = 1..n
    BY <2>1, <2>2, <2>3
  <2>5. \A k \in DOMAIN w : w[k].record = buffer[k]
    BY <2>1, <2>2, <2>3, <2>4 DEF Piece
  <2>6. w \in Seq(Pieces(Hooks)) /\ Len(w) <= Len(buffer)
    BY <2>1, <2>2, <2>3
  <2> QED
    BY <2>5, <2>6 DEF w
<1> HIDE DEF cut, part
<1>8. UNCHANGED telemetry
  BY <1>2 DEF Flush
<1>9. \/ Flushed(i, Whole(buffer), 0) /\ UNCHANGED <<faults, unnoticed>>
      \/ faults' = faults + 1 /\ Flushed(i, <<>>, Len(buffer)) /\ UNCHANGED unnoticed
      \/ /\ faults' = faults + 1 /\ UNCHANGED unnoticed
         /\ \E n \in 0..Len(buffer) - 1, end \in {"bare", "cut", "utf8"} :
               Flushed(i, cut(n, end), 0)
      \/ /\ faults' = faults + 1 /\ unnoticed' = unnoticed \cup {i}
         /\ \E n \in 1..Len(buffer) - 1 : Flushed(i, part(n), 0)
  <2>1. p.buffer # <<>>
    BY DEF FlushTimer, FinalFlush
  <2>2. 0 \in 0..Len(buffer) - 1
    BY <1>1, <2>1
  <2> QED
    BY <1>2, <2>2 DEF Flush, cut, part
<1>10. p.dropped + 0 = p.dropped /\ Len(buffer) \in Nat /\ 0 \in Nat
  BY <1>1
<1> HIDE DEF p, buffer
<1>11. CASE Flushed(i, Whole(buffer), 0) /\ UNCHANGED <<faults, unnoticed>>
  <2>1. probe' = [probe EXCEPT ![i] = After(0)] /\ stream' = stream \o Whole(buffer)
    BY <1>4, <1>11
  <2>2. Len(Whole(buffer)) <= Len(buffer)
    BY <1>5, <1>10
  <2> QED
    BY <1>2, <1>3, <1>5, <1>8, <1>10, <1>11, <2>1, <2>2 DEF Flushing, p, buffer
<1>12. CASE faults' = faults + 1 /\ Flushed(i, <<>>, Len(buffer)) /\ UNCHANGED unnoticed
  <2> DEFINE w == <<>>
             q == After(Len(buffer))
  <2>1. probe' = [probe EXCEPT ![i] = q] /\ stream' = stream \o w
    BY <1>4, <1>12
  <2>2. w \in Seq(Pieces(Hooks)) /\ Len(w) <= Len(buffer) /\ DOMAIN w = {}
    BY <1>10
  <2>3. /\ q \in ProbeStates /\ q.stage = p.stage
        /\ q.triggers = p.triggers /\ q.live = p.live /\ q.happened = p.happened
        /\ q.events = p.events
        /\ q.buffer = <<>> /\ q.dropped = p.dropped + Len(buffer)
    BY <1>3, <1>10
  <2> HIDE DEF q
  <2>4. w = <<>>
    OBVIOUS
  <2> HIDE DEF w
  <2> QED
    BY <1>2, <1>8, <1>12, <2>1, <2>2, <2>3, <2>4 DEF Flushing, p, buffer
<1>13. ASSUME NEW n \in 0..Len(buffer) - 1, NEW end \in {"bare", "cut", "utf8"},
              Flushed(i, cut(n, end), 0), faults' = faults + 1, UNCHANGED unnoticed
       PROVE  Flushing(i)
  <2>1. probe' = [probe EXCEPT ![i] = After(0)] /\ stream' = stream \o cut(n, end)
    BY <1>4, <1>13
  <2>2. /\ cut(n, end) \in Seq(Pieces(Hooks)) /\ Len(cut(n, end)) <= Len(buffer)
        /\ \A k \in DOMAIN cut(n, end) : cut(n, end)[k].record = buffer[k]
        /\ \E k \in DOMAIN cut(n, end) : cut(n, end)[k].end # "newline"
    BY <1>6
  <2> QED
    BY <1>2, <1>3, <1>8, <1>10, <1>13, <2>1, <2>2 DEF Flushing, p, buffer
<1>14. ASSUME NEW n \in 1..Len(buffer) - 1, Flushed(i, part(n), 0), faults' = faults + 1,
              unnoticed' = unnoticed \cup {i}
       PROVE  Flushing(i)
  <2>1. probe' = [probe EXCEPT ![i] = After(0)] /\ stream' = stream \o part(n)
    BY <1>4, <1>14
  <2>2. /\ part(n) \in Seq(Pieces(Hooks)) /\ Len(part(n)) <= Len(buffer)
        /\ \A k \in DOMAIN part(n) : part(n)[k].record = buffer[k]
    BY <1>7
  <2> QED
    BY <1>2, <1>3, <1>8, <1>10, <1>14, <2>1, <2>2 DEF Flushing, p, buffer
<1> QED
  BY <1>9, <1>11, <1>12, <1>13, <1>14
---------------------------------------------------------------------------
(* What a record says of its isolate is so, then and ever after.            *)
Told(p, r) ==
    /\ r.event # "async_summary" => r.async_id \in DOMAIN p.triggers
    /\ r.event = "init" => r.trigger = p.triggers[r.async_id] /\ r.type = <<r.id, r.async_id>>
    /\ r.event = "async_summary" => p.stage \in Summed /\ r.dropped = p.dropped

RecordsInv ==
    /\ \A k \in DOMAIN stream : Told(probe[stream[k].record.id], stream[k].record)
    /\ \A i \in Isolates :
          LET p == probe[i]
          IN /\ \A k \in DOMAIN p.buffer : p.buffer[k].id = i /\ Told(p, p.buffer[k])
             /\ p.stage \in Summed => p.buffer = <<>>

(* Nothing of an isolate comes after its summary.                           *)
LastInv ==
    \A j, k \in DOMAIN stream :
        /\ stream[j].record.event = "async_summary"
        /\ stream[k].record.id = stream[j].record.id
        => k <= j

(* Where no write went wrong a resource is not heard of before it and all    *)
(* older ones were created: the maximum drops no event before one it keeps.  *)
Creates(r, i, n) == r.event = "init" /\ r.id = i /\ r.async_id = n

Streamed(i, n) == \E j \in DOMAIN stream : Creates(stream[j].record, i, n)

OrderOf(i) ==
    LET p == probe[i]
    IN /\ \A k \in DOMAIN stream :
             stream[k].record.id = i /\ stream[k].record.event # "async_summary" =>
                \A n \in 1..stream[k].record.async_id :
                   \E j \in DOMAIN stream : j <= k /\ Creates(stream[j].record, i, n)
       /\ \A k \in DOMAIN p.buffer : \A n \in 1..p.buffer[k].async_id :
             Streamed(i, n) \/ \E j \in DOMAIN p.buffer : j <= k /\ Creates(p.buffer[j], i, n)

Complete(i) ==
    \A n \in DOMAIN probe[i].triggers :
       Streamed(i, n) \/ \E j \in DOMAIN probe[i].buffer : Creates(probe[i].buffer[j], i, n)

Ordered(i) ==
    /\ OrderOf(i)
    /\ probe[i].dropped = 0 => Complete(i)
    /\ probe[i].dropped # 0 => probe[i].events >= MaxEvents

OrderInv ==
    /\ faults = 0 => \A k \in DOMAIN stream : stream[k].end = "newline"
    /\ \A i \in Isolates : faults = 0 => Ordered(i)

(* What happened is in the stream, in the buffer or counted as dropped.     *)
EventsIn(f, i) ==
    {k \in DOMAIN f : f[k].record.id = i /\ f[k].record.event # "async_summary"}

CountInv ==
    \A i \in Isolates \ unnoticed :
        (\A k \in EventsIn(stream, i) : stream[k].end = "newline") =>
            Cardinality(EventsIn(stream, i)) + Len(probe[i].buffer) + probe[i].dropped
            = probe[i].happened

Inv == TypesInv /\ RecordsInv /\ LastInv /\ OrderInv /\ CountInv
---------------------------------------------------------------------------
(* There are no other steps.                                                *)
LEMMA Steps ==
    ASSUME TypesInv, [Next]_vars
    PROVE  \/ UNCHANGED vars
           \/ \E i \in Isolates : Quiet(i) \/ Hook(i) \/ Flushing(i) \/ Summarizing(i)
<1>1. CASE Next
  <2>1. PICK i \in Isolates :
          \/ Start(i) \/ Sample(i) \/ HookInit(i) \/ HookAfter(i) \/ HookDestroy(i)
          \/ FlushTimer(i) \/ FinalSample(i) \/ FinalFlush(i) \/ Summary(i)
          \/ Finish(i)
    BY <1>1 DEF Next
  <2>2. CASE Start(i) \/ Sample(i) \/ FinalSample(i) \/ Finish(i)
    BY <2>2, QuietSteps
  <2>3. CASE HookInit(i) \/ HookAfter(i) \/ HookDestroy(i)
    BY <2>3, HookSteps
  <2>4. CASE FlushTimer(i) \/ FinalFlush(i)
    BY <2>4, FlushSteps
  <2>5. CASE Summary(i)
    BY <2>5, SummarySteps
  <2> QED
    BY <2>1, <2>2, <2>3, <2>4, <2>5
<1> QED
  BY <1>1

(* How the isolate of a step moves on: the resources it knew stay as they   *)
(* are, and so do a finished isolate's number of dropped events and buffer. *)
Grows(p, q) ==
    /\ q \in ProbeStates
    /\ DOMAIN p.triggers \subseteq DOMAIN q.triggers
    /\ \A n \in DOMAIN p.triggers : q.triggers[n] = p.triggers[n]
    /\ p.stage \in Summed => q.stage \in Summed /\ q.dropped = p.dropped /\ q.buffer = p.buffer

(* No step takes back a resource that was created, and once an isolate has  *)
(* summed up its events no more of them are dropped.                        *)
LEMMA StepGrows ==
    ASSUME TypesInv, NEW i \in Isolates,
           Quiet(i) \/ Hook(i) \/ Flushing(i) \/ Summarizing(i)
    PROVE  \E q : /\ probe' = [probe EXCEPT ![i] = q] /\ Grows(probe[i], q)
                  /\ ResourcesTyped(q)
<1> DEFINE p == probe[i]
<1>1. p \in ProbeStates /\ ResourcesTyped(p)
  BY ProbeTyped
<1>2. CASE Hook(i)
  <2>1. PICK q \in ProbeStates :
          /\ probe' = [probe EXCEPT ![i] = q]
          /\ p.stage = "running"
          /\ \/ q.triggers = p.triggers
             \/ \E trigger \in 0..Len(p.triggers) : q.triggers = Append(p.triggers, trigger)
          /\ q.live \subseteq DOMAIN q.triggers
    BY <1>2 DEF Hook
  <2>2. CASE q.triggers = p.triggers
    BY <1>1, <2>1, <2>2 DEF Grows, ResourcesTyped, Summed
  <2>3. ASSUME NEW trigger \in 0..Len(p.triggers), q.triggers = Append(p.triggers, trigger)
        PROVE  Grows(p, q) /\ ResourcesTyped(q)
    <3> DEFINE s == p.triggers
    <3>1. s \in Seq(Nat)
      BY <1>1 DEF ProbeStates
    <3>2. /\ DOMAIN Append(s, trigger) = 1..Len(s) + 1 /\ DOMAIN s = 1..Len(s)
          /\ \A n \in 1..Len(s) : Append(s, trigger)[n] = s[n]
          /\ Append(s, trigger)[Len(s) + 1] = trigger /\ Len(s) \in Nat
      BY <3>1, <2>3
    <3>3. \A n \in DOMAIN s : s[n] \in 0..n - 1
      BY <1>1 DEF ResourcesTyped
    <3> HIDE DEF s
    <3>4. \A n \in 1..Len(s) + 1 : Append(s, trigger)[n] \in 0..n - 1
      <4> SUFFICES ASSUME NEW n \in 1..Len(s) + 1 PROVE Append(s, trigger)[n] \in 0..n - 1
        OBVIOUS
      <4>1. CASE n = Len(s) + 1
        BY <2>3, <3>2, <4>1 DEF s
      <4>2. CASE n \in 1..Len(s)
        BY <3>2, <3>3, <4>2
      <4> QED
        BY <3>2, <4>1, <4>2
    <3>5. q.triggers = Append(s, trigger)
      BY <2>3 DEF s
    <3>6. ResourcesTyped(q)
      BY <2>1, <3>2, <3>4, <3>5 DEF ResourcesTyped
    <3>7. DOMAIN s \subseteq DOMAIN q.triggers /\ \A n \in DOMAIN s : q.triggers[n] = s[n]
      BY <3>2, <3>5
    <3> QED
      BY <2>1, <3>6, <3>7 DEF Grows, Summed, s
  <2> QED
    BY <2>1, <2>2, <2>3
<1>3. CASE Quiet(i)
  BY <1>1, <1>3 DEF Quiet, Grows, ResourcesTyped
<1>4. CASE Flushing(i)
  BY <1>1, <1>4 DEF Flushing, Grows, ResourcesTyped, Summed
<1>5. CASE Summarizing(i)
  BY <1>1, <1>5 DEF Summarizing, Grows, ResourcesTyped, Summed
<1> QED
  BY <1>2, <1>3, <1>4, <1>5

(* Every step keeps the types.                                              *)
LEMMA TypesStep ==
    ASSUME TypesInv, [Next]_vars
    PROVE  TypesInv'
<1>1. CASE UNCHANGED vars
  BY <1>1 DEF TypesInv, FilesTyped, vars
<1>2. ASSUME NEW i \in Isolates, Quiet(i) \/ Hook(i) \/ Flushing(i) \/ Summarizing(i)
      PROVE  TypesInv'
  <2>1. PICK q : /\ probe' = [probe EXCEPT ![i] = q] /\ Grows(probe[i], q)
                 /\ ResourcesTyped(q)
    BY <1>2, StepGrows
  <2>2. q \in ProbeStates /\ probe \in [Isolates -> ProbeStates]
        /\ \A j \in Isolates : ResourcesTyped(probe[j])
    BY <2>1 DEF Grows, TypesInv
  <2>3. probe' \in [Isolates -> ProbeStates] /\ \A j \in Isolates : ResourcesTyped(probe'[j])
    BY <2>1, <2>2
  <2>4. FilesTyped
    BY DEF TypesInv
  <2>5. \A R \in {Hooks, Summaries} : \A written \in Seq(Pieces(R)) :
            stream \o written \in Seq(Pieces(AsyncRecords))
    <3> SUFFICES ASSUME NEW R \in {Hooks, Summaries}, NEW written \in Seq(Pieces(R))
                 PROVE  stream \o written \in Seq(Pieces(AsyncRecords))
      OBVIOUS
    <3>1. Pieces(R) \subseteq Pieces(AsyncRecords)
      BY DEF Pieces, AsyncRecords
    <3>2. written \in Seq(Pieces(AsyncRecords)) /\ stream \in Seq(Pieces(AsyncRecords))
      BY <2>4, <3>1, SeqMonotonic DEF FilesTyped
    <3> QED
      BY <3>2, ConcatProperties
  <2>6. stream' \in Seq(Pieces(AsyncRecords))
    <3>1. CASE Quiet(i) \/ Hook(i)
      BY <2>4, <3>1 DEF Quiet, Hook, FilesTyped
    <3>2. CASE Flushing(i)
      BY <2>5, <3>2 DEF Flushing
    <3>3. CASE Summarizing(i)
      BY <2>5, <3>3 DEF Summarizing
    <3> QED
      BY <1>2, <3>1, <3>2, <3>3
  <2>7. telemetry' \in Seq(Pieces(TelemetryRecords)) /\ faults' \in Nat
        /\ unnoticed' \subseteq Isolates
    <3>1. CASE Quiet(i)
      BY <2>4, <3>1 DEF Quiet, FilesTyped
    <3>2. CASE Hook(i)
      BY <2>4, <3>2 DEF Hook, FilesTyped
    <3>3. CASE Flushing(i)
      BY <2>4, <3>3 DEF Flushing, FilesTyped
    <3>4. CASE Summarizing(i)
      BY <2>4, <3>4 DEF Summarizing, FilesTyped
    <3> QED
      BY <1>2, <3>1, <3>2, <3>3, <3>4
  <2>8. FilesTyped'
    BY <2>6, <2>7 DEF FilesTyped
  <2> QED
    BY <2>3, <2>8 DEF TypesInv
<1> QED
  BY <1>1, <1>2, Steps
---------------------------------------------------------------------------
(* The records: each is true of its isolate when it is made, and what it    *)
(* says stays true.                                                          *)
Extends(f, w, g) ==
    /\ \A k \in DOMAIN f : k \in DOMAIN g /\ g[k] = f[k] /\ k \in Nat /\ k <= Len(f)
    /\ \A m \in DOMAIN w : /\ Len(f) + m \in DOMAIN g /\ g[Len(f) + m] = w[m]
                           /\ m \in Nat /\ m >= 1
    /\ \A k \in DOMAIN g : k \in DOMAIN f \/ \E m \in DOMAIN w : k = Len(f) + m
    /\ Len(f) \in Nat

(* A sequence extended by another has both, one after the other.            *)
LEMMA Appended ==
    ASSUME NEW S, NEW f \in Seq(S), NEW w \in Seq(S)
    PROVE  f \o w \in Seq(S) /\ Len(f \o w) = Len(f) + Len(w) /\ Extends(f, w, f \o w)
<1>1. f \o w \in Seq(S) /\ Len(f \o w) = Len(f) + Len(w)
  BY ConcatProperties
<1>2. \A k \in 1..Len(f) + Len(w) : (f \o w)[k] = IF k <= Len(f) THEN f[k] ELSE w[k - Len(f)]
  BY ConcatProperties
<1>3. /\ DOMAIN f = 1..Len(f) /\ DOMAIN w = 1..Len(w) /\ DOMAIN (f \o w) = 1..Len(f) + Len(w)
      /\ Len(f) \in Nat /\ Len(w) \in Nat
  BY <1>1, LenProperties
<1> DEFINE h == f \o w
           n == Len(f)
           l == Len(w)
<1> HIDE DEF h, n, l
<1>4. \A k \in 1..n : k \in 1..n + l /\ k <= n /\ k \in Nat
  BY <1>3 DEF n, l
<1>5. \A k \in 1..n + l : k \in 1..n \/ (k - n \in 1..l /\ k = n + (k - n))
  BY <1>3 DEF n, l
<1>6. /\ DOMAIN f = 1..n /\ DOMAIN w = 1..l /\ DOMAIN h = 1..n + l
      /\ \A k \in 1..n + l : h[k] = IF k <= n THEN f[k] ELSE w[k - n]
  BY <1>2, <1>3 DEF h, n, l
<1>7. \A k \in DOMAIN f : /\ k \in DOMAIN h /\ h[k] = f[k]
                           /\ k \in Nat /\ k <= n
  BY <1>4, <1>6
<1>8. \A m \in DOMAIN w : /\ n + m \in DOMAIN h
                           /\ h[n + m] = w[m]
                           /\ m \in Nat /\ m >= 1
  <2> SUFFICES ASSUME NEW m \in 1..l
               PROVE  n + m \in DOMAIN h /\ h[n + m] = w[m] /\ m \in Nat /\ m >= 1
    BY <1>6
  <2> DEFINE k == n + m
  <2>1. k \in 1..n + l /\ ~(k <= n) /\ k - n = m /\ m \in Nat /\ m >= 1
    BY <1>3 DEF n, l
  <2> HIDE DEF k
  <2>2. h[k] = IF k <= n THEN f[k] ELSE w[k - n]
    BY <1>6, <2>1
  <2>3. h[k] = w[m] /\ k \in DOMAIN h
    BY <1>6, <2>1, <2>2
  <2> QED
    BY <2>1, <2>3 DEF k
<1>9. \A k \in DOMAIN h : k \in DOMAIN f \/ \E m \in DOMAIN w : k = n + m
  BY <1>5, <1>6
<1>10. Extends(f, w, h)
  BY <1>3, <1>7, <1>8, <1>9 DEF Extends, n
<1> QED
  BY <1>1, <1>10 DEF h

(* What is appended is determined by what results.                          *)
LEMMA SameTail ==
    ASSUME NEW S, NEW f \in Seq(S), NEW v \in Seq(S), NEW w \in Seq(S), f \o v = f \o w
    PROVE  v = w
BY ConcatSimplifications

(* The stream as it is extended by a write.                                 *)
LEMMA StreamGrows ==
    ASSUME TypesInv, NEW w \in Seq(Pieces(AsyncRecords)), stream' = stream \o w
    PROVE  Extends(stream, w, stream') /\ stream \in Seq(Pieces(AsyncRecords))
<1>1. stream \in Seq(Pieces(AsyncRecords))
  BY DEF TypesInv, FilesTyped
<1>2. Extends(stream, w, stream \o w)
  BY <1>1, Appended
<1> QED
  BY <1>1, <1>2

(* Flushes and summaries append async records.                              *)
LEMMA AsyncWrites ==
    ASSUME NEW R \in {Hooks, Summaries}, NEW w \in Seq(Pieces(R))
    PROVE  /\ w \in Seq(Pieces(AsyncRecords)) /\ \A m \in DOMAIN w : w[m].record \in R
           /\ DOMAIN w = 1..Len(w) /\ Len(w) \in Nat
<1>1. Pieces(R) \subseteq Pieces(AsyncRecords)
  BY DEF Pieces, AsyncRecords
<1>2. w \in Seq(Pieces(AsyncRecords))
  BY <1>1, SeqMonotonic
<1>3. DOMAIN w = 1..Len(w) /\ Len(w) \in Nat
  BY LenProperties
<1>4. \A m \in DOMAIN w : w[m] \in Pieces(R)
  BY <1>3, ElementOfSeq
<1>5. \A m \in DOMAIN w : w[m].record \in R
  BY <1>4 DEF Pieces
<1> QED
  BY <1>2, <1>3, <1>5

(* What a record says stays true as its isolate goes on.                    *)
LEMMA StaysTold ==
    ASSUME NEW p, NEW q, Grows(p, q), NEW r, Told(p, r)
    PROVE  Told(q, r)
BY DEF Grows, Told

(* What a step appends or buffers is of its own isolate and is so.          *)
LEMMA StepTells ==
    ASSUME TypesInv, RecordsInv, NEW i \in Isolates,
           Quiet(i) \/ Hook(i) \/ Flushing(i) \/ Summarizing(i)
    PROVE  LET p == probe[i]
               q == probe'[i]
           IN /\ probe' = [probe EXCEPT ![i] = q] /\ Grows(p, q)
              /\ \E w \in Seq(Pieces(AsyncRecords)) :
                    /\ stream' = stream \o w
                    /\ \A m \in DOMAIN w : w[m].record.id = i /\ Told(q, w[m].record)
              /\ \A k \in DOMAIN q.buffer : q.buffer[k].id = i /\ Told(q, q.buffer[k])
              /\ q.stage \in Summed => q.buffer = <<>>
<1> DEFINE p == probe[i]
           q == probe'[i]
<1>1. p \in ProbeStates /\ \A new : probe' = [probe EXCEPT ![i] = new] => q = new
  BY DEF TypesInv
<1>2. probe' = [probe EXCEPT ![i] = q] /\ Grows(p, q)
  BY <1>1, StepGrows
<1>3. /\ \A k \in DOMAIN p.buffer : p.buffer[k].id = i /\ Told(p, p.buffer[k])
      /\ p.stage \in Summed => p.buffer = <<>>
  BY DEF RecordsInv
<1>4. \A k \in DOMAIN p.buffer : p.buffer[k].id = i /\ Told(q, p.buffer[k])
  BY <1>2, <1>3, StaysTold
<1>5. stream \in Seq(Pieces(AsyncRecords))
  BY DEF TypesInv, FilesTyped
<1> DEFINE Writes == \E w \in Seq(Pieces(AsyncRecords)) :
                        /\ stream' = stream \o w
                        /\ \A m \in DOMAIN w : w[m].record.id = i /\ Told(q, w[m].record)
           Buffers == /\ \A k \in DOMAIN q.buffer : q.buffer[k].id = i /\ Told(q, q.buffer[k])
                      /\ q.stage \in Summed => q.buffer = <<>>
<1>6. ASSUME UNCHANGED stream PROVE Writes
  <2> DEFINE w == <<>>
  <2>1. w \in Seq(Pieces(AsyncRecords)) /\ DOMAIN w = {} /\ stream \o w = stream
    BY <1>5, ConcatEmptySeq
  <2> QED
    BY <1>6, <2>1
<1> HIDE DEF p, q
<1>7. CASE Quiet(i)
  <2>1. /\ q.buffer = p.buffer /\ (p.stage \in Summed <=> q.stage \in Summed)
        /\ UNCHANGED stream
    BY <1>1, <1>7 DEF Quiet, p
  <2>2. Buffers
    BY <1>3, <1>4, <2>1
  <2> QED
    BY <1>2, <1>6, <2>1, <2>2 DEF p, q
<1>8. CASE Hook(i)
  <2>1. PICK rec \in Hooks :
          /\ q \in ProbeStates
          /\ q.stage = "running" /\ UNCHANGED stream
          /\ rec.id = i
          /\ \/ /\ rec.event # "init" /\ q.triggers = p.triggers
                /\ rec.async_id \in DOMAIN p.triggers
             \/ \E trigger \in 0..Len(p.triggers) :
                   /\ q.triggers = Append(p.triggers, trigger)
                   /\ rec.event = "init" /\ rec.async_id = Len(p.triggers) + 1
                   /\ rec.trigger = trigger /\ rec.type = <<i, rec.async_id>>
          /\ q.buffer = Append(p.buffer, rec) \/ q.buffer = p.buffer
    BY <1>1, <1>8 DEF Hook, Counts, p
  <2>2. rec.event # "async_summary"
    BY DEF Hooks, Inits
  <2>3. Told(q, rec)
    <3>1. CASE rec.event # "init"
      BY <2>1, <2>2, <3>1 DEF Told
    <3>2. ASSUME NEW trigger \in 0..Len(p.triggers), q.triggers = Append(p.triggers, trigger),
                 rec.async_id = Len(p.triggers) + 1,
                 rec.trigger = trigger, rec.type = <<i, rec.async_id>>
          PROVE  Told(q, rec)
      <4>1. p.triggers \in Seq(Nat) /\ trigger \in Nat
        BY <1>1, <3>2 DEF ProbeStates
      <4>2. /\ DOMAIN Append(p.triggers, trigger) = 1..Len(p.triggers) + 1
            /\ Append(p.triggers, trigger)[Len(p.triggers) + 1] = trigger
            /\ Len(p.triggers) + 1 \in 1..Len(p.triggers) + 1
        BY <4>1
      <4> QED
        BY <2>1, <2>2, <3>2, <4>2 DEF Told
    <3> QED
      BY <2>1, <3>1, <3>2
  <2>4. Buffers
    <3>1. CASE q.buffer = p.buffer
      BY <1>4, <2>1, <3>1 DEF Summed
    <3>2. CASE q.buffer = Append(p.buffer, rec)
      <4> DEFINE s == p.buffer
      <4>1. s \in Seq(Hooks)
        BY <1>1 DEF ProbeStates
      <4> HIDE DEF s
      <4>2. \A k \in DOMAIN Append(s, rec) :
               \/ k \in DOMAIN s /\ Append(s, rec)[k] = s[k]
               \/ Append(s, rec)[k] = rec
        BY <4>1
      <4> QED
        BY <1>4, <2>1, <2>3, <3>2, <4>2 DEF Summed, s
    <3> QED
      BY <2>1, <3>1, <3>2
  <2> QED
    BY <1>2, <1>6, <2>1, <2>4 DEF p, q
<1>9. CASE Flushing(i)
  <2>1. PICK w \in Seq(Pieces(Hooks)) :
          /\ stream' = stream \o w /\ q.buffer = <<>>
          /\ Len(w) <= Len(p.buffer)
          /\ \A k \in DOMAIN w : w[k].record = p.buffer[k]
    BY <1>1, <1>9 DEF Flushing, p
  <2>2. DOMAIN w \subseteq DOMAIN p.buffer
    <3>1. p.buffer \in Seq(Hooks)
      BY <1>1 DEF ProbeStates
    <3>2. DOMAIN p.buffer = 1..Len(p.buffer) /\ DOMAIN w = 1..Len(w)
          /\ Len(p.buffer) \in Nat /\ Len(w) \in Nat
      BY <3>1, LenProperties
    <3> QED
      BY <2>1, <3>2
  <2>3. w \in Seq(Pieces(AsyncRecords))
    <3>1. Pieces(Hooks) \subseteq Pieces(AsyncRecords)
      BY DEF Pieces, AsyncRecords
    <3> QED
      BY <3>1, SeqMonotonic
  <2>4. Writes
    BY <1>4, <2>1, <2>2, <2>3
  <2>5. Buffers
    BY <2>1
  <2> QED
    BY <1>2, <2>4, <2>5 DEF p, q
<1>10. CASE Summarizing(i)
  <2>1. PICK w \in Seq(Pieces(Summaries)) :
          /\ stream' = stream \o w /\ q.buffer = p.buffer /\ p.buffer = <<>>
          /\ q.stage = "summed" /\ q.dropped = p.dropped
          /\ \A k \in DOMAIN w : /\ w[k].record.id = i
                                 /\ w[k].record.dropped = p.dropped
    BY <1>1, <1>10 DEF Summarizing, p
  <2>2. w \in Seq(Pieces(AsyncRecords))
    <3>1. Pieces(Summaries) \subseteq Pieces(AsyncRecords)
      BY DEF Pieces, AsyncRecords
    <3> QED
      BY <3>1, SeqMonotonic
  <2>3. \A k \in DOMAIN w : w[k].record.event = "async_summary"
    <3>1. \A k \in DOMAIN w : w[k] \in Pieces(Summaries)
      BY LenProperties, ElementOfSeq
    <3> QED
      BY <3>1 DEF Pieces, Summaries
  <2>4. Writes
    BY <2>1, <2>2, <2>3 DEF Told, Summed
  <2>5. Buffers
    BY <2>1
  <2> QED
    BY <1>2, <2>4, <2>5 DEF p, q
<1> QED
  BY <1>7, <1>8, <1>9, <1>10

(* Every step keeps it so that records say what is so.                      *)
LEMMA RecordsStep ==
    ASSUME TypesInv, RecordsInv, [Next]_vars
    PROVE  RecordsInv'
<1>1. CASE UNCHANGED vars
  BY <1>1 DEF RecordsInv, vars
<1>2. ASSUME NEW i \in Isolates, Quiet(i) \/ Hook(i) \/ Flushing(i) \/ Summarizing(i)
      PROVE  RecordsInv'
  <2> DEFINE p == probe[i]
             q == probe'[i]
  <2>1. /\ probe' = [probe EXCEPT ![i] = q] /\ Grows(p, q)
        /\ \A k \in DOMAIN q.buffer : q.buffer[k].id = i /\ Told(q, q.buffer[k])
        /\ q.stage \in Summed => q.buffer = <<>>
    BY <1>2, StepTells
  <2>2. PICK w \in Seq(Pieces(AsyncRecords)) :
          /\ stream' = stream \o w
          /\ \A m \in DOMAIN w : w[m].record.id = i /\ Told(q, w[m].record)
    BY <1>2, StepTells
  <2>3. stream \in Seq(Pieces(AsyncRecords)) /\ probe \in [Isolates -> ProbeStates]
    BY DEF TypesInv, FilesTyped
  <2>4. \A j \in Isolates \ {i} : probe'[j] = probe[j]
    BY <2>1, <2>3
  <2>5. ASSUME NEW k \in DOMAIN stream'
        PROVE  Told(probe'[stream'[k].record.id], stream'[k].record)
    <3>1. CASE k \in DOMAIN stream
      <4> DEFINE r == stream[k].record
      <4>1. stream'[k] = stream[k] /\ stream[k] \in Pieces(AsyncRecords)
        <5>1. Extends(stream, w, stream')
          BY <2>2, <2>3, StreamGrows
        <5>2. \A l \in 1..Len(stream) : stream[l] \in Pieces(AsyncRecords)
          BY <2>3, ElementOfSeq
        <5>3. DOMAIN stream = 1..Len(stream)
          BY <2>3, LenProperties
        <5> QED
          BY <3>1, <5>1, <5>2, <5>3 DEF Extends
      <4>2. r.id \in Isolates
        BY <4>1 DEF Pieces, AsyncRecords, Hooks, Inits, Summaries
      <4>3. Told(probe[r.id], r)
        BY <3>1 DEF RecordsInv
      <4>4. CASE r.id = i
        BY <2>1, <4>1, <4>3, <4>4, StaysTold
      <4>5. CASE r.id # i
        BY <2>4, <4>1, <4>2, <4>3, <4>5
      <4> QED
        BY <4>4, <4>5
    <3>2. CASE \E m \in DOMAIN w : k = Len(stream) + m
      <4>1. PICK m \in DOMAIN w : k = Len(stream) + m
        BY <3>2
      <4>2. stream'[k] = w[m]
        <5>1. Extends(stream, w, stream')
          BY <2>2, <2>3, StreamGrows
        <5> QED
          BY <4>1, <5>1 DEF Extends
      <4> QED
        BY <2>2, <4>2
    <3> QED
      <4>1. Extends(stream, w, stream')
        BY <2>2, <2>3, StreamGrows
      <4> QED
        BY <2>5, <3>1, <3>2, <4>1 DEF Extends
  <2>6. ASSUME NEW j \in Isolates
        PROVE  /\ \A k \in DOMAIN probe'[j].buffer :
                     probe'[j].buffer[k].id = j /\ Told(probe'[j], probe'[j].buffer[k])
               /\ probe'[j].stage \in Summed => probe'[j].buffer = <<>>
    <3>1. CASE j = i
      BY <2>1, <3>1
    <3>2. CASE j # i
      BY <2>4, <3>2 DEF RecordsInv
    <3> QED
      BY <3>1, <3>2
  <2> QED
    BY <2>5, <2>6 DEF RecordsInv
<1> QED
  BY <1>1, <1>2, Steps
---------------------------------------------------------------------------
(* Nothing follows a summary: an isolate that has written one writes no     *)
(* event, and no second summary.                                             *)
LEMMA LastStep ==
    ASSUME TypesInv, RecordsInv, LastInv, [Next]_vars
    PROVE  LastInv'
<1>1. CASE UNCHANGED vars
  BY <1>1 DEF LastInv, vars
<1>2. ASSUME NEW i \in Isolates, Quiet(i) \/ Hook(i) \/ Flushing(i) \/ Summarizing(i)
      PROVE  LastInv'
  <2> DEFINE p == probe[i]
  <2>1. PICK w \in Seq(Pieces(AsyncRecords)) :
          /\ stream' = stream \o w
          /\ \A m \in DOMAIN w : w[m].record.id = i /\ Told(probe'[i], w[m].record)
    BY <1>2, StepTells
  <2>2. stream \in Seq(Pieces(AsyncRecords))
    BY DEF TypesInv, FilesTyped
  <2>3. CASE UNCHANGED stream
    BY <2>3 DEF LastInv
  <2>4. ASSUME p.stage \notin Summed,
               \/ \A m \in DOMAIN w : w[m].record.event # "async_summary"
               \/ Len(w) <= 1
        PROVE  LastInv'
    <3>1. SUFFICES ASSUME NEW j \in DOMAIN stream', NEW k \in DOMAIN stream',
                          stream'[j].record.event = "async_summary",
                          stream'[k].record.id = stream'[j].record.id
                   PROVE  k <= j
      BY DEF LastInv
    <3>2. /\ \A l \in DOMAIN stream : stream'[l] = stream[l] /\ l \in Nat /\ l <= Len(stream)
          /\ \A m \in DOMAIN w : stream'[Len(stream) + m] = w[m] /\ m \in Nat /\ m >= 1
          /\ \A l \in DOMAIN stream' : l \in DOMAIN stream \/ \E m \in DOMAIN w : l = Len(stream) + m
          /\ Len(stream) \in Nat
      <4>1. Extends(stream, w, stream')
        BY <2>1, StreamGrows
      <4> QED
        BY <4>1 DEF Extends
    <3>3. CASE j \in DOMAIN stream
      <4>1. CASE k \in DOMAIN stream
        BY <3>1, <3>2, <3>3, <4>1 DEF LastInv
      <4>2. ASSUME NEW m \in DOMAIN w, k = Len(stream) + m
            PROVE  FALSE
        <5>1. stream[j].record.id = i /\ stream[j].record.event = "async_summary"
          BY <2>1, <3>1, <3>2, <3>3, <4>2
        <5> QED
          BY <2>4, <3>3, <5>1 DEF RecordsInv, Told
      <4> QED
        BY <3>2, <4>1, <4>2
    <3>4. ASSUME NEW m \in DOMAIN w, j = Len(stream) + m
          PROVE  k <= j
      <4>1. CASE k \in DOMAIN stream
        BY <3>2, <3>4, <4>1
      <4>2. ASSUME NEW l \in DOMAIN w, k = Len(stream) + l
            PROVE  k <= j
        <5>1. w[m].record.event = "async_summary"
          BY <3>1, <3>2, <3>4
        <5>2. Len(w) <= 1 /\ DOMAIN w = 1..Len(w) /\ Len(w) \in Nat
          BY <2>4, <5>1, LenProperties
        <5>3. l = m
          BY <5>2
        <5> QED
          BY <3>2, <3>4, <4>2, <5>3
      <4> QED
        BY <3>2, <4>1, <4>2
    <3> QED
      BY <3>2, <3>3, <3>4
  <2>5. CASE Quiet(i) \/ Hook(i)
    BY <2>3, <2>5 DEF Quiet, Hook
  <2>6. CASE Flushing(i)
    <3>1. PICK v \in Seq(Pieces(Hooks)) : stream' = stream \o v
      BY <2>6 DEF Flushing
    <3>2. v \in Seq(Pieces(AsyncRecords)) /\ \A m \in DOMAIN v : v[m].record \in Hooks
      BY AsyncWrites
    <3>3. \A m \in DOMAIN v : v[m].record.event # "async_summary"
      BY <3>2 DEF Hooks, Inits
    <3>4. v = w
      BY <2>1, <2>2, <3>1, <3>2, SameTail
    <3>5. p.stage \notin Summed
      BY <2>6 DEF Flushing, Summed
    <3> QED
      BY <2>4, <3>3, <3>4, <3>5
  <2>7. CASE Summarizing(i)
    <3>1. PICK v \in Seq(Pieces(Summaries)) : stream' = stream \o v /\ Len(v) <= 1
      BY <2>7 DEF Summarizing
    <3>2. v \in Seq(Pieces(AsyncRecords))
      BY AsyncWrites
    <3>3. v = w
      BY <2>1, <2>2, <3>1, <3>2, SameTail
    <3>4. p.stage \notin Summed
      BY <2>7 DEF Summarizing, Summed
    <3> QED
      BY <2>4, <3>1, <3>3, <3>4
  <2> QED
    BY <1>2, <2>5, <2>6, <2>7
<1> QED
  BY <1>1, <1>2, Steps
---------------------------------------------------------------------------
(* The steps of the other isolates keep the order of the events.            *)
LEMMA OrderOthers ==
    ASSUME TypesInv, NEW w \in Seq(Pieces(AsyncRecords)), stream' = stream \o w,
           NEW i \in Isolates, \A m \in DOMAIN w : w[m].record.id # i,
           probe'[i] = probe[i], Ordered(i)
    PROVE  Ordered(i)'
<1>1. /\ \A k \in DOMAIN stream : k \in DOMAIN stream' /\ stream'[k] = stream[k]
      /\ \A k \in DOMAIN stream' :
             k \in DOMAIN stream \/ \E m \in DOMAIN w : stream'[k] = w[m]
  <2>1. Extends(stream, w, stream')
    BY StreamGrows
  <2> QED
    BY <2>1 DEF Extends
<1>2. \A n : Streamed(i, n) => Streamed(i, n)'
  BY <1>1 DEF Streamed
<1>3. \A k \in DOMAIN stream' : stream'[k].record.id = i => k \in DOMAIN stream
  BY <1>1
<1>4. ASSUME NEW k \in DOMAIN stream', stream'[k].record.id = i,
             stream'[k].record.event # "async_summary",
             NEW n \in 1..stream'[k].record.async_id
      PROVE  \E j \in DOMAIN stream' : j <= k /\ Creates(stream'[j].record, i, n)
  <2>1. k \in DOMAIN stream /\ stream'[k] = stream[k]
    BY <1>1, <1>3, <1>4
  <2>2. PICK j \in DOMAIN stream : j <= k /\ Creates(stream[j].record, i, n)
    BY <1>4, <2>1 DEF Ordered, OrderOf
  <2> QED
    BY <1>1, <2>2
<1>5. OrderOf(i)'
  BY <1>2, <1>4 DEF Ordered, OrderOf
<1>6. probe'[i].dropped = 0 => Complete(i)'
  BY <1>2 DEF Ordered, Complete
<1> QED
  BY <1>5, <1>6 DEF Ordered

(* An event below the maximum keeps the order of its isolate's events.      *)
LEMMA OrderHook ==
    ASSUME TypesInv, NEW i \in Isolates, Hook(i), Ordered(i), ~(probe[i].events >= MaxEvents)
    PROVE  Ordered(i)'
<1> DEFINE p == probe[i]
           q == probe'[i]
<1>1. p \in ProbeStates /\ \A new : probe' = [probe EXCEPT ![i] = new] => q = new
  BY DEF TypesInv
<1> HIDE DEF p, q
<1>2. PICK rec \in Hooks :
        /\ \/ q.triggers = p.triggers /\ rec.async_id \in DOMAIN p.triggers
           \/ \E trigger \in 0..Len(p.triggers) :
                 /\ q.triggers = Append(p.triggers, trigger)
                 /\ rec.event = "init" /\ rec.async_id = Len(p.triggers) + 1
        /\ rec.id = i
        /\ Counts(p, q, rec)
        /\ UNCHANGED stream
  <2>1. PICK new \in ProbeStates, rec \in Hooks :
          /\ probe' = [probe EXCEPT ![i] = new]
          /\ \/ new.triggers = p.triggers /\ rec.async_id \in DOMAIN p.triggers
             \/ \E trigger \in 0..Len(p.triggers) :
                   /\ new.triggers = Append(p.triggers, trigger)
                   /\ rec.event = "init" /\ rec.async_id = Len(p.triggers) + 1
          /\ rec.id = i
          /\ Counts(p, new, rec)
          /\ UNCHANGED stream
    BY DEF Hook, p
  <2>2. q = new
    BY <1>1, <2>1
  <2> QED
    BY <2>1, <2>2
<1>3. p.dropped \in Nat /\ p.triggers \in Seq(Nat) /\ p.buffer \in Seq(Hooks)
  BY <1>1 DEF ProbeStates
<1>4. /\ q.buffer = Append(p.buffer, rec) /\ q.dropped = p.dropped
      /\ p.dropped = 0 /\ OrderOf(i) /\ Complete(i)
  <2>1. q.buffer = Append(p.buffer, rec) /\ q.dropped = p.dropped
    BY <1>2 DEF Counts, p
  <2>2. p.dropped = 0 /\ OrderOf(i) /\ Complete(i)
    BY DEF Ordered, p
  <2> QED
    BY <2>1, <2>2
<1> DEFINE last == Len(p.buffer) + 1
<1>5. /\ DOMAIN q.buffer = DOMAIN p.buffer \cup {last} /\ last \in Nat
      /\ \A k \in DOMAIN p.buffer : q.buffer[k] = p.buffer[k] /\ k < last /\ k \in Nat
      /\ q.buffer[last] = rec
  <2> DEFINE b == p.buffer
  <2> HIDE DEF b
  <2>1. b \in Seq(Hooks)
    BY <1>3 DEF b
  <2>2. /\ DOMAIN Append(b, rec) = DOMAIN b \cup {Len(b) + 1} /\ Len(b) + 1 \in Nat
        /\ \A k \in DOMAIN b : Append(b, rec)[k] = b[k] /\ k < Len(b) + 1 /\ k \in Nat
        /\ Append(b, rec)[Len(b) + 1] = rec
    BY <2>1
  <2> QED
    BY <1>4, <2>2 DEF b
<1> DEFINE t == Len(p.triggers)
<1>6. /\ DOMAIN p.triggers = 1..t /\ t \in Nat
      /\ \/ DOMAIN q.triggers = 1..t /\ rec.async_id \in 1..t
         \/ DOMAIN q.triggers = 1..t + 1 /\ rec.event = "init" /\ rec.async_id = t + 1
  <2>1. DOMAIN p.triggers = 1..t /\ t \in Nat
    BY <1>3
  <2>2. ASSUME NEW trigger \in 0..t, q.triggers = Append(p.triggers, trigger)
        PROVE  DOMAIN q.triggers = 1..t + 1
    BY <1>3, <2>1, <2>2
  <2> QED
    BY <1>2, <2>1, <2>2
<1>7. Creates(rec, i, rec.async_id) \/ rec.event # "init"
  BY <1>2 DEF Creates
<1> HIDE DEF last, t
<1>8. /\ \A k \in DOMAIN stream :
             stream[k].record.id = i /\ stream[k].record.event # "async_summary" =>
                \A n \in 1..stream[k].record.async_id :
                   \E j \in DOMAIN stream : j <= k /\ Creates(stream[j].record, i, n)
      /\ \A k \in DOMAIN p.buffer : \A n \in 1..p.buffer[k].async_id :
             Streamed(i, n) \/ \E j \in DOMAIN p.buffer : j <= k /\ Creates(p.buffer[j], i, n)
      /\ \A n \in 1..t :
             Streamed(i, n) \/ \E j \in DOMAIN p.buffer : Creates(p.buffer[j], i, n)
  BY <1>4, <1>6 DEF OrderOf, Complete, p
<1>9. \A n \in 1..t : Streamed(i, n) \/ \E j \in DOMAIN q.buffer : j <= last /\ Creates(q.buffer[j], i, n)
  BY <1>5, <1>8
<1>10. \A n \in 1..rec.async_id :
          Streamed(i, n) \/ \E j \in DOMAIN q.buffer : j <= last /\ Creates(q.buffer[j], i, n)
  <2> SUFFICES ASSUME NEW n \in 1..rec.async_id
               PROVE  Streamed(i, n) \/ \E j \in DOMAIN q.buffer : j <= last /\ Creates(q.buffer[j], i, n)
    OBVIOUS
  <2>1. n \in 1..t \/ (n = rec.async_id /\ rec.event = "init")
    BY <1>6
  <2>2. CASE n = rec.async_id /\ rec.event = "init"
    BY <1>5, <1>7, <2>2
  <2> QED
    BY <1>9, <2>1, <2>2
<1>11. ASSUME NEW k \in DOMAIN q.buffer, NEW n \in 1..q.buffer[k].async_id
       PROVE  Streamed(i, n) \/ \E j \in DOMAIN q.buffer : j <= k /\ Creates(q.buffer[j], i, n)
  <2>1. CASE k = last
    BY <1>5, <1>10, <1>11, <2>1
  <2>2. CASE k \in DOMAIN p.buffer
    BY <1>5, <1>8, <1>11, <2>2
  <2> QED
    BY <1>5, <1>11, <2>1, <2>2
<1>12. ASSUME NEW n \in DOMAIN q.triggers
       PROVE  Streamed(i, n) \/ \E j \in DOMAIN q.buffer : Creates(q.buffer[j], i, n)
  <2>1. n \in 1..t \/ n \in 1..rec.async_id
    BY <1>6, <1>12
  <2> QED
    BY <1>9, <1>10, <2>1
<1>13. \A n : Streamed(i, n)' <=> Streamed(i, n)
  BY <1>2 DEF Streamed
<1>14. OrderOf(i)'
  BY <1>2, <1>8, <1>11, <1>13 DEF OrderOf, q
<1>15. Complete(i)'
  BY <1>12, <1>13 DEF Complete, q
<1> QED
  BY <1>4, <1>14, <1>15 DEF Ordered, q

(* An event past the maximum is dropped, and leaves the others as they are. *)
LEMMA OrderFull ==
    ASSUME TypesInv, NEW i \in Isolates, Hook(i), Ordered(i), probe[i].events >= MaxEvents
    PROVE  Ordered(i)'
<1> DEFINE p == probe[i]
           q == probe'[i]
<1>1. /\ q.buffer = p.buffer /\ q.dropped = p.dropped + 1 /\ q.events = p.events
      /\ UNCHANGED stream
  <2>1. PICK new \in ProbeStates, rec \in Hooks :
          /\ probe' = [probe EXCEPT ![i] = new] /\ Counts(p, new, rec)
          /\ UNCHANGED stream
    BY DEF Hook
  <2>2. q = new
    BY <2>1 DEF TypesInv
  <2> QED
    BY <2>1, <2>2 DEF Counts
<1>2. q.dropped # 0
  <2>1. p.dropped \in Nat
    BY ProbeTyped DEF ProbeStates
  <2> QED
    BY <1>1, <2>1
<1>3. \A n : Streamed(i, n)' <=> Streamed(i, n)
  BY <1>1 DEF Streamed
<1>4. OrderOf(i)'
  BY <1>1, <1>3 DEF Ordered, OrderOf
<1> QED
  BY <1>1, <1>2, <1>4 DEF Ordered

(* A flush that writes the whole buffer.                                     *)
LEMMA OrderFlush ==
    ASSUME TypesInv, NEW i \in Isolates, Ordered(i),
           NEW w \in Seq(Pieces(Hooks)), stream' = stream \o w,
           Len(w) = Len(probe[i].buffer),
           \A m \in DOMAIN w : w[m].record = probe[i].buffer[m],
           probe'[i].buffer = <<>>, probe'[i].triggers = probe[i].triggers,
           probe'[i].dropped = probe[i].dropped, probe'[i].events = probe[i].events
    PROVE  Ordered(i)'
<1> DEFINE p == probe[i]
           q == probe'[i]
           b == p.buffer
           l == Len(stream)
<1>1. DOMAIN b = DOMAIN w
  <2>1. b \in Seq(Hooks)
    BY ProbeTyped DEF ProbeStates
  <2>2. DOMAIN b = 1..Len(b) /\ DOMAIN w = 1..Len(w)
    BY <2>1, LenProperties
  <2> QED
    BY <2>2
<1>2. /\ \A k \in DOMAIN stream : k \in DOMAIN stream' /\ stream'[k] = stream[k]
                                  /\ k \in Nat /\ k <= l
      /\ \A m \in DOMAIN w : /\ l + m \in DOMAIN stream' /\ stream'[l + m].record = b[m]
                             /\ m \in Nat /\ m >= 1
      /\ \A k \in DOMAIN stream' : k \in DOMAIN stream \/ \E m \in DOMAIN w : k = l + m
      /\ l \in Nat
  <2>1. w \in Seq(Pieces(AsyncRecords))
    BY AsyncWrites
  <2>2. Extends(stream, w, stream')
    BY <2>1, StreamGrows
  <2> QED
    BY <2>2 DEF Extends
<1> HIDE DEF l
<1>3. \A n : Streamed(i, n) \/ (\E j \in DOMAIN b : Creates(b[j], i, n)) => Streamed(i, n)'
  BY <1>1, <1>2 DEF Streamed
<1>4. ASSUME NEW k \in DOMAIN stream', stream'[k].record.id = i,
             stream'[k].record.event # "async_summary",
             NEW n \in 1..stream'[k].record.async_id
      PROVE  \E j \in DOMAIN stream' : j <= k /\ Creates(stream'[j].record, i, n)
  <2>1. CASE k \in DOMAIN stream
    <3>1. PICK j \in DOMAIN stream : j <= k /\ Creates(stream[j].record, i, n)
      BY <1>2, <1>4, <2>1 DEF Ordered, OrderOf
    <3> QED
      BY <1>2, <3>1
  <2>2. ASSUME NEW m \in DOMAIN w, k = l + m
        PROVE  \E j \in DOMAIN stream' : j <= k /\ Creates(stream'[j].record, i, n)
    <3>1. m \in DOMAIN b /\ n \in 1..b[m].async_id /\ k >= l /\ k \in Nat
      <4>1. m \in DOMAIN b /\ stream'[k].record = b[m] /\ m \in Nat /\ l \in Nat
        BY <1>1, <1>2, <2>2
      <4>2. n \in 1..b[m].async_id
        BY <1>4, <4>1
      <4> QED
        BY <2>2, <4>1, <4>2
    <3>2. Streamed(i, n) \/ \E j \in DOMAIN b : j <= m /\ Creates(b[j], i, n)
      BY <3>1 DEF Ordered, OrderOf
    <3>3. CASE Streamed(i, n)
      BY <1>2, <3>1, <3>3 DEF Streamed
    <3>4. ASSUME NEW j \in DOMAIN b, j <= m, Creates(b[j], i, n)
          PROVE  l + j \in DOMAIN stream' /\ l + j <= k /\ Creates(stream'[l + j].record, i, n)
      <4>1. l + j \in DOMAIN stream' /\ stream'[l + j].record = b[j] /\ j \in Nat /\ m \in Nat
        BY <1>1, <1>2, <3>4
      <4>2. l + j <= k
        BY <1>2, <2>2, <3>4, <4>1
      <4> QED
        BY <3>4, <4>1, <4>2
    <3> QED
      BY <3>2, <3>3, <3>4
  <2> QED
    BY <1>2, <1>4, <2>1, <2>2
<1>5. q.dropped = 0 => \A n \in DOMAIN q.triggers : Streamed(i, n)'
  BY <1>3 DEF Ordered, Complete
<1>6. DOMAIN q.buffer = {}
  OBVIOUS
<1>7. OrderOf(i)'
  BY <1>4, <1>6 DEF OrderOf
<1>8. q.dropped = 0 => Complete(i)'
  BY <1>5 DEF Complete
<1> QED
  BY <1>7, <1>8 DEF Ordered

(* Every step keeps the order of the events.                                *)
LEMMA OrderStep ==
    ASSUME TypesInv, RecordsInv, OrderInv, [Next]_vars
    PROVE  OrderInv'
<1>1. CASE UNCHANGED vars
  BY <1>1 DEF OrderInv, Ordered, OrderOf, Complete, Streamed, vars
<1>2. ASSUME NEW i \in Isolates, Quiet(i) \/ Hook(i) \/ Flushing(i) \/ Summarizing(i)
      PROVE  OrderInv'
  <2> DEFINE p == probe[i]
             q == probe'[i]
  <2>0. PICK w \in Seq(Pieces(AsyncRecords)) :
          /\ stream' = stream \o w
          /\ \A m \in DOMAIN w : w[m].record.id = i /\ Told(q, w[m].record)
    BY <1>2, StepTells
  <2>1. /\ probe' = [probe EXCEPT ![i] = q] /\ stream' = stream \o w
        /\ \A m \in DOMAIN w : w[m].record.id = i
    BY <1>2, <2>0, StepTells
  <2>2. /\ probe \in [Isolates -> ProbeStates] /\ p \in ProbeStates /\ p.dropped \in Nat
        /\ faults \in Nat /\ stream \in Seq(Pieces(AsyncRecords))
        /\ \A new : probe' = [probe EXCEPT ![i] = new] => q = new
    BY DEF TypesInv, FilesTyped, ProbeStates
  <2>3. \A j \in Isolates \ {i} : probe'[j] = probe[j]
    BY <2>1, <2>2
  <2>4. faults' \in Nat /\ (faults' = 0 => faults = 0)
    <3>1. faults' \in Nat /\ faults' >= faults
      BY <1>2, <2>2 DEF Quiet, Hook, Flushing, Summarizing
    <3> QED
      BY <2>2, <3>1
  <2>5. ASSUME NEW j \in Isolates, faults' = 0
        PROVE  Ordered(j)'
    <3>1. CASE j # i
      <4>1. Ordered(j)
        BY <2>4, <2>5 DEF OrderInv
      <4> QED
        BY <2>1, <2>3, <3>1, <4>1, OrderOthers
    <3>2. CASE j = i
      <4> HIDE DEF p, q
      <4>1. faults = 0
        BY <2>4, <2>5
      <4>2. Ordered(i)
        BY <4>1 DEF OrderInv
      <4>3. CASE Quiet(i) \/ (Summarizing(i) /\ w = <<>>)
        <5>1. /\ q.dropped = p.dropped /\ q.buffer = p.buffer /\ q.triggers = p.triggers
              /\ q.events = p.events /\ UNCHANGED stream
          <6>1. CASE Quiet(i)
            BY <2>2, <6>1 DEF Quiet, p
          <6>2. CASE Summarizing(i) /\ w = <<>>
            <7>1. /\ q.dropped = p.dropped /\ q.buffer = p.buffer /\ q.triggers = p.triggers
                  /\ q.events = p.events
              BY <2>2, <6>2 DEF Summarizing, p
            <7> QED
              BY <2>1, <2>2, <6>2, <7>1, ConcatEmptySeq
          <6> QED
            BY <4>3, <6>1, <6>2
        <5>2. \A n : Streamed(i, n)' <=> Streamed(i, n)
          BY <5>1 DEF Streamed
        <5>3. OrderOf(i)'
          BY <4>2, <5>1, <5>2 DEF Ordered, OrderOf, p, q
        <5>4. q.dropped = 0 => Complete(i)'
          BY <4>2, <5>1, <5>2 DEF Ordered, Complete, p, q
        <5>5. q.dropped # 0 => q.events >= MaxEvents
          BY <4>2, <5>1 DEF Ordered, p
        <5> QED
          BY <3>2, <5>3, <5>4, <5>5 DEF Ordered, q
      <4>4. CASE Hook(i)
        BY <3>2, <4>2, <4>4, OrderHook, OrderFull
      <4>5. CASE Flushing(i)
        <5>1. PICK v \in Seq(Pieces(Hooks)) :
                /\ stream' = stream \o v
                /\ q.triggers = p.triggers /\ q.buffer = <<>> /\ q.dropped = p.dropped
                /\ q.events = p.events
                /\ Len(v) = Len(p.buffer)
                /\ \A k \in DOMAIN v : v[k].record = p.buffer[k]
          <6>1. faults' # faults + 1
            BY <2>2, <2>5, <4>1
          <6> QED
            BY <2>2, <4>5, <6>1 DEF Flushing, p
        <5> QED
          BY <3>2, <4>2, <5>1, OrderFlush DEF p, q
      <4>6. CASE Summarizing(i)
        <5>1. PICK v \in Seq(Pieces(Summaries)) :
                /\ stream' = stream \o v
                /\ q.dropped = p.dropped /\ q.buffer = p.buffer /\ q.triggers = p.triggers
                /\ q.events = p.events
          BY <2>2, <4>6 DEF Summarizing, p
        <5>3. v \in Seq(Pieces(AsyncRecords)) /\ \A m \in DOMAIN v : v[m].record \in Summaries
          BY AsyncWrites
        <5>4. /\ \A k \in DOMAIN stream : k \in DOMAIN stream' /\ stream'[k] = stream[k]
              /\ \A k \in DOMAIN stream' :
                     \/ k \in DOMAIN stream
                     \/ \E m \in DOMAIN v : stream'[k] = v[m]
          <6>1. /\ \A k \in DOMAIN stream : k \in DOMAIN stream' /\ stream'[k] = stream[k]
                /\ \A m \in DOMAIN v : stream'[Len(stream) + m] = v[m]
                /\ \A k \in DOMAIN stream' :
                       k \in DOMAIN stream \/ \E m \in DOMAIN v : k = Len(stream) + m
            <7>1. Extends(stream, v, stream')
              BY <5>1, <5>3, StreamGrows
            <7> QED
              BY <7>1 DEF Extends
          <6> QED
            BY <6>1
        <5>5. \A n : Streamed(i, n) => Streamed(i, n)'
          BY <5>4 DEF Streamed
        <5>6. ASSUME NEW k \in DOMAIN stream', stream'[k].record.id = i,
                     stream'[k].record.event # "async_summary",
                     NEW n \in 1..stream'[k].record.async_id
              PROVE  \E l \in DOMAIN stream' : l <= k /\ Creates(stream'[l].record, i, n)
          <6>1. k \in DOMAIN stream
            BY <5>3, <5>4, <5>6 DEF Summaries
          <6>2. PICK l \in DOMAIN stream : l <= k /\ Creates(stream[l].record, i, n)
            BY <4>2, <5>4, <5>6, <6>1 DEF Ordered, OrderOf
          <6> QED
            BY <5>4, <6>2
        <5>7. OrderOf(i)'
          BY <4>2, <5>1, <5>5, <5>6 DEF Ordered, OrderOf, p, q
        <5>8. q.dropped = 0 => Complete(i)'
          BY <4>2, <5>1, <5>5 DEF Ordered, Complete, p, q
        <5>9. q.dropped # 0 => q.events >= MaxEvents
          BY <4>2, <5>1 DEF Ordered, p
        <5> QED
          BY <3>2, <5>7, <5>8, <5>9 DEF Ordered, q
      <4> QED
        BY <1>2, <4>3, <4>4, <4>5, <4>6
    <3> QED
      BY <3>1, <3>2
  <2>6. ASSUME faults' = 0, NEW k \in DOMAIN stream'
        PROVE  stream'[k].end = "newline"
    <3>1. \A m \in DOMAIN w : w[m].end = "newline"
      <4>1. CASE Quiet(i) \/ Hook(i)
        <5>1. stream' = stream \o <<>> /\ <<>> \in Seq(Pieces(AsyncRecords))
          BY <2>2, <4>1, ConcatEmptySeq DEF Quiet, Hook
        <5>2. w = <<>>
          BY <2>1, <2>2, <5>1, SameTail
        <5> QED
          BY <5>2
      <4>2. CASE Flushing(i) \/ Summarizing(i)
        <5>1. faults' # faults + 1
          BY <2>2, <2>4, <2>6
        <5>2. PICK R \in {Hooks, Summaries} : \E v \in Seq(Pieces(R)) :
                stream' = stream \o v /\ \A m \in DOMAIN v : v[m].end = "newline"
          BY <4>2, <5>1 DEF Flushing, Summarizing
        <5>3. PICK v \in Seq(Pieces(R)) :
                stream' = stream \o v /\ \A m \in DOMAIN v : v[m].end = "newline"
          BY <5>2
        <5>4. v \in Seq(Pieces(AsyncRecords))
          BY AsyncWrites
        <5>5. stream \o v = stream \o w
          BY <2>1, <5>3
        <5>6. v = w
          BY <2>2, <5>4, <5>5, SameTail
        <5> QED
          BY <5>3, <5>6
      <4> QED
        BY <1>2, <4>1, <4>2
    <3>2. k \in DOMAIN stream \/ \E m \in DOMAIN w : stream'[k] = w[m]
      <4>1. Extends(stream, w, stream')
        BY <2>1, StreamGrows
      <4> QED
        BY <2>6, <4>1 DEF Extends
    <3>3. CASE k \in DOMAIN stream
      <4>1. Extends(stream, w, stream')
        BY <2>1, StreamGrows
      <4> QED
        BY <2>4, <2>6, <3>3, <4>1 DEF Extends, OrderInv
    <3> QED
      BY <3>1, <3>2, <3>3
  <2> QED
    BY <2>5, <2>6 DEF OrderInv
<1> QED
  BY <1>1, <1>2, Steps
---------------------------------------------------------------------------
(* An event is in the stream, in the buffer or counted.                     *)
LEMMA EventsFinite ==
    ASSUME TypesInv, NEW i \in Isolates
    PROVE  /\ IsFiniteSet(EventsIn(stream, i)) /\ Cardinality(EventsIn(stream, i)) \in Nat
           /\ EventsIn(stream, i) \subseteq 1..Len(stream) /\ Len(stream) \in Nat
<1> DEFINE l == Len(stream)
<1>1. stream \in Seq(Pieces(AsyncRecords))
  BY DEF TypesInv, FilesTyped
<1>2. l \in Nat /\ EventsIn(stream, i) \subseteq 1..l
  BY <1>1, LenProperties DEF EventsIn
<1> HIDE DEF l
<1>3. IsFiniteSet(1..l)
  BY <1>2, FS_Interval
<1>4. IsFiniteSet(EventsIn(stream, i))
  BY <1>2, <1>3, FS_Subset
<1> QED
  BY <1>2, <1>4, FS_CardinalityType DEF l

EventsExtend(f, w, g, i) ==
    /\ \A k \in EventsIn(f, i) : k \in EventsIn(g, i) /\ g[k] = f[k]
    /\ \A k \in EventsIn(g, i) \ EventsIn(f, i) :
          \E m \in DOMAIN w : /\ k = Len(f) + m /\ w[m].record.id = i
                              /\ w[m].record.event # "async_summary"
    /\ \A m \in DOMAIN w :
          w[m].record.id = i /\ w[m].record.event # "async_summary" =>
             Len(f) + m \in EventsIn(g, i) /\ g[Len(f) + m] = w[m]

(* An isolate's events after a write are those before and those of the      *)
(* write.                                                                   *)
LEMMA EventsKept ==
    ASSUME TypesInv, NEW w \in Seq(Pieces(AsyncRecords)), stream' = stream \o w, NEW i
    PROVE  EventsExtend(stream, w, stream', i)
<1>1. /\ \A k \in DOMAIN stream : k \in DOMAIN stream' /\ stream'[k] = stream[k]
      /\ \A m \in DOMAIN w : /\ Len(stream) + m \in DOMAIN stream'
                             /\ stream'[Len(stream) + m] = w[m]
      /\ \A k \in DOMAIN stream' :
             k \in DOMAIN stream \/ \E m \in DOMAIN w : k = Len(stream) + m
  <2>1. Extends(stream, w, stream')
    BY StreamGrows
  <2> QED
    BY <2>1 DEF Extends
<1>2. \A k : k \in EventsIn(stream, i) <=> /\ k \in DOMAIN stream /\ stream[k].record.id = i
                                         /\ stream[k].record.event # "async_summary"
  BY DEF EventsIn
<1>3. \A k : k \in EventsIn(stream', i) <=> /\ k \in DOMAIN stream' /\ stream'[k].record.id = i
                                          /\ stream'[k].record.event # "async_summary"
  BY DEF EventsIn
<1>4. ASSUME NEW k \in EventsIn(stream', i) \ EventsIn(stream, i)
      PROVE  \E m \in DOMAIN w : /\ k = Len(stream) + m /\ w[m].record.id = i
                                 /\ w[m].record.event # "async_summary"
  <2>1. k \in DOMAIN stream' /\ k \notin DOMAIN stream
    BY <1>1, <1>2, <1>3, <1>4
  <2>2. PICK m \in DOMAIN w : k = Len(stream) + m
    BY <1>1, <2>1
  <2>3. stream'[k] = w[m]
    BY <1>1, <2>2
  <2>4. w[m].record.id = i /\ w[m].record.event # "async_summary"
    BY <1>3, <1>4, <2>3
  <2> QED
    BY <2>2, <2>4
<1>5. \A m \in DOMAIN w :
         w[m].record.id = i /\ w[m].record.event # "async_summary" =>
            /\ Len(stream) + m \in EventsIn(stream', i)
            /\ stream'[Len(stream) + m] = w[m]
  BY <1>1, <1>3
<1>6. \A k \in EventsIn(stream, i) : k \in EventsIn(stream', i) /\ stream'[k] = stream[k]
  BY <1>1, <1>2, <1>3
<1> QED
  BY <1>4, <1>5, <1>6 DEF EventsExtend

(* A flush adds as many events of its isolate as it writes.                 *)
LEMMA CountFlush ==
    ASSUME TypesInv, NEW i \in Isolates,
           NEW w \in Seq(Pieces(Hooks)), stream' = stream \o w,
           \A m \in DOMAIN w : w[m].record.id = i
    PROVE  Cardinality(EventsIn(stream', i)) = Cardinality(EventsIn(stream, i)) + Len(w)
<1> DEFINE l == Len(stream)
           n == Len(w)
           new == l + 1..l + n
           old == EventsIn(stream, i)
<1>1. /\ w \in Seq(Pieces(AsyncRecords)) /\ \A m \in DOMAIN w : w[m].record \in Hooks
      /\ DOMAIN w = 1..n /\ n \in Nat
  BY AsyncWrites
<1>2. \A m \in DOMAIN w : w[m].record.event # "async_summary"
  BY <1>1 DEF Hooks, Inits
<1>3. IsFiniteSet(old) /\ Cardinality(old) \in Nat /\ old \subseteq 1..l /\ l \in Nat
  BY EventsFinite
<1>4. /\ \A k \in old : k \in EventsIn(stream', i)
      /\ \A k \in EventsIn(stream', i) \ old : \E m \in DOMAIN w : k = l + m
      /\ \A m \in DOMAIN w : l + m \in EventsIn(stream', i)
  <2>1. EventsExtend(stream, w, stream', i)
    BY <1>1, EventsKept
  <2> QED
    BY <1>1, <1>2, <2>1 DEF EventsExtend
<1> HIDE DEF l, n, old
<1>5. \A k \in new : k - l \in 1..n /\ k = l + (k - l)
  BY <1>1, <1>3
<1>6. \A m \in 1..n : l + m \in new
  BY <1>1, <1>3
<1>7. EventsIn(stream', i) = old \cup new
  <2>1. \A k \in new : k \in EventsIn(stream', i)
    BY <1>1, <1>4, <1>5
  <2>2. \A k \in EventsIn(stream', i) \ old : k \in new
    BY <1>1, <1>4, <1>6
  <2> HIDE DEF new
  <2> QED
    BY <1>4, <2>1, <2>2
<1>8. old \cap new = {}
  BY <1>3
<1>9. IsFiniteSet(new) /\ Cardinality(new) = n
  <2> DEFINE a == l + 1
             b == l + n
  <2>1. a \in Int /\ b \in Int /\ (IF a > b THEN 0 ELSE b - a + 1) = n
    BY <1>1, <1>3
  <2> HIDE DEF a, b
  <2>2. IsFiniteSet(a..b) /\ Cardinality(a..b) = IF a > b THEN 0 ELSE b - a + 1
    BY <2>1, FS_Interval
  <2> QED
    BY <2>1, <2>2 DEF a, b
<1> HIDE DEF new
<1>10. Cardinality(old \cup new) = Cardinality(old) + Cardinality(new) - Cardinality(old \cap new)
  BY <1>3, <1>9, FS_Union
<1>11. Cardinality(old \cap new) = 0
  BY <1>8, FS_EmptySet
<1>12. Cardinality(EventsIn(stream', i)) = Cardinality(old) + n
  BY <1>1, <1>3, <1>7, <1>9, <1>10, <1>11
<1> QED
  BY <1>12 DEF old, n

(* Every step keeps each event accounted for.                               *)
LEMMA CountStep ==
    ASSUME TypesInv, RecordsInv, CountInv, [Next]_vars
    PROVE  CountInv'
<1>1. CASE UNCHANGED vars
  BY <1>1 DEF CountInv, EventsIn, vars
<1>2. ASSUME NEW i \in Isolates, Quiet(i) \/ Hook(i) \/ Flushing(i) \/ Summarizing(i)
      PROVE  CountInv'
  <2> DEFINE p == probe[i]
             q == probe'[i]
  <2>0. PICK w \in Seq(Pieces(AsyncRecords)) :
          /\ stream' = stream \o w
          /\ \A m \in DOMAIN w : w[m].record.id = i /\ Told(q, w[m].record)
    BY <1>2, StepTells
  <2>1. /\ probe' = [probe EXCEPT ![i] = q] /\ stream' = stream \o w
        /\ \A m \in DOMAIN w : w[m].record.id = i
    BY <1>2, <2>0, StepTells
  <2>2. /\ probe \in [Isolates -> ProbeStates] /\ p \in ProbeStates
        /\ stream \in Seq(Pieces(AsyncRecords))
        /\ \A new : probe' = [probe EXCEPT ![i] = new] => q = new
    BY DEF TypesInv, FilesTyped
  <2>3. \A j \in Isolates \ {i} : probe'[j] = probe[j]
    BY <2>1, <2>2
  <2>4. unnoticed \subseteq unnoticed'
    BY <1>2 DEF Quiet, Hook, Flushing, Summarizing
  <2>5. SUFFICES ASSUME NEW j \in Isolates \ unnoticed',
                        \A k \in EventsIn(stream', j) : stream'[k].end = "newline"
                 PROVE  Cardinality(EventsIn(stream', j)) + Len(probe'[j].buffer) + probe'[j].dropped
                        = probe'[j].happened
    BY DEF CountInv
  <2>6. \A k \in EventsIn(stream, j) : stream[k].end = "newline"
    <3>1. \A k \in EventsIn(stream, j) : k \in EventsIn(stream', j) /\ stream'[k] = stream[k]
      <4>1. EventsExtend(stream, w, stream', j)
        BY <2>1, <2>2, EventsKept
      <4> QED
        BY <4>1 DEF EventsExtend
    <3> QED
      BY <2>5, <3>1
  <2>7. Cardinality(EventsIn(stream, j)) + Len(probe[j].buffer) + probe[j].dropped = probe[j].happened
    BY <2>4, <2>5, <2>6 DEF CountInv
  <2>8. CASE j # i
    <3>1. EventsIn(stream', j) = EventsIn(stream, j)
      <4>1. /\ \A k \in EventsIn(stream, j) : k \in EventsIn(stream', j)
            /\ \A k \in EventsIn(stream', j) \ EventsIn(stream, j) :
                  \E m \in DOMAIN w : w[m].record.id = j
        <5>1. EventsExtend(stream, w, stream', j)
          BY <2>1, <2>2, EventsKept
        <5> QED
          BY <5>1 DEF EventsExtend
      <4> QED
        BY <2>1, <2>8, <4>1
    <3>2. probe'[j] = probe[j]
      BY <2>3, <2>5, <2>8
    <3> QED
      BY <2>7, <3>1, <3>2
  <2>9. CASE j = i
    <3> HIDE DEF p, q
    <3> DEFINE c == Cardinality(EventsIn(stream, i))
               d == Cardinality(EventsIn(stream', i))
               lp == Len(p.buffer)
               lq == Len(q.buffer)
    <3>1. c + lp + p.dropped = p.happened
      BY <2>7, <2>9 DEF p
    <3>2. c \in Nat /\ lp \in Nat /\ p.dropped \in Nat /\ p.happened \in Nat
          /\ p.buffer \in Seq(Hooks)
      BY <2>2, EventsFinite DEF ProbeStates
    <3>3. SUFFICES d + lq + q.dropped = q.happened
      BY <2>9 DEF q
    <3>4. CASE Quiet(i)
      <4>1. q.buffer = p.buffer /\ q.dropped = p.dropped /\ q.happened = p.happened
            /\ UNCHANGED stream
        BY <2>2, <3>4 DEF Quiet, p
      <4>2. d = c
        BY <4>1 DEF EventsIn
      <4> QED
        BY <3>1, <4>1, <4>2
    <3>5. CASE Hook(i)
      <4>1. PICK rec \in Hooks :
              /\ q.happened = p.happened + 1
              /\ \/ q.buffer = Append(p.buffer, rec) /\ q.dropped = p.dropped
                 \/ q.buffer = p.buffer /\ q.dropped = p.dropped + 1
              /\ UNCHANGED stream
        BY <2>2, <3>5 DEF Hook, Counts, p
      <4>2. d = c
        BY <4>1 DEF EventsIn
      <4>3. Len(Append(p.buffer, rec)) = lp + 1
        BY <3>2
      <4>4. \/ lq = lp + 1 /\ q.dropped = p.dropped
            \/ lq = lp /\ q.dropped = p.dropped + 1
        BY <4>1, <4>3
      <4> HIDE DEF c, d, lp, lq
      <4> QED
        BY <3>1, <3>2, <4>1, <4>2, <4>4
    <3>6. CASE Summarizing(i)
      <4>1. PICK v \in Seq(Pieces(Summaries)) :
              /\ stream' = stream \o v
              /\ q.dropped = p.dropped /\ q.buffer = p.buffer /\ q.happened = p.happened
        BY <2>2, <3>6 DEF Summarizing, p
      <4>2. v \in Seq(Pieces(AsyncRecords)) /\ \A m \in DOMAIN v : v[m].record \in Summaries
        BY AsyncWrites
      <4>3. \A m \in DOMAIN v : v[m].record.event = "async_summary"
        BY <4>2 DEF Summaries
      <4>4. EventsIn(stream', i) = EventsIn(stream, i)
        <5>1. EventsExtend(stream, v, stream', i)
          BY <4>1, <4>2, EventsKept
        <5> QED
          BY <4>3, <5>1 DEF EventsExtend
      <4> QED
        BY <3>1, <4>1, <4>4
    <3>7. CASE Flushing(i)
      <4>1. PICK v \in Seq(Pieces(Hooks)) :
              /\ stream' = stream \o v
              /\ q.happened = p.happened /\ q.buffer = <<>>
              /\ \/ q.dropped = p.dropped /\ Len(v) = lp
                 \/ q.dropped = p.dropped + lp /\ v = <<>>
                 \/ \E k \in DOMAIN v : v[k].end # "newline"
                 \/ unnoticed' = unnoticed \cup {i}
        BY <2>2, <3>7 DEF Flushing, p
      <4>2. /\ v \in Seq(Pieces(AsyncRecords)) /\ \A m \in DOMAIN v : v[m].record \in Hooks
            /\ Len(v) \in Nat
        BY AsyncWrites
      <4>3. v = w
        BY <2>1, <2>2, <4>1, <4>2, SameTail
      <4>4. \A m \in DOMAIN v : v[m].record.id = i /\ v[m].record.event # "async_summary"
        BY <2>1, <4>2, <4>3 DEF Hooks, Inits
      <4>5. ~ \E k \in DOMAIN v : v[k].end # "newline"
        <5>1. \A m \in DOMAIN v : /\ Len(stream) + m \in EventsIn(stream', i)
                                   /\ stream'[Len(stream) + m] = v[m]
          <6>1. EventsExtend(stream, v, stream', i)
            BY <4>1, <4>2, EventsKept
          <6> QED
            BY <4>4, <6>1 DEF EventsExtend
        <5>2. \A m \in DOMAIN v : stream'[Len(stream) + m].end = "newline"
          BY <2>5, <2>9, <4>4, <5>1
        <5> QED
          BY <4>4, <5>1, <5>2
      <4>6. unnoticed' # unnoticed \cup {i}
        BY <2>5, <2>9
      <4>7. d = c + Len(v)
        BY <4>1, <4>4, CountFlush
      <4>8. lq = 0 /\ (v = <<>> => Len(v) = 0)
        BY <4>1
      <4>9. \/ q.dropped = p.dropped /\ Len(v) = lp
            \/ q.dropped = p.dropped + lp /\ Len(v) = 0
        BY <4>1, <4>5, <4>6, <4>8
      <4> HIDE DEF c, d, lp, lq
      <4>10. \/ d = c + lp /\ q.dropped = p.dropped
             \/ d = c /\ q.dropped = p.dropped + lp
        <5>1. c + 0 = c
          BY <3>2
        <5>2. Len(v) = lp => d = c + lp
          BY <4>7
        <5>3. Len(v) = 0 => d = c
          BY <4>7, <5>1
        <5> QED
          BY <4>9, <5>2, <5>3
      <4>11. q.happened = p.happened
        BY <4>1
      <4> QED
        BY <3>1, <3>2, <4>8, <4>10, <4>11
    <3> QED
      BY <1>2, <3>4, <3>5, <3>6, <3>7
  <2> QED
    BY <2>8, <2>9
<1> QED
  BY <1>1, <1>2, Steps
---------------------------------------------------------------------------
(* The invariant holds of empty files.                                      *)
LEMMA Initially ==
    ASSUME Init
    PROVE  Inv
<1>1. NotStarted \in ProbeStates /\ ResourcesTyped(NotStarted)
  BY DEF NotStarted, ProbeStates, ResourcesTyped
<1>2. TypesInv
  BY <1>1 DEF Init, TypesInv, FilesTyped
<1>3. \A i \in Isolates : probe[i] = NotStarted
  BY DEF Init
<1>4. stream = <<>> /\ DOMAIN stream = {} /\ faults = 0
  BY DEF Init
<1>5. RecordsInv
  BY <1>3, <1>4 DEF RecordsInv, NotStarted
<1>6. LastInv
  BY <1>4 DEF LastInv
<1>7. OrderInv
  BY <1>3, <1>4 DEF OrderInv, Ordered, OrderOf, Complete, NotStarted
<1>8. CountInv
  <2> SUFFICES ASSUME NEW i \in Isolates
               PROVE  Cardinality(EventsIn(stream, i)) + Len(probe[i].buffer) + probe[i].dropped
                      = probe[i].happened
    BY DEF CountInv
  <2>1. EventsIn(stream, i) = {}
    BY <1>4 DEF EventsIn
  <2>2. Cardinality(EventsIn(stream, i)) = 0
    BY <2>1, FS_EmptySet
  <2>3. probe[i].buffer = <<>> /\ probe[i].dropped = 0 /\ probe[i].happened = 0
    BY <1>3 DEF NotStarted
  <2>4. Len(probe[i].buffer) = 0
    BY <2>3
  <2> QED
    BY <2>2, <2>3, <2>4
<1> QED
  BY <1>2, <1>5, <1>6, <1>7, <1>8 DEF Inv

(* The invariant is inductive: files and isolates keep their types, what a  *)
(* record says is so, nothing of an isolate follows its summary, the events *)
(* are in the order of the hooks and each is accounted for.                 *)
THEOREM Streams_Invariant == Spec => []Inv
<1>1. Init => Inv
  BY Initially
<1>2. Inv /\ [Next]_vars => Inv'
  BY TypesStep, RecordsStep, LastStep, OrderStep, CountStep DEF Inv
<1> QED
  BY <1>1, <1>2, PTL DEF Spec
---------------------------------------------------------------------------
(* What read_ndjson_checked makes of a file are its records, in their       *)
(* places.                                                                    *)
LEMMA ReadValues ==
    ASSUME NEW R, NEW f \in Seq(Pieces(R))
    PROVE  LET v == read_ndjson_checked(f).values
           IN /\ DOMAIN v \subseteq DOMAIN f /\ DOMAIN v \subseteq Nat /\ IsFiniteSet(DOMAIN v)
              /\ \A k \in DOMAIN v : v[k] \in R /\ v[k] = f[k].record
<1> DEFINE D == {k \in DOMAIN f : Parses(f, k)}
           n == Len(f)
<1>1. read_ndjson_checked(f).values = [k \in D |-> f[k].record]
  BY DEF read_ndjson_checked
<1>2. DOMAIN f = 1..n /\ n \in Nat
  BY LenProperties
<1>3. \A k \in DOMAIN f : f[k].record \in R
  <2>1. \A k \in DOMAIN f : f[k] \in Pieces(R)
    BY <1>2, ElementOfSeq
  <2> QED
    BY <2>1 DEF Pieces
<1> HIDE DEF n
<1>4. IsFiniteSet(1..n)
  BY <1>2, FS_Interval
<1>5. IsFiniteSet(D)
  BY <1>2, <1>4, FS_Subset
<1> QED
  BY <1>1, <1>2, <1>3, <1>5

---------------------------------------------------------------------------
(* An isolate's summary in the stream is its only one, with its number of   *)
(* dropped events.                                                            *)
LEMMA OneSummary ==
    ASSUME Inv, NEW s \in DOMAIN stream, NEW i \in Isolates,
           stream[s].record.event = "async_summary", stream[s].record.id = i
    PROVE  /\ stream[s].record.dropped = probe[i].dropped
           /\ probe[i].buffer = <<>> /\ probe[i].stage \in Summed
           /\ \A k \in DOMAIN stream :
                 stream[k].record.id = i => /\ k <= s
                                            /\ stream[k].record.event = "async_summary" => k = s
<1>1. Told(probe[i], stream[s].record)
  BY DEF Inv, RecordsInv
<1>2. stream[s].record.dropped = probe[i].dropped /\ probe[i].stage \in Summed
  BY <1>1 DEF Told
<1>3. probe[i].buffer = <<>>
  BY <1>2 DEF Inv, RecordsInv
<1>4. DOMAIN stream \subseteq Nat
  BY LenProperties DEF Inv, TypesInv, FilesTyped
<1>5. \A k \in DOMAIN stream :
         stream[k].record.id = i => /\ k <= s
                                    /\ stream[k].record.event = "async_summary" => s <= k
  BY DEF Inv, LastInv
<1>6. \A k \in DOMAIN stream : k \in Nat /\ s \in Nat
  BY <1>4
<1>7. \A k \in DOMAIN stream :
         stream[k].record.id = i => /\ k <= s
                                    /\ stream[k].record.event = "async_summary" => k = s
  BY <1>5, <1>6
<1> QED
  BY <1>2, <1>3, <1>7

(* What passes the integrity checks has every event or counts it.           *)
LEMMA LossHolds ==
    ASSUME Inv
    PROVE  LossExplained
<1> SUFFICES ASSUME telemetry_integrity(T), async_integrity(E, T),
                    NEW i \in By(T.values, Which(T.values, "start")) \ unnoticed
             PROVE  analyze_async(Own(E.values, i)).events + analyze_async(Own(E.values, i)).dropped
                    = probe[i].happened
  BY DEF LossExplained
<1> DEFINE v == E.values
           own == Own(v, i)
<1>1. DOMAIN stream \subseteq Nat /\ Len(stream) \in Nat /\ DOMAIN stream = 1..Len(stream)
  BY LenProperties DEF Inv, TypesInv, FilesTyped
<1>2. \A k \in DOMAIN stream : Parses(stream, k)
  BY DEF async_integrity, E, read_ndjson_checked
<1>3. DOMAIN v = DOMAIN stream /\ \A k \in DOMAIN stream : v[k] = stream[k].record
  BY <1>2 DEF E, read_ndjson_checked
<1>4. PICK s \in DOMAIN stream : v[s].event = "async_summary" /\ v[s].id = i
  <2>1. i \in By(v, Which(v, "async_summary"))
    BY DEF async_integrity
  <2> QED
    BY <1>3, <2>1 DEF By, Which
<1>5. i \in Isolates
  <2>1. stream \in Seq(Pieces(AsyncRecords))
    BY DEF Inv, TypesInv, FilesTyped
  <2>2. stream[s] \in Pieces(AsyncRecords)
    BY <1>1, <2>1, ElementOfSeq
  <2>3. v[s] \in AsyncRecords
    BY <1>3, <2>2 DEF Pieces
  <2> QED
    BY <1>4, <2>3 DEF AsyncRecords, Hooks, Inits, Summaries
<1>6. /\ stream[s].record.dropped = probe[i].dropped /\ probe[i].buffer = <<>>
      /\ \A k \in DOMAIN stream :
            stream[k].record.id = i => /\ k <= s
                                       /\ stream[k].record.event = "async_summary" => k = s
  BY <1>3, <1>4, <1>5, OneSummary
<1>7. \A k \in EventsIn(stream, i) : stream[k].end = "newline"
  <2> SUFFICES ASSUME NEW k \in EventsIn(stream, i)
               PROVE  stream[k].end = "newline"
    OBVIOUS
  <2>1. k \in DOMAIN stream /\ k <= s /\ k # s
    BY <1>3, <1>4, <1>6 DEF EventsIn
  <2>2. k # Len(stream)
    BY <1>1, <2>1
  <2> QED
    BY <1>2, <2>1, <2>2 DEF Parses
<1>8. Cardinality(EventsIn(stream, i)) + Len(probe[i].buffer) + probe[i].dropped = probe[i].happened
  BY <1>5, <1>7 DEF Inv, CountInv
<1>9. Len(probe[i].buffer) = 0
  BY <1>6
<1>10. /\ DOMAIN own = {k \in DOMAIN stream : stream[k].record.id = i}
       /\ \A k \in DOMAIN own : own[k] = stream[k].record
  BY <1>3 DEF Own, Restrict
<1> HIDE DEF own, v
<1>11. Which(own, "async_summary") = {s}
  BY <1>3, <1>4, <1>6, <1>10 DEF Which
<1>12. DOMAIN own \ Which(own, "async_summary") = EventsIn(stream, i)
  BY <1>10 DEF EventsIn, Which
<1>13. analyze_async(own).events = Cardinality(EventsIn(stream, i))
  BY <1>12 DEF analyze_async
<1>14. analyze_async(own).dropped = probe[i].dropped
  <2> DEFINE lost == [k \in {s} |-> own[k].dropped]
  <2>1. analyze_async(own).dropped = SumFunctionOnSet(lost, {s})
    BY <1>11 DEF analyze_async, SumFunction
  <2>2. lost[s] = probe[i].dropped
    BY <1>3, <1>4, <1>6, <1>10
  <2>3. probe[i].dropped \in Int
    BY <1>5, ProbeTyped DEF Inv, ProbeStates
  <2> HIDE DEF lost
  <2>4. SumFunctionOnSet(lost, {s}) = lost[s]
    BY <2>2, <2>3, SumSingle
  <2> QED
    BY <2>1, <2>2, <2>4
<1>15. probe[i].dropped \in Nat /\ Cardinality(EventsIn(stream, i)) \in Nat
  BY <1>5, ProbeTyped, EventsFinite DEF Inv, ProbeStates
<1>16. analyze_async(own).events + analyze_async(own).dropped = probe[i].happened
  BY <1>8, <1>9, <1>13, <1>14, <1>15
<1> QED
  BY <1>16 DEF own, v

(* Both integrity checks passed: an isolate the telemetry knows has a       *)
(* summary, all its events come before it, each on a line of its own, and   *)
(* what is not among them is in the number the summary tells.               *)
THEOREM Loss_Explained == Spec => []LossExplained
BY Streams_Invariant, LossHolds, PTL
---------------------------------------------------------------------------
(* Triggers are older than what they trigger: up the triggers of a resource *)
(* the numbers decrease to 0, and stay there.                                *)
Up(triggers) == [m \in 0..Len(triggers) |-> IF m = 0 THEN 0 ELSE triggers[m]]

LineUp(triggers, c) == Walk(Up(triggers), c, Len(triggers) + 1)

PathLength(triggers, c) ==
    Min({m \in DOMAIN LineUp(triggers, c) : LineUp(triggers, c)[m] = 0}) - 1

Descending(triggers, c) ==
    LET line == LineUp(triggers, c)
        size == Len(triggers)
        length == PathLength(triggers, c)
    IN /\ DOMAIN line = 1..size + 1 /\ size \in Nat /\ line[1] = c
       /\ \A m \in 1..size : line[m + 1] = Up(triggers)[line[m]]
       /\ length \in 1..size
       /\ \A m \in 1..length : line[m] \in 1..c
       /\ \A m \in 1..size + 1 : m > length => line[m] = 0
       /\ \A m, n \in 1..length : line[m] = line[n] => m = n

(* Going up from a resource by its triggers, the numbers decrease to 0.     *)
LEMMA Descends ==
    ASSUME NEW triggers \in Seq(Nat), \A n \in DOMAIN triggers : triggers[n] \in 0..n - 1,
           NEW c \in DOMAIN triggers
    PROVE  Descending(triggers, c)
<1> DEFINE line == LineUp(triggers, c)
           size == Len(triggers)
           length == PathLength(triggers, c)
           up == Up(triggers)
<1>1. size \in Nat /\ DOMAIN triggers = 1..size /\ c \in 1..size
  BY LenProperties
<1>2. /\ up \in [0..size -> 0..size] /\ up[0] = 0 /\ \A n \in 1..size : up[n] < n
      /\ \A n \in 0..size : up[n] \in Nat
  BY <1>1 DEF Up
<1>3. /\ DOMAIN line = 1..size + 1 /\ line[1] = c /\ \A m \in 1..size + 1 : line[m] \in 0..size
      /\ \A m \in 1..size : line[m + 1] = up[line[m]]
  <2> DEFINE n == size + 1
  <2>1. c \in DOMAIN up /\ n \in Nat /\ n # 0 /\ DOMAIN up = 0..size
    BY <1>1, <1>2
  <2>2. \A y \in DOMAIN up : up[y] \in DOMAIN up
    BY <1>2
  <2> HIDE DEF n, up
  <2>3. /\ DOMAIN Walk(up, c, n) = 1..n /\ Walk(up, c, n)[1] = c
        /\ \A k \in 1..n : Walk(up, c, n)[k] \in DOMAIN up
        /\ \A k \in 1..n : k # n => Walk(up, c, n)[k + 1] = up[Walk(up, c, n)[k]]
    <3>1. Visits(up, c, n, Walk(up, c, n))
      BY <2>1, <2>2, WalkSteps
    <3> QED
      BY <3>1 DEF Visits
  <2>4. line = Walk(up, c, n)
    BY DEF LineUp, up, n
  <2>5. \A m \in 1..size : m \in 1..n /\ m # n
    BY <1>1 DEF n
  <2> HIDE DEF line, size
  <2> QED
    BY <2>1, <2>3, <2>4, <2>5 DEF n
<1> HIDE DEF line, size, up
<1>4. \A m \in 1..size + 1 : line[m] \in Nat
  BY <1>1, <1>3
<1>5. \A m \in 1..size : line[m + 1] <= line[m] /\ (line[m] # 0 => line[m + 1] < line[m])
  <2> SUFFICES ASSUME NEW m \in 1..size
               PROVE  line[m + 1] <= line[m] /\ (line[m] # 0 => line[m + 1] < line[m])
    OBVIOUS
  <2>1. line[m] \in 0..size
    BY <1>1, <1>3
  <2>2. line[m] # 0 => up[line[m]] < line[m]
    <3>1. line[m] # 0 => line[m] \in 1..size
      BY <1>1, <2>1
    <3> QED
      BY <1>2, <3>1
  <2>3. line[m + 1] = up[line[m]]
    BY <1>3
  <2>4. line[m] \in Nat
    BY <1>1, <2>1
  <2>5. line[m] = 0 => line[m + 1] = 0
    BY <1>2, <2>3
  <2>6. line[m + 1] \in Nat
    BY <1>1, <1>4
  <2> QED
    BY <2>2, <2>3, <2>4, <2>5, <2>6
<1>6. \A m \in 1..size + 1 : line[m] <= c /\ line[m] <= size + 1 - m
  <2> DEFINE L == {d \in 0..size : line[d + 1] <= c /\ line[d + 1] <= size - d}
  <2>1. 0 \in L
    BY <1>1, <1>3
  <2>2. ASSUME NEW d \in 0..size - 1, d \in L PROVE d + 1 \in L
    <3> DEFINE m == d + 1
    <3>1. m \in 1..size /\ m + 1 \in 1..size + 1 /\ m \in 1..size + 1
      BY <1>1
    <3>2. line[m] <= c /\ line[m] <= size - d
      BY <2>2
    <3>3. line[m + 1] \in Nat /\ line[m] \in Nat
      BY <1>4, <3>1
    <3>4. line[m + 1] <= line[m] /\ (line[m] # 0 => line[m + 1] < line[m])
      BY <1>5, <3>1
    <3>5. line[m + 1] <= c
      BY <1>1, <3>2, <3>3, <3>4
    <3>6. line[m + 1] <= size - m
      <4> DEFINE a == line[m]
                 b == line[m + 1]
      <4>1. m \in Nat /\ size \in Nat /\ d \in Nat /\ m <= size /\ m = d + 1
        BY <1>1
      <4>2. a \in Nat /\ b \in Nat /\ b <= a /\ (a # 0 => b < a) /\ a <= size - d
        BY <3>2, <3>3, <3>4
      <4> HIDE DEF m, a, b
      <4>3. b <= size - m
        BY <4>1, <4>2
      <4> QED
        BY <4>3 DEF b
    <3> QED
      BY <1>1, <3>5, <3>6
  <2> HIDE DEF L
  <2>3. 0..size \subseteq L
    BY <1>1, <2>1, <2>2, UpToInductive
  <2> SUFFICES ASSUME NEW m \in 1..size + 1
               PROVE  line[m] <= c /\ line[m] <= size + 1 - m
    OBVIOUS
  <2>4. m - 1 \in L
    BY <1>1, <2>3
  <2>5. line[(m - 1) + 1] <= c /\ line[(m - 1) + 1] <= size - (m - 1)
    BY <2>4 DEF L
  <2>6. (m - 1) + 1 = m /\ size - (m - 1) = size + 1 - m
    BY <1>1
  <2> QED
    BY <2>5, <2>6
<1> DEFINE zeros == {m \in DOMAIN line : line[m] = 0}
           z == Min(zeros)
<1>7. zeros \in SUBSET Nat /\ size + 1 \in zeros
  <2>1. size + 1 \in 1..size + 1 /\ DOMAIN line = 1..size + 1
    BY <1>1, <1>3
  <2>2. line[size + 1] \in Nat /\ line[size + 1] <= size + 1 - (size + 1)
    BY <1>4, <1>6, <2>1
  <2>3. line[size + 1] = 0
    BY <1>1, <2>2
  <2> QED
    BY <1>1, <2>1, <2>3
<1>8. z \in zeros /\ \A m \in zeros : z <= m
  <2> HIDE DEF zeros
  <2> QED
    BY <1>7, Least
<1>9. z \in 2..size + 1 /\ line[z] = 0 /\ length = z - 1
  <2>1. length = z - 1
    BY DEF PathLength, line
  <2>2. z \in 1..size + 1 /\ line[z] = 0
    BY <1>3, <1>8
  <2>3. z # 1
    BY <1>1, <1>3, <2>2
  <2> QED
    BY <1>1, <2>1, <2>2, <2>3
<1>10. \A m \in 1..size + 1 : m < z => line[m] # 0
  <2> SUFFICES ASSUME NEW m \in 1..size + 1, m < z, line[m] = 0 PROVE FALSE
    OBVIOUS
  <2>1. m \in zeros
    BY <1>3
  <2>2. z <= m /\ z \in Int /\ m \in Int
    BY <1>1, <1>8, <1>9, <2>1
  <2> QED
    BY <2>2
<1> HIDE DEF zeros, z, length
<1>11. length \in 1..size
  BY <1>1, <1>9
<1>12. \A m \in 1..length : line[m] \in 1..c
  BY <1>1, <1>4, <1>6, <1>9, <1>10, <1>11
<1>13. \A m \in 1..size + 1 : m > length => line[m] = 0
  <2> DEFINE L == {d \in 0..size : z + d <= size + 1 => line[z + d] = 0}
  <2>1. 0 \in L
    BY <1>1, <1>9
  <2>2. ASSUME NEW d \in 0..size - 1, d \in L PROVE d + 1 \in L
    <3> SUFFICES ASSUME z + (d + 1) <= size + 1
                 PROVE  line[z + (d + 1)] = 0
      BY <1>1
    <3> DEFINE m == z + d
    <3>1. m \in 1..size /\ z + (d + 1) = m + 1
      BY <1>1, <1>9
    <3>2. line[m] = 0
      BY <1>1, <1>9, <2>2
    <3> HIDE DEF m
    <3>3. line[m + 1] = 0
      BY <1>2, <1>3, <3>1, <3>2
    <3> QED
      BY <3>1, <3>3
  <2> HIDE DEF L
  <2>3. 0..size \subseteq L
    BY <1>1, <2>1, <2>2, UpToInductive
  <2> SUFFICES ASSUME NEW m \in 1..size + 1, m > length PROVE line[m] = 0
    OBVIOUS
  <2>4. m - z \in 0..size /\ z + (m - z) = m
    BY <1>1, <1>9
  <2>5. line[z + (m - z)] = 0
    BY <1>1, <2>3, <2>4 DEF L
  <2> QED
    BY <2>4, <2>5
<1>14. ASSUME NEW m \in 1..length PROVE \A n \in 1..length : n > m => line[n] < line[m]
  <2> DEFINE L == {d \in 0..size : d # 0 /\ m + d <= length => line[m + d] < line[m]}
  <2>1. 0 \in L
    BY <1>1
  <2>2. ASSUME NEW d \in 0..size - 1, d \in L PROVE d + 1 \in L
    <3> SUFFICES ASSUME m + (d + 1) <= length
                 PROVE  line[m + (d + 1)] < line[m]
      BY <1>1
    <3> DEFINE n == m + d
    <3>1. /\ n \in 1..size /\ n \in 1..length /\ m + (d + 1) = n + 1
          /\ n + 1 \in 1..size + 1 /\ m \in 1..size + 1 /\ n \in 1..size + 1
      BY <1>1, <1>11
    <3>2. d = 0 => n = m
      BY <1>11
    <3>3. d # 0 => line[n] < line[m]
      BY <1>1, <1>11, <2>2
    <3> HIDE DEF n
    <3>4. line[n] \in 1..c
      BY <1>12, <3>1
    <3>5. line[n + 1] < line[n]
      BY <1>1, <1>5, <3>1, <3>4
    <3>6. line[n + 1] \in Nat /\ line[n] \in Nat /\ line[m] \in Nat
      BY <1>4, <3>1
    <3>7. line[n + 1] < line[m]
      BY <3>2, <3>3, <3>5, <3>6
    <3> QED
      BY <3>1, <3>7
  <2> HIDE DEF L
  <2>3. 0..size \subseteq L
    BY <1>1, <2>1, <2>2, UpToInductive
  <2> SUFFICES ASSUME NEW n \in 1..length, n > m PROVE line[n] < line[m]
    OBVIOUS
  <2>4. n - m \in 0..size /\ m + (n - m) = n /\ n - m # 0 /\ m + (n - m) <= length
    BY <1>1, <1>11
  <2>5. line[m + (n - m)] < line[m]
    BY <2>3, <2>4 DEF L
  <2> QED
    BY <2>4, <2>5
<1>15. ASSUME NEW m \in 1..length, NEW n \in 1..length, line[m] = line[n] PROVE m = n
  <2>1. m \in Nat /\ n \in Nat /\ line[m] \in Int /\ line[n] \in Int
    BY <1>1, <1>11, <1>12
  <2>2. ~(n > m) /\ ~(m > n)
    BY <1>14, <1>15, <2>1
  <2> QED
    BY <2>1, <2>2
<1>16. DOMAIN line = 1..size + 1
  BY <1>3
<1> QED
  BY <1>1, <1>3, <1>11, <1>12, <1>13, <1>15, <1>16 DEF line, size, length, up, Descending
---------------------------------------------------------------------------
(* What the analysis knows of a key is the last init of it before a record. *)
LEMMA InsertedIs ==
    ASSUME NEW v, DOMAIN v \subseteq Nat \ {0}, IsFiniteSet(DOMAIN v), NEW k \in Nat, NEW key
    PROVE  LET j == Inserted(v, k, key)
           IN /\ j \in {0} \cup Which(v, "init")
              /\ j # 0 => OwnKey(v[j]) = key /\ j < k
              /\ \A m \in Which(v, "init") : m < k /\ OwnKey(v[m]) = key => j # 0 /\ m <= j
<1> DEFINE known == {j \in Which(v, "init") : j < k /\ OwnKey(v[j]) = key}
           all == {0} \cup known
<1>1. Inserted(v, k, key) = Max(all)
  BY DEF Inserted
<1>2. known \in SUBSET DOMAIN v /\ all \in SUBSET Int /\ all # {} /\ 0 \notin known
  BY DEF Which
<1>3. IsFiniteSet(known)
  <2> HIDE DEF known
  <2> QED
    BY <1>2, FS_Subset
<1>4. IsFiniteSet(all)
  <2> HIDE DEF known
  <2> QED
    BY <1>3, FS_Singleton, FS_Union
<1>5. Max(all) \in all /\ \A x \in all : x <= Max(all)
  <2> HIDE DEF all
  <2> QED
    BY <1>2, <1>4, Greatest
<1> DEFINE j == Max(all)
<1>6. j # 0 => j \in known
  BY <1>5
<1>7. \A m \in known : j # 0 /\ m <= j
  <2> SUFFICES ASSUME NEW m \in known PROVE j # 0 /\ m <= j
    OBVIOUS
  <2>1. m <= j
    BY <1>5
  <2>2. m \in Nat \ {0} /\ j \in Int
    BY <1>2, <1>5 DEF Which
  <2> QED
    BY <2>1, <2>2
<1>8. j \in {0} \cup Which(v, "init")
  BY <1>5
<1> QED
  BY <1>1, <1>6, <1>7, <1>8

(* The parts of causal_chain.                                                *)
Parents(v, k) == [j \in {0} \cup Which(v, "init") |-> Parent(v, k, j)]

ChainLine(v, k) == Walk(Parents(v, k), Inserted(v, k, OwnKey(v[k])), ChainLimit + 1)

ChainEnds(v, k, n) ==
    LET line == ChainLine(v, k)
    IN line[n] = 0 \/ n > ChainLimit \/ \E m \in 1..n - 1 : line[m] = line[n]

ChainLength(v, k) == Min({n \in 1..ChainLimit + 1 : ChainEnds(v, k, n)}) - 1

ChainParts(v, k) ==
    LET line == ChainLine(v, k)
        length == ChainLength(v, k)
    IN /\ line[1] = Inserted(v, k, OwnKey(v[k]))
       /\ \A m \in 1..ChainLimit + 1 : line[m] \in {0} \cup Which(v, "init")
       /\ \A m \in 1..ChainLimit : line[m + 1] = Parent(v, k, line[m])
       /\ length \in 0..ChainLimit /\ \A m \in 1..length : line[m] # 0
       /\ \A w \in 0..ChainLimit :
             /\ \A m \in 1..w : line[m] # 0
             /\ \A m, n \in 1..w : line[m] = line[n] => m = n
             => w <= length
       /\ causal_chain(v, k) = [n \in 1..length |-> v[line[length + 1 - n]].type]
       /\ Len(causal_chain(v, k)) = length

(* What causal_chain returns: the resources on the way up, from the         *)
(* nearest, until one is unknown, comes again or the limit is reached.      *)
LEMMA ChainOf ==
    ASSUME NEW v, DOMAIN v \subseteq Nat \ {0}, IsFiniteSet(DOMAIN v), NEW k \in Nat
    PROVE  ChainParts(v, k)
<1> DEFINE parents == Parents(v, k)
           first == Inserted(v, k, OwnKey(v[k]))
           line == ChainLine(v, k)
           last == ChainLimit + 1
           length == ChainLength(v, k)
           D == {0} \cup Which(v, "init")
           Ended(n) == ChainEnds(v, k, n)
           ends == {n \in 1..ChainLimit + 1 : Ended(n)}
           z == Min(ends)
<1>1. ChainLimit \in Nat /\ last \in Nat /\ last # 0
  BY NdjsonAssumption
<1>2. first \in D
  BY InsertedIs
<1>3. \A j \in D : Parent(v, k, j) \in D
  <2> SUFFICES ASSUME NEW j \in D PROVE Parent(v, k, j) \in D
    OBVIOUS
  <2>1. Inserted(v, k, Key(v[j].id, v[j].trigger)) \in D
    BY InsertedIs
  <2> QED
    BY <2>1 DEF Parent
<1>4. DOMAIN parents = D /\ \A j \in D : parents[j] = Parent(v, k, j)
  BY DEF Parents
<1>5. Visits(parents, first, last, line)
  <2> HIDE DEF parents, first, last, D
  <2>1. first \in DOMAIN parents /\ \A y \in DOMAIN parents : parents[y] \in DOMAIN parents
    BY <1>2, <1>3, <1>4
  <2>2. Visits(parents, first, last, Walk(parents, first, last))
    BY <1>1, <2>1, WalkSteps
  <2> QED
    BY <2>2 DEF ChainLine, parents, first, last
<1>6. /\ line[1] = first /\ \A m \in 1..last : line[m] \in D
      /\ \A m \in 1..ChainLimit : line[m + 1] = Parent(v, k, line[m])
  <2> HIDE DEF parents, first, line, D
  <2>1. /\ line[1] = first /\ \A m \in 1..last : line[m] \in D
        /\ \A m \in 1..last : m # last => line[m + 1] = parents[line[m]]
    BY <1>4, <1>5 DEF Visits
  <2>2. \A m \in 1..ChainLimit : m \in 1..last /\ m # last
    BY <1>1
  <2> HIDE DEF last
  <2> QED
    BY <1>4, <2>1, <2>2
<1>7. Ended(last)
  BY <1>1 DEF ChainEnds
<1> HIDE DEF Ended
<1>8. ends \in SUBSET Nat /\ ends # {}
  BY <1>1, <1>7
<1>9. z \in ends /\ \A n \in ends : z <= n
  <2> HIDE DEF ends
  <2> QED
    BY <1>8, Least
<1>10. length = z - 1 /\ z \in 1..ChainLimit + 1
  BY <1>9 DEF ChainLength, Ended
<1> HIDE DEF length, z, ends
<1>11. length \in 0..ChainLimit
  BY <1>1, <1>10
<1>12. \A m \in 1..length : line[m] # 0
  <2> SUFFICES ASSUME NEW m \in 1..length, line[m] = 0 PROVE FALSE
    OBVIOUS
  <2>1. m \in 1..ChainLimit + 1 /\ m < z
    BY <1>1, <1>10
  <2>2. m \in ends
    BY <2>1 DEF ends, Ended, ChainEnds
  <2> QED
    BY <1>1, <1>9, <1>10, <2>1, <2>2
<1>13. ASSUME NEW w \in 0..ChainLimit, \A m \in 1..w : line[m] # 0,
              \A m, n \in 1..w : line[m] = line[n] => m = n
       PROVE  w <= length
  <2> SUFFICES ASSUME w > length PROVE FALSE
    BY <1>1, <1>11
  <2>1. z \in 1..w /\ \A m \in 1..z - 1 : m \in 1..w /\ m # z
    BY <1>1, <1>10
  <2>2. Ended(z)
    BY <1>9 DEF ends
  <2>3. line[z] = 0 \/ z > ChainLimit \/ \E m \in 1..z - 1 : line[m] = line[z]
    BY <2>2 DEF Ended, ChainEnds
  <2>4. ~(z > ChainLimit)
    BY <1>1, <2>1
  <2> QED
    BY <1>13, <2>1, <2>3, <2>4
<1>14. causal_chain(v, k) = [n \in 1..length |-> v[line[length + 1 - n]].type]
  BY DEF causal_chain, length, line, ChainLength, ChainEnds, ChainLine, Parents
<1>15. Len(causal_chain(v, k)) = length
  <2>1. length \in Nat
    BY <1>1, <1>11
  <2> QED
    BY <1>14, <2>1
<1> QED
  <2>1. \A w \in 0..ChainLimit :
           /\ \A m \in 1..w : line[m] # 0
           /\ \A m, n \in 1..w : line[m] = line[n] => m = n
           => w <= length
    BY <1>13
  <2> HIDE DEF line
  <2> QED
    BY <1>6, <1>11, <1>12, <1>14, <1>15, <2>1 DEF first, last, D, length, line, ChainParts
---------------------------------------------------------------------------
(* The record of a resource in the stream says what its isolate knows.      *)
LEMMA InitTells ==
    ASSUME Inv, NEW j \in Which(E.values, "init"), NEW i, NEW n, OwnKey(E.values[j]) = Key(i, n)
    PROVE  /\ n \in DOMAIN probe[i].triggers /\ E.values[j].trigger = probe[i].triggers[n]
           /\ E.values[j].id = i /\ E.values[j].type = <<i, n>>
<1>1. j \in DOMAIN stream /\ E.values[j] = stream[j].record
  BY ReadValues DEF Inv, TypesInv, FilesTyped, E, Which
<1>2. stream[j].record.event = "init" /\ Told(probe[stream[j].record.id], stream[j].record)
  BY <1>1 DEF Inv, RecordsInv, Which
<1>3. stream[j].record.id = i /\ stream[j].record.async_id = n
  BY <1>1 DEF OwnKey, Key
<1> QED
  BY <1>1, <1>2, <1>3 DEF Told

(* What is known of a callback: its isolate has it, and its triggers.       *)
LEMMA CallbackTold ==
    ASSUME Inv, NEW k \in Which(E.values, "callback")
    PROVE  LET v == E.values
               i == v[k].id
           IN /\ DOMAIN v \subseteq Nat \ {0} /\ IsFiniteSet(DOMAIN v) /\ DOMAIN v \subseteq DOMAIN stream
              /\ k \in Nat /\ k \in DOMAIN stream /\ \A j \in DOMAIN v : v[j] = stream[j].record
              /\ i \in Isolates /\ v[k].async_id \in DOMAIN probe[i].triggers
              /\ probe[i].triggers \in Seq(Nat)
              /\ \A n \in DOMAIN probe[i].triggers : probe[i].triggers[n] \in 0..n - 1
<1> DEFINE v == E.values
<1>1. stream \in Seq(Pieces(AsyncRecords))
  BY DEF Inv, TypesInv, FilesTyped
<1>2. /\ DOMAIN v \subseteq DOMAIN stream /\ IsFiniteSet(DOMAIN v)
      /\ \A j \in DOMAIN v : v[j] \in AsyncRecords /\ v[j] = stream[j].record
  BY <1>1, ReadValues DEF E
<1>3. DOMAIN v \subseteq Nat \ {0}
  BY <1>1, <1>2, LenProperties
<1>4. k \in DOMAIN v /\ v[k].event = "callback"
  BY DEF Which
<1>5. v[k].id \in Isolates
  BY <1>2, <1>4 DEF AsyncRecords, Hooks, Inits, Summaries
<1>6. v[k].async_id \in DOMAIN probe[v[k].id].triggers
  BY <1>2, <1>4 DEF Inv, RecordsInv, Told
<1>7. /\ probe[v[k].id].triggers \in Seq(Nat)
      /\ \A n \in DOMAIN probe[v[k].id].triggers : probe[v[k].id].triggers[n] \in 0..n - 1
  BY <1>5, ProbeTyped DEF Inv, ProbeStates, ResourcesTyped
<1> QED
  BY <1>2, <1>3, <1>4, <1>5, <1>6, <1>7

(* As far as the analysis gets, it is on the true path.                      *)
LEMMA ChainFollows ==
    ASSUME Inv, NEW k \in Which(E.values, "callback")
    PROVE  LET v == E.values
               i == v[k].id
               path == LineUp(probe[i].triggers, v[k].async_id)
               line == ChainLine(v, k)
           IN \A m \in 1..ChainLimit + 1 : line[m] # 0 =>
                 /\ m \in 1..PathLength(probe[i].triggers, v[k].async_id)
                 /\ OwnKey(v[line[m]]) = Key(i, path[m])
<1> DEFINE v == E.values
           i == v[k].id
           c == v[k].async_id
           triggers == probe[i].triggers
           path == LineUp(triggers, c)
           size == Len(triggers)
           length == PathLength(triggers, c)
           line == ChainLine(v, k)
           Right(m) == m \in 1..length /\ OwnKey(v[line[m]]) = Key(i, path[m])
           Reached == {d \in 0..ChainLimit : line[d + 1] # 0 => Right(d + 1)}
<1>1. /\ DOMAIN v \subseteq Nat \ {0} /\ IsFiniteSet(DOMAIN v) /\ k \in Nat
      /\ c \in DOMAIN triggers /\ triggers \in Seq(Nat)
      /\ \A n \in DOMAIN triggers : triggers[n] \in 0..n - 1
  BY CallbackTold
<1>2. ASSUME NEW j \in Which(v, "init"), NEW n, OwnKey(v[j]) = Key(i, n)
      PROVE  n \in DOMAIN triggers /\ v[j].trigger = triggers[n] /\ v[j].id = i
  BY <1>2, InitTells
<1>3. OwnKey(v[k]) = Key(i, c)
  BY DEF OwnKey
<1> HIDE DEF v, i, c, triggers
<1>4. /\ size \in Nat /\ path[1] = c
      /\ \A m \in 1..size : path[m + 1] = Up(triggers)[path[m]]
      /\ length \in 1..size /\ \A m \in 1..length : path[m] \in 1..c
      /\ \A m \in 1..size + 1 : m > length => path[m] = 0
  <2>1. Descending(triggers, c)
    BY <1>1, Descends
  <2> QED
    BY <2>1 DEF Descending
<1>5. /\ line[1] = Inserted(v, k, Key(i, c))
      /\ \A m \in 1..ChainLimit + 1 : line[m] \in {0} \cup Which(v, "init")
      /\ \A m \in 1..ChainLimit : line[m + 1] = Parent(v, k, line[m])
  <2>1. ChainParts(v, k)
    BY <1>1, ChainOf
  <2> QED
    BY <1>3, <2>1 DEF ChainParts
<1>6. \A key : LET j == Inserted(v, k, key)
               IN j \in {0} \cup Which(v, "init") /\ (j # 0 => OwnKey(v[j]) = key)
  BY <1>1, InsertedIs
<1>7. ChainLimit \in Nat
  BY NdjsonAssumption
<1> HIDE DEF path, size, length, line
<1>8. 0 \in Reached
  <2>1. line[1] # 0 => OwnKey(v[line[1]]) = Key(i, path[1])
    BY <1>4, <1>5, <1>6
  <2>2. 1 \in 1..length
    BY <1>4
  <2> QED
    BY <1>7, <2>1, <2>2
<1>9. ASSUME NEW d \in 0..ChainLimit - 1, d \in Reached PROVE d + 1 \in Reached
  <2> DEFINE m == d + 1
  <2>1. m \in 1..ChainLimit /\ m + 1 \in 1..ChainLimit + 1 /\ d + 1 \in 0..ChainLimit
    BY <1>7
  <2>2. line[m] # 0 => Right(m)
    BY <1>9
  <2> HIDE DEF m, Right
  <2>3. ASSUME line[m + 1] # 0 PROVE Right(m + 1)
    <3>1. line[m + 1] = Parent(v, k, line[m]) /\ line[m] \in {0} \cup Which(v, "init")
      BY <1>5, <1>7, <2>1
    <3>2. line[m] # 0 /\ v[line[m]].trigger # 0
      BY <2>3, <3>1 DEF Parent
    <3>3. line[m + 1] = Inserted(v, k, Key(v[line[m]].id, v[line[m]].trigger))
      BY <3>1, <3>2 DEF Parent
    <3>4. m \in 1..length /\ OwnKey(v[line[m]]) = Key(i, path[m])
      BY <2>2, <3>2 DEF Right
    <3>5. /\ path[m] \in DOMAIN triggers /\ v[line[m]].trigger = triggers[path[m]]
          /\ v[line[m]].id = i
      BY <1>2, <3>1, <3>2, <3>4
    <3>6. m \in 1..size /\ path[m] # 0 /\ m + 1 \in 1..size + 1 /\ path[m] \in 0..size
      <4>1. DOMAIN triggers = 1..size
        BY <1>1, LenProperties DEF size
      <4> QED
        BY <1>4, <3>4, <3>5, <4>1
    <3>7. path[m + 1] = triggers[path[m]]
      BY <1>4, <3>6 DEF Up, size
    <3>8. line[m + 1] = Inserted(v, k, Key(i, path[m + 1]))
      BY <3>3, <3>5, <3>7
    <3>9. OwnKey(v[line[m + 1]]) = Key(i, path[m + 1])
      BY <1>6, <2>3, <3>8
    <3>10. path[m + 1] # 0
      BY <3>2, <3>5, <3>7
    <3>11. m + 1 \in 1..length
      BY <1>4, <3>6, <3>10
    <3> QED
      BY <3>9, <3>11 DEF Right
  <2> QED
    BY <2>1, <2>3 DEF m
<1> HIDE DEF Reached
<1>10. 0..ChainLimit \subseteq Reached
  BY <1>7, <1>8, <1>9, UpToInductive
<1>11. ASSUME NEW m \in 1..ChainLimit + 1, line[m] # 0 PROVE Right(m)
  <2>1. m - 1 \in Reached /\ (m - 1) + 1 = m
    BY <1>7, <1>10
  <2> HIDE DEF Right
  <2>2. line[(m - 1) + 1] # 0 => Right((m - 1) + 1)
    BY <2>1 DEF Reached
  <2> QED
    BY <1>11, <2>1, <2>2
<1> QED
  BY <1>11 DEF v, i, c, triggers, path, length, line
---------------------------------------------------------------------------
(* If no write went wrong the analysis gets as far as it goes.              *)
LEMMA ChainComplete ==
    ASSUME Inv, NEW k \in Which(E.values, "callback"), faults = 0
    PROVE  LET i == E.values[k].id
               length == PathLength(probe[i].triggers, E.values[k].async_id)
           IN \A m \in 1..length : m <= ChainLimit => ChainLine(E.values, k)[m] # 0
<1> DEFINE v == E.values
           i == v[k].id
           c == v[k].async_id
           triggers == probe[i].triggers
           path == LineUp(triggers, c)
           size == Len(triggers)
           length == PathLength(triggers, c)
           line == ChainLine(v, k)
           Known(n) == Inserted(v, k, Key(i, n)) # 0
           Reached == {d \in 0..size : d + 1 <= length /\ d + 1 <= ChainLimit => line[d + 1] # 0}
<1>1. /\ DOMAIN v \subseteq Nat \ {0} /\ IsFiniteSet(DOMAIN v) /\ k \in Nat /\ k \in DOMAIN stream
      /\ c \in DOMAIN triggers /\ triggers \in Seq(Nat) /\ i \in Isolates
      /\ \A n \in DOMAIN triggers : triggers[n] \in 0..n - 1
  BY CallbackTold
<1>16. \A j \in DOMAIN v : v[j] = stream[j].record
  BY CallbackTold
<1>2. DOMAIN v = DOMAIN stream
  <2>1. \A j \in DOMAIN stream : stream[j].end = "newline"
    BY DEF Inv, OrderInv
  <2>2. \A j \in DOMAIN stream : Parses(stream, j)
    <3>1. DOMAIN stream = 1..Len(stream) /\ Len(stream) \in Nat
      BY LenProperties DEF Inv, TypesInv, FilesTyped
    <3>2. \A j \in 1..Len(stream) : j = 1 \/ j - 1 \in 1..Len(stream)
      BY <3>1
    <3> QED
      BY <2>1, <3>1, <3>2 DEF Parses, Alone
  <2> QED
    BY <2>2 DEF E, read_ndjson_checked
<1>3. v[k].event = "callback" /\ k \in DOMAIN v
  BY DEF Which
<1>4. \A key : \A m \in Which(v, "init") :
         m < k /\ OwnKey(v[m]) = key => Inserted(v, k, key) # 0
  BY <1>1, InsertedIs
<1>5. ASSUME NEW n \in 1..c PROVE Known(n)
  <2>1. OrderOf(i)
    BY <1>1 DEF Inv, OrderInv, Ordered
  <2>2. PICK j \in DOMAIN stream : j <= k /\ Creates(stream[j].record, i, n)
    <3>1. stream[k].record.id = i /\ stream[k].record.event # "async_summary"
          /\ stream[k].record.async_id = c
      BY <1>3, <1>16
    <3> QED
      BY <1>1, <1>5, <2>1, <3>1 DEF OrderOf
  <2>3. v[j].event = "init" /\ v[j].id = i /\ v[j].async_id = n
    BY <1>2, <1>16, <2>2 DEF Creates
  <2>4. j < k
    <3>1. j # k
      BY <1>3, <2>3
    <3> QED
      BY <1>1, <1>2, <2>2, <3>1
  <2>5. j \in Which(v, "init") /\ OwnKey(v[j]) = Key(i, n)
    BY <1>2, <2>2, <2>3 DEF Which, OwnKey
  <2> QED
    BY <1>4, <2>4, <2>5
<1>6. OwnKey(v[k]) = Key(i, c)
  BY DEF OwnKey
<1>7. \A m \in 1..ChainLimit + 1 : line[m] # 0 =>
         m \in 1..length /\ OwnKey(v[line[m]]) = Key(i, path[m])
  BY ChainFollows
<1>8. \A j \in Which(v, "init") : \A n : OwnKey(v[j]) = Key(i, n) =>
         v[j].trigger = triggers[n] /\ v[j].id = i
  BY InitTells
<1> HIDE DEF v, i, c, triggers, Known
<1>9. /\ size \in Nat /\ path[1] = c /\ c \in Nat
      /\ \A m \in 1..size : path[m + 1] = Up(triggers)[path[m]]
      /\ length \in 1..size /\ \A m \in 1..length : path[m] \in 1..c /\ path[m] \in 1..size
  <2>1. Descending(triggers, c)
    BY <1>1, Descends
  <2>2. DOMAIN triggers = 1..size /\ size \in Nat
    BY <1>1, LenProperties
  <2>3. c \in 1..size
    BY <1>1, <2>2
  <2> QED
    BY <2>1, <2>2, <2>3 DEF Descending
<1>10. /\ line[1] = Inserted(v, k, Key(i, c))
       /\ \A m \in 1..ChainLimit + 1 : line[m] \in {0} \cup Which(v, "init")
       /\ \A m \in 1..ChainLimit : line[m + 1] = Parent(v, k, line[m])
  <2>1. ChainParts(v, k)
    BY <1>1, ChainOf
  <2> QED
    BY <1>6, <2>1 DEF ChainParts
<1>11. ChainLimit \in Nat
  BY NdjsonAssumption
<1> HIDE DEF path, size, length, line
<1>12. 0 \in Reached
  <2>1. c \in 1..c
    BY <1>9
  <2> QED
    BY <1>5, <1>9, <1>10, <2>1 DEF Known
<1>13. ASSUME NEW d \in 0..size - 1, d \in Reached PROVE d + 1 \in Reached
  <2> DEFINE m == d + 1
  <2>1. m \in 1..size /\ m + 1 \in 1..size + 1 /\ m \in 0..size
    BY <1>9
  <2>2. m <= length /\ m <= ChainLimit => line[m] # 0
    BY <1>13
  <2> HIDE DEF m
  <2>3. ASSUME m + 1 <= length, m + 1 <= ChainLimit PROVE line[m + 1] # 0
    <3>1. m \in 1..length /\ m + 1 \in 1..length /\ m \in 1..ChainLimit /\ m \in 1..ChainLimit + 1
      BY <1>9, <1>11, <2>1, <2>3
    <3>2. line[m] # 0
      BY <1>9, <1>11, <2>2, <3>1
    <3>3. line[m] \in Which(v, "init") /\ OwnKey(v[line[m]]) = Key(i, path[m])
      BY <1>7, <1>10, <3>1, <3>2
    <3>4. v[line[m]].trigger = triggers[path[m]] /\ v[line[m]].id = i
      BY <1>8, <3>3
    <3>5. path[m + 1] \in 1..c /\ path[m] \in 1..size
      BY <1>9, <3>1
    <3>6. path[m + 1] = triggers[path[m]]
      <4>1. path[m] \in 0..size /\ path[m] # 0 /\ path[m + 1] = Up(triggers)[path[m]]
        BY <1>9, <2>1, <3>5
      <4> QED
        BY <4>1 DEF Up, size
    <3>7. path[m + 1] # 0
      BY <1>9, <3>5
    <3>8. line[m + 1] = Inserted(v, k, Key(i, path[m + 1]))
      BY <1>10, <3>1, <3>2, <3>4, <3>6, <3>7 DEF Parent
    <3> QED
      BY <1>5, <3>5, <3>8 DEF Known
  <2> QED
    BY <2>1, <2>3 DEF m
<1> HIDE DEF Reached
<1>14. 0..size \subseteq Reached
  BY <1>9, <1>12, <1>13, UpToInductive
<1>15. ASSUME NEW m \in 1..length, m <= ChainLimit PROVE line[m] # 0
  <2>1. m - 1 \in Reached /\ (m - 1) + 1 = m /\ m <= length
    BY <1>9, <1>14
  <2>2. (m - 1) + 1 <= length /\ (m - 1) + 1 <= ChainLimit => line[(m - 1) + 1] # 0
    BY <2>1 DEF Reached
  <2> QED
    BY <1>15, <2>1, <2>2
<1> QED
  BY <1>15 DEF v, i, c, triggers, length, line

(* A chain that is shown is a true one, and whole if no write went wrong.   *)
LEMMA ChainsHold ==
    ASSUME Inv
    PROVE  ChainsHonest
<1> SUFFICES ASSUME NEW k \in Which(E.values, "callback")
             PROVE  LET i == E.values[k].id
                        chain == causal_chain(E.values, k)
                        path == TruePath(i, E.values[k].async_id)
                        whole == IF Len(path) < ChainLimit THEN Len(path) ELSE ChainLimit
                    IN /\ Len(chain) <= Len(path)
                       /\ \A m \in DOMAIN chain : chain[m] = path[Len(chain) + 1 - m]
                       /\ faults = 0 => Len(chain) = whole
  BY DEF ChainsHonest
<1> DEFINE v == E.values
           i == v[k].id
           c == v[k].async_id
           triggers == probe[i].triggers
           path == TruePath(i, c)
           up == LineUp(triggers, c)
           size == PathLength(triggers, c)
           line == ChainLine(v, k)
           chain == causal_chain(v, k)
           length == ChainLength(v, k)
<1>1. /\ DOMAIN v \subseteq Nat \ {0} /\ IsFiniteSet(DOMAIN v) /\ k \in Nat
      /\ c \in DOMAIN triggers /\ triggers \in Seq(Nat)
      /\ \A n \in DOMAIN triggers : triggers[n] \in 0..n - 1
  BY CallbackTold
<1>2. \A m \in 1..ChainLimit + 1 : line[m] # 0 =>
         m \in 1..size /\ OwnKey(v[line[m]]) = Key(i, up[m])
  BY ChainFollows
<1>3. \A j \in Which(v, "init") : \A n : OwnKey(v[j]) = Key(i, n) => v[j].type = <<i, n>>
  BY InitTells
<1>4. faults = 0 => \A m \in 1..size : m <= ChainLimit => line[m] # 0
  BY ChainComplete
<1>5. path = [m \in 1..size |-> <<i, up[m]>>]
  BY DEF TruePath, LineUp, PathLength, Up
<1> HIDE DEF v, i, c, triggers, path
<1>6. /\ size \in Nat /\ \A m, n \in 1..size : up[m] = up[n] => m = n
  <2>1. Descending(triggers, c)
    BY <1>1, Descends
  <2>2. Len(triggers) \in Nat
    BY <1>1, LenProperties
  <2> QED
    BY <2>1, <2>2 DEF Descending
<1>7. /\ \A m \in 1..ChainLimit + 1 : line[m] \in {0} \cup Which(v, "init")
      /\ length \in 0..ChainLimit /\ \A m \in 1..length : line[m] # 0
      /\ \A w \in 0..ChainLimit :
            /\ \A m \in 1..w : line[m] # 0
            /\ \A m, n \in 1..w : line[m] = line[n] => m = n
            => w <= length
      /\ chain = [n \in 1..length |-> v[line[length + 1 - n]].type]
      /\ Len(chain) = length
  <2>1. ChainParts(v, k)
    BY <1>1, ChainOf
  <2> QED
    BY <2>1 DEF ChainParts
<1>8. ChainLimit \in Nat
  BY NdjsonAssumption
<1> HIDE DEF up, size, line, length, chain
<1>9. Len(path) = size
  BY <1>5, <1>6
<1>10. ASSUME NEW n \in 1..length
       PROVE  n \in 1..size /\ v[line[n]].type = <<i, up[n]>>
  <2>1. n \in 1..ChainLimit + 1 /\ line[n] # 0
    BY <1>7, <1>8
  <2>2. line[n] \in Which(v, "init") /\ n \in 1..size /\ OwnKey(v[line[n]]) = Key(i, up[n])
    BY <1>2, <1>7, <2>1
  <2> QED
    BY <1>3, <2>2
<1>11. length <= size
  <2>1. CASE length = 0
    BY <1>6, <2>1
  <2>2. CASE length # 0
    <3>1. length \in 1..length
      BY <1>7, <1>8, <2>2
    <3>2. length \in 1..size
      BY <1>10, <3>1
    <3> QED
      BY <1>6, <3>2
  <2> QED
    BY <2>1, <2>2
<1>12. ASSUME NEW m \in DOMAIN chain PROVE chain[m] = path[Len(chain) + 1 - m]
  <2> DEFINE n == length + 1 - m
  <2>1. m \in 1..length /\ n \in 1..length /\ chain[m] = v[line[n]].type
    BY <1>7, <1>8
  <2> HIDE DEF n
  <2>2. chain[m] = <<i, up[n]>> /\ n \in 1..size
    BY <1>10, <2>1
  <2>3. path[n] = <<i, up[n]>>
    BY <1>5, <2>2
  <2> QED
    BY <1>7, <2>2, <2>3 DEF n
<1>13. ASSUME faults = 0
       PROVE  length = IF size < ChainLimit THEN size ELSE ChainLimit
  <2> DEFINE w == IF size < ChainLimit THEN size ELSE ChainLimit
  <2>1. w \in 0..ChainLimit /\ w <= size
    BY <1>6, <1>8
  <2>2. \A m \in 1..w : m \in 1..size /\ m <= ChainLimit /\ m \in 1..ChainLimit + 1
    BY <1>6, <1>8
  <2> HIDE DEF w
  <2>3. \A m \in 1..w : line[m] # 0
    BY <1>4, <1>13, <2>2
  <2>4. ASSUME NEW m \in 1..w, NEW n \in 1..w, line[m] = line[n] PROVE m = n
    <3>1. Key(i, up[m]) = Key(i, up[n])
      BY <1>2, <2>2, <2>3, <2>4
    <3>2. up[m] = up[n]
      BY <3>1 DEF Key
    <3> QED
      BY <1>6, <2>2, <3>2
  <2>5. w <= length
    BY <1>7, <2>1, <2>3, <2>4
  <2> QED
    BY <1>6, <1>7, <1>8, <1>11, <2>1, <2>5 DEF w
<1>14. /\ Len(chain) <= Len(path)
       /\ faults = 0 =>
             Len(chain) = IF Len(path) < ChainLimit THEN Len(path) ELSE ChainLimit
  BY <1>7, <1>9, <1>11, <1>13
<1> QED
  BY <1>12, <1>14 DEF v, i, c, path, chain

(* The chain that is shown is a part of the true one: every known init says *)
(* what its isolate knew, and up the triggers the numbers decrease, so that *)
(* none repeats.                                                             *)
THEOREM Chains_Honest == Spec => []ChainsHonest
BY Streams_Invariant, ChainsHold, PTL
---------------------------------------------------------------------------
(* The analysis of one isolate's records.                                    *)
Readable(v) ==
    /\ DOMAIN v \subseteq Nat \ {0} /\ IsFiniteSet(DOMAIN v)
    /\ \A k \in DOMAIN v : v[k] \in AsyncRecords

OwnOf(v, w, i) ==
    /\ DOMAIN w = {k \in DOMAIN v : v[k].id = i}
    /\ \A k \in DOMAIN w : w[k] = v[k]

(* The records of one isolate are a readable stream of their own.           *)
LEMMA OwnIs ==
    ASSUME NEW v, Readable(v), NEW i
    PROVE  Readable(Own(v, i)) /\ OwnOf(v, Own(v, i), i)
<1> DEFINE D == {k \in DOMAIN v : v[k].id = i}
<1>1. Own(v, i) = [k \in D |-> v[k]]
  BY DEF Own, Restrict
<1>2. IsFiniteSet(D)
  <2>1. D \subseteq DOMAIN v
    OBVIOUS
  <2> HIDE DEF D
  <2> QED
    BY <2>1, FS_Subset DEF Readable
<1> QED
  BY <1>1, <1>2 DEF Readable, OwnOf

(* An isolate's keys lead to its own records only.                           *)
LEMMA InsertedSplits ==
    ASSUME NEW v, NEW w, NEW i, OwnOf(v, w, i), NEW k, NEW n
    PROVE  Inserted(w, k, Key(i, n)) = Inserted(v, k, Key(i, n))
<1> DEFINE In(u) == {j \in Which(u, "init") : j < k /\ OwnKey(u[j]) = Key(i, n)}
<1>1. \A j \in DOMAIN v : OwnKey(v[j]) = Key(i, n) => v[j].id = i
  BY DEF OwnKey, Key
<1>2. In(w) = In(v)
  BY <1>1 DEF OwnOf, Which
<1> HIDE DEF In
<1>3. Inserted(w, k, Key(i, n)) = Max({0} \cup In(w)) /\ Inserted(v, k, Key(i, n)) = Max({0} \cup In(v))
  BY DEF Inserted, In
<1> QED
  BY <1>2, <1>3

(* A resource has the same parent in its isolate's own stream.              *)
LEMMA ParentSplits ==
    ASSUME NEW v, NEW w, NEW i, OwnOf(v, w, i), NEW k, NEW j \in {0} \cup DOMAIN w
    PROVE  Parent(w, k, j) = Parent(v, k, j)
<1>1. CASE j = 0
  BY <1>1 DEF Parent
<1>2. CASE j \in DOMAIN w
  <2>1. w[j] = v[j] /\ v[j].id = i
    BY <1>2 DEF OwnOf
  <2>2. Inserted(w, k, Key(i, v[j].trigger)) = Inserted(v, k, Key(i, v[j].trigger))
    BY InsertedSplits
  <2> QED
    BY <2>1, <2>2 DEF Parent
<1> QED
  BY <1>1, <1>2

(* A callback has the same chain in its isolate's own stream.               *)
LEMMA ChainSplits ==
    ASSUME NEW v, NEW w, NEW i, OwnOf(v, w, i), Readable(v), Readable(w),
           NEW k \in Which(v, "callback"), v[k].id = i
    PROVE  causal_chain(w, k) = causal_chain(v, k)
<1> DEFINE lv == ChainLine(v, k)
           lw == ChainLine(w, k)
           Same == {d \in 0..ChainLimit : lw[d + 1] = lv[d + 1]}
<1>1. k \in Nat /\ w[k] = v[k] /\ OwnKey(v[k]) = Key(i, v[k].async_id)
  BY DEF Which, Readable, OwnOf, OwnKey
<1>2. ChainParts(v, k) /\ ChainParts(w, k)
  BY <1>1, ChainOf DEF Readable
<1>3. ChainLimit \in Nat
  BY NdjsonAssumption
<1>4. /\ lv[1] = Inserted(v, k, Key(i, v[k].async_id))
      /\ lw[1] = Inserted(w, k, Key(i, v[k].async_id))
      /\ \A m \in 1..ChainLimit + 1 : lw[m] \in {0} \cup DOMAIN w
      /\ \A m \in 1..ChainLimit : lv[m + 1] = Parent(v, k, lv[m]) /\ lw[m + 1] = Parent(w, k, lw[m])
  BY <1>1, <1>2 DEF ChainParts, Which
<1> HIDE DEF lv, lw
<1>5. 0 \in Same
  BY <1>3, <1>4, InsertedSplits
<1>6. ASSUME NEW d \in 0..ChainLimit - 1, d \in Same PROVE d + 1 \in Same
  <2> DEFINE m == d + 1
  <2>1. m \in 1..ChainLimit /\ m \in 1..ChainLimit + 1 /\ m \in 0..ChainLimit
    BY <1>3
  <2>2. lw[m] = lv[m]
    BY <1>6
  <2> HIDE DEF m
  <2>3. lw[m + 1] = lv[m + 1]
    <3>1. /\ lw[m] \in {0} \cup DOMAIN w
          /\ lv[m + 1] = Parent(v, k, lv[m]) /\ lw[m + 1] = Parent(w, k, lw[m])
      BY <1>4, <2>1
    <3>2. \A j \in {0} \cup DOMAIN w : Parent(w, k, j) = Parent(v, k, j)
      BY ParentSplits
    <3> QED
      BY <2>2, <3>1, <3>2
  <2> QED
    BY <2>1, <2>3 DEF m
<1> HIDE DEF Same
<1>7. 0..ChainLimit \subseteq Same
  BY <1>3, <1>5, <1>6, UpToInductive
<1>8. \A m \in 1..ChainLimit + 1 : lw[m] = lv[m]
  <2> SUFFICES ASSUME NEW m \in 1..ChainLimit + 1 PROVE lw[m] = lv[m]
    OBVIOUS
  <2>1. m - 1 \in Same /\ (m - 1) + 1 = m
    BY <1>3, <1>7
  <2>2. lw[(m - 1) + 1] = lv[(m - 1) + 1]
    BY <2>1 DEF Same
  <2> QED
    BY <2>1, <2>2
<1>9. ChainLength(w, k) = ChainLength(v, k)
  <2> DEFINE Ends1(u) == {n \in 1..ChainLimit + 1 : ChainEnds(u, k, n)}
  <2>1. ASSUME NEW n \in 1..ChainLimit + 1 PROVE ChainEnds(w, k, n) <=> ChainEnds(v, k, n)
    <3>1. \A m \in 1..n - 1 : m \in 1..ChainLimit + 1
      BY <1>3
    <3> QED
      BY <1>8, <3>1 DEF ChainEnds, lv, lw
  <2>2. Ends1(w) = Ends1(v)
    BY <2>1
  <2> HIDE DEF Ends1
  <2>3. ChainLength(w, k) = Min(Ends1(w)) - 1 /\ ChainLength(v, k) = Min(Ends1(v)) - 1
    BY DEF Ends1, ChainLength
  <2> QED
    BY <2>2, <2>3
<1> DEFINE length == ChainLength(v, k)
<1>10. /\ length \in 0..ChainLimit /\ \A m \in 1..length : lw[m] # 0
       /\ causal_chain(v, k) = [n \in 1..length |-> v[lv[length + 1 - n]].type]
       /\ causal_chain(w, k) = [n \in 1..length |-> w[lw[length + 1 - n]].type]
  BY <1>2, <1>9 DEF ChainParts, lv, lw
<1> HIDE DEF length
<1>11. ASSUME NEW n \in 1..length
       PROVE  w[lw[length + 1 - n]].type = v[lv[length + 1 - n]].type
  <2> DEFINE m == length + 1 - n
  <2>1. m \in 1..length /\ m \in 1..ChainLimit + 1
    BY <1>3, <1>10
  <2> HIDE DEF m
  <2>2. lw[m] \in DOMAIN w /\ lw[m] = lv[m]
    BY <1>4, <1>8, <1>10, <2>1
  <2>3. w[lw[m]].type = v[lv[m]].type
    BY <2>2 DEF OwnOf
  <2> QED
    BY <2>3 DEF m
<1> QED
  BY <1>10, <1>11

(* A callback is attributed alike in its isolate's own stream.              *)
LEMMA AttributedSplits ==
    ASSUME NEW v, NEW w, NEW i, OwnOf(v, w, i), Readable(v), Readable(w),
           NEW k \in Which(v, "callback"), v[k].id = i
    PROVE  k \in Which(w, "callback") /\ Attributed(w, k) = Attributed(v, k)
<1> DEFINE own == Inserted(v, k, OwnKey(v[k]))
<1>1. k \in Which(w, "callback") /\ k \in Nat /\ w[k] = v[k]
      /\ OwnKey(v[k]) = Key(i, v[k].async_id)
  BY DEF Which, Readable, OwnOf, OwnKey
<1>2. Inserted(w, k, OwnKey(w[k])) = own
  BY <1>1, InsertedSplits
<1>3. own \in {0} \cup Which(w, "init")
  BY <1>1, <1>2, InsertedIs DEF Readable
<1>4. own \in {0} \cup DOMAIN w /\ (own # 0 => w[own] = v[own])
  BY <1>3 DEF Which, OwnOf
<1> HIDE DEF own
<1>5. TypeOf(w, k) = TypeOf(v, k)
  BY <1>2, <1>4 DEF TypeOf, own
<1>6. Parent(w, k, own) = Parent(v, k, own)
  BY <1>4, ParentSplits
<1>7. Edge(w, k) = Edge(v, k)
  <2> DEFINE parent == Parent(v, k, own)
  <2>1. parent # 0 => parent \in DOMAIN w /\ own # 0
    <3>1. ASSUME own # 0
          PROVE  Inserted(w, k, Key(w[own].id, w[own].trigger)) \in {0} \cup Which(w, "init")
      BY <1>1, InsertedIs DEF Readable
    <3> QED
      BY <1>6, <3>1 DEF Parent, Which
  <2> HIDE DEF parent
  <2>2. Edge(v, k) = IF parent = 0 THEN <<>> ELSE <<v[parent].type, v[own].type>>
    BY DEF Edge, own, parent
  <2>3. Edge(w, k) = IF parent = 0 THEN <<>> ELSE <<w[parent].type, w[own].type>>
    BY <1>2, <1>6 DEF Edge, parent
  <2>4. parent # 0 => w[parent] = v[parent] /\ w[own] = v[own]
    BY <1>4, <2>1 DEF OwnOf
  <2> QED
    BY <2>2, <2>3, <2>4
<1>8. causal_chain(w, k) = causal_chain(v, k)
  BY ChainSplits
<1> QED
  BY <1>1, <1>5, <1>7, <1>8 DEF Attributed

(* What is live is that of every isolate together, be it counted ...        *)
LEMMA LiveSplits ==
    ASSUME NEW v, Readable(v), NEW live, \A i \in Isolates : live[i] = Cardinality(Live(Own(v, i)))
    PROVE  Cardinality(Live(v)) = SumFunctionOnSet(live, Isolates)
<1> DEFINE Of(u) == {j \in Which(u, "init") :
                        \A l \in Which(u, "destroy") : l > j => OwnKey(u[l]) # OwnKey(u[j])}
           L == Live(v)
           keys == [k \in Of(v) |-> OwnKey(v[k])]
           one == [x \in L |-> 1]
           isolate == [x \in L |-> x[1]]
<1>1. \A u : Live(u) = {OwnKey(u[k]) : k \in Of(u)}
  BY DEF Live
<1>2. Of(v) \subseteq DOMAIN v
  BY DEF Which
<1>3. IsFiniteSet(L)
  <2>1. IsFiniteSet(Of(v))
    <3> HIDE DEF Of
    <3> QED
      BY <1>2, FS_Subset DEF Readable
  <2>2. L = {keys[k] : k \in Of(v)}
    BY <1>1
  <2> HIDE DEF Of, keys, L
  <2>3. IsFiniteSet({keys[k] : k \in Of(v)})
    BY <2>1, ImageFinite
  <2> QED
    BY <2>2, <2>3
<1>4. \A k \in DOMAIN v : v[k].id \in Isolates
  BY DEF Readable, AsyncRecords, Hooks, Inits, Summaries
<1>5. \A x \in L : x[1] \in Isolates
  BY <1>1, <1>2, <1>4 DEF OwnKey, Key
<1>6. ASSUME NEW i \in Isolates PROVE Live(Own(v, i)) = {x \in L : x[1] = i}
  <2> DEFINE w == Own(v, i)
  <2>1. OwnOf(v, w, i)
    BY OwnIs
  <2> HIDE DEF w
  <2>2. \A j, l \in DOMAIN v : OwnKey(v[l]) = OwnKey(v[j]) => v[l].id = v[j].id
    BY DEF OwnKey, Key
  <2>3. Of(w) = {j \in Of(v) : v[j].id = i}
    BY <2>1, <2>2 DEF OwnOf, Which
  <2>4. \A j \in Of(w) : w[j] = v[j]
    BY <2>1, <2>3 DEF OwnOf, Which
  <2>5. \A k \in Of(v) : OwnKey(v[k])[1] = v[k].id
    BY DEF OwnKey, Key
  <2> HIDE DEF Of, L
  <2>6. Live(w) = {OwnKey(v[k]) : k \in Of(w)}
    BY <1>1, <2>4
  <2>7. L = {OwnKey(v[k]) : k \in Of(v)}
    BY <1>1 DEF L
  <2>8. Live(w) = {x \in L : x[1] = i}
    BY <2>3, <2>5, <2>6, <2>7
  <2> QED
    BY <2>8 DEF w
<1> HIDE DEF L
<1>7. ASSUME NEW i \in Isolates
      PROVE  live[i] = SumFunctionOnSet(one, {x \in L : isolate[x] = i})
  <2> DEFINE A == {x \in L : isolate[x] = i}
  <2>1. A = {x \in L : x[1] = i}
    OBVIOUS
  <2>2. live[i] = Cardinality(A)
    BY <1>6, <2>1
  <2>3. \A x \in A : one[x] = 1
    OBVIOUS
  <2>4. A \subseteq L
    OBVIOUS
  <2> HIDE DEF A, one
  <2>5. IsFiniteSet(A)
    BY <1>3, <2>4, FS_Subset
  <2>6. SumFunctionOnSet(one, A) = Cardinality(A)
    BY <2>3, <2>5, SumOfOnes
  <2> QED
    BY <2>2, <2>6 DEF A
<1>8. (\A x \in L : one[x] = 1 /\ one[x] \in Int) /\ \A x \in L : isolate[x] \in Isolates
  BY <1>5
<1> HIDE DEF one, isolate
<1>9. SumFunctionOnSet(one, L) = SumFunctionOnSet(live, Isolates)
  <2>1. SumsByKey(one, L, Isolates, isolate, live)
    BY <1>7, <1>8 DEF SumsByKey
  <2> QED
    BY <1>3, <1>8, <2>1, StreamsAssumption, SumParts
<1>10. SumFunctionOnSet(one, L) = Cardinality(L)
  BY <1>3, <1>8, SumOfOnes
<1> QED
  BY <1>9, <1>10 DEF L

(* ... or reported.                                                          *)
LEMMA SummariesSplit ==
    ASSUME NEW v, Readable(v), NEW live,
           \A i \in By(v, Which(v, "async_summary")) :
              live[i] = SumFunction([k \in Which(Own(v, i), "async_summary") |-> Own(v, i)[k].live])
    PROVE  SumFunction([k \in Which(v, "async_summary") |-> v[k].live])
           = SumFunctionOnSet(live, By(v, Which(v, "async_summary")))
<1> DEFINE S == Which(v, "async_summary")
           I == By(v, S)
           f == [k \in S |-> v[k].live]
           id == [k \in S |-> v[k].id]
<1>1. S \subseteq DOMAIN v /\ I \subseteq Isolates /\ \A k \in S : v[k].live \in Int
  BY DEF Which, By, Readable, AsyncRecords, Hooks, Inits, Summaries
<1>2. IsFiniteSet(S) /\ IsFiniteSet(I)
  <2> HIDE DEF S, I
  <2> QED
    BY <1>1, StreamsAssumption, FS_Subset DEF Readable
<1>3. \A k \in S : f[k] \in Int /\ id[k] \in I
  BY <1>1 DEF By
<1>4. ASSUME NEW i \in I PROVE live[i] = SumFunctionOnSet(f, {k \in S : id[k] = i})
  <2> DEFINE w == Own(v, i)
             A == {k \in S : id[k] = i}
             g == [k \in Which(w, "async_summary") |-> w[k].live]
  <2>1. OwnOf(v, w, i)
    BY OwnIs
  <2>2. live[i] = SumFunctionOnSet(g, DOMAIN g)
    BY DEF SumFunction
  <2> HIDE DEF w
  <2>3. DOMAIN g = A /\ \A k \in A : g[k] = f[k] /\ f[k] \in Int
    BY <1>1, <2>1 DEF OwnOf, Which
  <2>4. A \subseteq S
    OBVIOUS
  <2> HIDE DEF A, g, f, S
  <2>5. IsFiniteSet(A)
    BY <1>2, <2>4, FS_Subset
  <2>6. SumFunctionOnSet(g, A) = SumFunctionOnSet(f, A)
    BY <2>3, <2>5, SumSame
  <2> QED
    BY <2>2, <2>3, <2>6 DEF A
<1>5. SumFunction(f) = SumFunctionOnSet(f, S)
  BY DEF SumFunction
<1> HIDE DEF S, I, f, id
<1>6. SumFunctionOnSet(f, S) = SumFunctionOnSet(live, I)
  <2>1. (\A k \in S : f[k] \in Int) /\ \A k \in S : id[k] \in I
    BY <1>3
  <2>2. \A i \in I : live[i] = SumFunctionOnSet(f, {k \in S : id[k] = i})
    BY <1>4
  <2> QED
    <3>1. SumsByKey(f, S, I, id, live)
      BY <2>1, <2>2 DEF SumsByKey
    <3> QED
      BY <1>2, <2>1, <3>1, SumParts
<1> QED
  BY <1>5, <1>6 DEF f, S, I

(* The analysis of the common stream is that of the isolates' own ones.     *)
LEMMA SplitsHold ==
    ASSUME TypesInv
    PROVE  AnalysisSplits
<1> DEFINE v == E.values
           summaries == Which(v, "async_summary")
           heard == By(v, summaries)
           part == [i \in Isolates |-> analyze_async(Own(v, i))]
           I == IF heard = {} THEN Isolates ELSE heard
           live == [i \in I |-> part[i].live]
<1>1. Readable(v)
  <2>1. stream \in Seq(Pieces(AsyncRecords))
    BY DEF TypesInv, FilesTyped
  <2>2. /\ DOMAIN v \subseteq DOMAIN stream /\ IsFiniteSet(DOMAIN v)
        /\ \A k \in DOMAIN v : v[k] \in AsyncRecords
    BY <2>1, ReadValues DEF E
  <2>3. DOMAIN stream \subseteq Nat \ {0}
    BY <2>1, LenProperties
  <2> QED
    BY <2>2, <2>3 DEF Readable
<1> HIDE DEF v
<1>2. \A k \in DOMAIN v : v[k].id \in Isolates
  BY <1>1 DEF Readable, AsyncRecords, Hooks, Inits, Summaries
<1>3. ASSUME NEW k \in DOMAIN analyze_async(v).callbacks
      PROVE  analyze_async(v).callbacks[k] = part[v[k].id].callbacks[k]
  <2> DEFINE i == v[k].id
             w == Own(v, i)
  <2>1. k \in Which(v, "callback") /\ analyze_async(v).callbacks[k] = Attributed(v, k)
    BY <1>3 DEF analyze_async
  <2>2. i \in Isolates
    BY <1>2, <2>1 DEF Which
  <2>3. Readable(w) /\ OwnOf(v, w, i)
    BY <1>1, OwnIs
  <2> HIDE DEF w
  <2>4. k \in Which(w, "callback") /\ Attributed(w, k) = Attributed(v, k)
    BY <1>1, <2>1, <2>3, AttributedSplits
  <2>5. analyze_async(w).callbacks[k] = Attributed(w, k)
    BY <2>4 DEF analyze_async
  <2>6. part[i] = analyze_async(w)
    BY <2>2 DEF w
  <2> QED
    BY <2>1, <2>4, <2>5, <2>6
<1>4. ASSUME NEW i
      PROVE  Which(Own(v, i), "async_summary") = {k \in summaries : v[k].id = i}
  <2>1. OwnOf(v, Own(v, i), i)
    BY <1>1, OwnIs
  <2> QED
    BY <2>1 DEF OwnOf, Which
<1>5. heard \subseteq Isolates
  BY <1>2 DEF By, Which
<1>6. ASSUME heard = {} PROVE analyze_async(v).live = SumFunctionOnSet(live, I)
  <2>1. summaries = {} /\ I = Isolates
    BY <1>6 DEF By
  <2>2. analyze_async(v).live = Cardinality(Live(v))
    BY <2>1 DEF analyze_async
  <2>3. \A i \in Isolates : live[i] = Cardinality(Live(Own(v, i)))
    <3> SUFFICES ASSUME NEW i \in Isolates PROVE live[i] = Cardinality(Live(Own(v, i)))
      OBVIOUS
    <3>1. Which(Own(v, i), "async_summary") = {}
      BY <1>4, <2>1
    <3>2. analyze_async(Own(v, i)).live = Cardinality(Live(Own(v, i)))
      BY <3>1 DEF analyze_async
    <3> QED
      BY <2>1, <3>2
  <2> HIDE DEF live
  <2>4. Cardinality(Live(v)) = SumFunctionOnSet(live, Isolates)
    BY <1>1, <2>3, LiveSplits
  <2> QED
    BY <2>1, <2>2, <2>4
<1>7. ASSUME heard # {} PROVE analyze_async(v).live = SumFunctionOnSet(live, I)
  <2>1. summaries # {} /\ I = heard
    BY <1>7 DEF By
  <2>2. analyze_async(v).live = SumFunction([k \in summaries |-> v[k].live])
    BY <2>1 DEF analyze_async
  <2>3. \A i \in heard : live[i] =
           SumFunction([k \in Which(Own(v, i), "async_summary") |-> Own(v, i)[k].live])
    <3> SUFFICES ASSUME NEW i \in heard
                 PROVE  live[i] = SumFunction([k \in Which(Own(v, i), "async_summary") |->
                                                  Own(v, i)[k].live])
      OBVIOUS
    <3>1. Which(Own(v, i), "async_summary") # {}
      BY <1>4 DEF By
    <3>2. analyze_async(Own(v, i)).live
          = SumFunction([k \in Which(Own(v, i), "async_summary") |-> Own(v, i)[k].live])
      BY <3>1 DEF analyze_async
    <3>3. i \in Isolates
      BY <1>5
    <3> QED
      BY <2>1, <3>2, <3>3
  <2> HIDE DEF live
  <2>4. SumFunction([k \in summaries |-> v[k].live]) = SumFunctionOnSet(live, heard)
    BY <1>1, <2>3, SummariesSplit
  <2> QED
    BY <2>1, <2>2, <2>4
<1>8. analyze_async(v).live = SumFunctionOnSet(live, I)
  BY <1>6, <1>7
<1>9. SumFunction(live) = SumFunctionOnSet(live, I)
  BY DEF SumFunction
<1> QED
  BY <1>3, <1>8, <1>9 DEF AnalysisSplits, v

(* Records of different isolates have different keys, so what the analysis  *)
(* finds for one isolate does not depend on the records of another.         *)
THEOREM Analysis_Splits == Spec => []AnalysisSplits
BY Streams_Invariant, SplitsHold, PTL DEF Inv
=============================================================================
