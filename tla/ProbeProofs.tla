---------------------------- MODULE ProbeProofs ----------------------------
(* What the files of one process tell of it, for any maximum of async       *)
(* events, any number of records and any number of foreign signals.         *)
EXTENDS Probe, SequenceTheorems, TLAPS

Records == [kind : {"start", "observed", "final", "finish"}, sequence : Nat]
Events == [kind : {"event"}, sequence : Nat]
Summaries == [kind : {"async_summary"}, sequence : Nat, events : Nat, dropped : Nat]

FilesTyped ==
    /\ telemetry \in Seq(Records) /\ stream \in Seq(Events \cup Summaries)
    /\ buffer \in Seq(Events)
    /\ sequence \in Nat /\ happened \in Nat /\ dropped \in Nat /\ events \in 0..MaxEvents

SignalsTyped ==
    /\ role \in Roles
    /\ pending \in [Signals -> Nat] /\ sent \in [Signals -> Nat]
    /\ \A s \in Signals : pending[s] <= sent[s] /\ sent[s] <= Limit[s]

StateTyped ==
    /\ async \in BOOLEAN /\ stopFile \in BOOLEAN
    /\ process \in {"running", "exited", "killed"}
    /\ exitedBy \in {"none", "probe", "app"}
    /\ listeners \in [Signals -> SUBSET {"on", "once"}]
    /\ cleanup \in {"none", "running", "done"}
    /\ pc \in {"loop", "final", "flush", "summary", "record"}
    /\ after \in {"loop", "probe", "app"} \cup Signals
    /\ active \subseteq {"sample", "gc", "stop", "flush", "hook"}
    /\ finished \in BOOLEAN

(* What finish has switched off at each of its steps.                       *)
SwitchedOff ==
    /\ pc # "loop" => finished
    /\ finished => "stop" \notin active /\ "sample" \notin active
    /\ finished /\ pc # "final" => "gc" \notin active
    /\ ~async \/ (finished /\ pc \notin {"final", "flush"}) =>
          "hook" \notin active /\ "flush" \notin active /\ buffer = <<>>
    /\ ~async => stream = <<>> /\ pc \notin {"flush", "summary"}

(* Numbers that were given out before the n-th, each to one record.         *)
Numbers(file, n) ==
    /\ \A i \in DOMAIN file : file[i].sequence \in Nat /\ file[i].sequence < n
    /\ \A i, j \in DOMAIN file : i < j => file[i].sequence < file[j].sequence

Apart(file, other) ==
    \A i \in DOMAIN file, j \in DOMAIN other : file[i].sequence # other[j].sequence

Before(file, other) ==
    \A i \in DOMAIN file, j \in DOMAIN other : file[i].sequence < other[j].sequence

AllNumbered ==
    /\ Numbers(telemetry, sequence) /\ Numbers(stream, sequence) /\ Numbers(buffer, sequence)
    /\ Apart(telemetry, stream) /\ Apart(telemetry, buffer) /\ Before(stream, buffer)

FinishIsLast ==
    \A i \in DOMAIN telemetry :
        telemetry[i].kind = "finish" => i = Len(telemetry) /\ finished /\ pc = "loop"

Summarized == finished /\ pc \in {"record", "loop"}

SummaryIsLast ==
    /\ ~Summarized => happened = Len(stream) + Len(buffer) + dropped
    /\ \A i \in DOMAIN stream : stream[i].kind = "async_summary" =>
          /\ Summarized /\ i = Len(stream)
          /\ happened = (Len(stream) - 1) + stream[i].dropped
    /\ Len(buffer) <= events

(* Signals that have been dispatched.                                       *)
Dispatched == (sent["SIGINT"] - pending["SIGINT"]) + (sent["SIGTERM"] - pending["SIGTERM"])

(* Whoever exits or cleans up on account of a signal had one, or a stop     *)
(* file.                                                                    *)
Signalled ==
    /\ ~finished \/ pc # "loop" => cleanup = "none" /\ exitedBy = "none"
    /\ role # "windows" =>
          /\ pc # "loop" /\ after \in Signals => Dispatched > 0
          /\ cleanup # "none" => Dispatched > 0
    /\ Cut => Dispatched > 1
    /\ exitedBy # "none" => process = "exited"
    /\ stopFile => role = "windows"

IInv ==
    /\ FilesTyped /\ SignalsTyped /\ StateTyped /\ SwitchedOff /\ AllNumbered
    /\ FinishIsLast /\ SummaryIsLast /\ Signalled
---------------------------------------------------------------------------
USE DEF outVars, appVars, finishVars, asyncVars, calleeRest, jsRest

Callees == {"loop", "probe", "app"} \cup Signals

(* A caller of finish, with what it does next.                              *)
Called(next) ==
    /\ Looping /\ Finish(next) /\ next \in Callees
    /\ UNCHANGED calleeRest
    /\ \/ UNCHANGED pending /\ (next \in {"loop", "app"} \/ ("stop" \in active /\ stopFile))
       \/ \E s \in Signals :
             /\ pending[s] > 0 /\ next = Then(s)
             /\ pending' = [pending EXCEPT ![s] = @ - 1]

(* The steps, by what they do to finish and to the files.                   *)
LEMMA StepKinds ==
    ASSUME [Next]_vars
    PROVE  \/ \E handle \in {"sample", "gc"} : Record(handle)
           \/ Push \/ Flush
           \/ WriteFinal \/ FinalFlush \/ WriteSummary \/ WriteFinish
           \/ \E next \in Callees : Called(next)
           \/ Outside \/ UNCHANGED vars
<1>1. \A s \in Signals : Then(s) \in Callees
  BY DEF Then, Callees
<1>2. ASSUME NEW s \in Signals, Dispatch(s) PROVE Called(Then(s))
  BY <1>1, <1>2 DEF Dispatch, Called
<1>3. ASSUME RequestStop PROVE Called(Then("SIGINT"))
  BY <1>1, <1>3 DEF RequestStop, Called, Signals
<1>4. ASSUME BeforeExit \/ AppExits PROVE Called("loop") \/ Called("app")
  BY <1>4 DEF BeforeExit, AppExits, Called, Callees
<1>5. Callers => \E next \in Callees : Called(next)
  BY <1>1, <1>2, <1>3, <1>4 DEF Callers, Callees, Signals
<1> QED
  BY <1>5 DEF Next, Recording, Finishing

(* What the step of finish's caller does to the process.                    *)
LEMMA Continuing ==
    ASSUME StateTyped, NEW next \in Callees, Continue(next)
    PROVE  /\ process' \in {"running", "exited", "killed"}
           /\ exitedBy' \in {"none", "probe", "app"}
           /\ listeners' \in [Signals -> SUBSET {"on", "once"}]
           /\ cleanup' \in {"none", "running", "done"}
<1>1. CASE next \in {"probe", "app"}
  BY <1>1 DEF Continue, StateTyped
<1>2. CASE next \in Signals
  <2>1. next \notin {"probe", "app"}
    BY <1>2 DEF Signals
  <2>2. /\ cleanup' = IF cleanup = "none" THEN "running" ELSE cleanup
        /\ listeners' = [listeners EXCEPT ![next] = @ \ {"once"}]
        /\ UNCHANGED <<process, exitedBy>>
    BY <1>2, <2>1 DEF Continue
  <2> QED
    BY <1>2, <2>2 DEF StateTyped
<1>3. CASE next = "loop"
  BY <1>3 DEF Continue, StateTyped, Signals
<1> QED
  BY <1>1, <1>2, <1>3 DEF Callees

(* Steps keep the process and the steps of finish within their types.       *)
LEMMA StateTypedStep ==
    ASSUME StateTyped, [Next]_vars
    PROVE  StateTyped'
<1>1. ASSUME NEW next \in Callees, Called(next) PROVE StateTyped'
  <2>1. Finish(next) /\ UNCHANGED <<async, stopFile>>
    BY <1>1 DEF Called
  <2>2. CASE finished
    <3>1. Continue(next) /\ UNCHANGED <<pc, after, active, finished>>
      BY <2>1, <2>2 DEF Finish
    <3>2. /\ process' \in {"running", "exited", "killed"}
          /\ exitedBy' \in {"none", "probe", "app"}
          /\ listeners' \in [Signals -> SUBSET {"on", "once"}]
          /\ cleanup' \in {"none", "running", "done"}
      BY <3>1, Continuing
    <3>3. /\ async' \in BOOLEAN /\ stopFile' \in BOOLEAN /\ finished' \in BOOLEAN
          /\ pc' \in {"loop", "final", "flush", "summary", "record"}
          /\ after' \in {"loop", "probe", "app"} \cup Signals
          /\ active' \subseteq {"sample", "gc", "stop", "flush", "hook"}
      BY <2>1, <3>1 DEF StateTyped
    <3> QED
      BY <3>2, <3>3 DEF StateTyped
  <2>3. CASE ~finished
    <3>1. /\ finished' = TRUE /\ pc' = "final" /\ after' = next
          /\ active' = active \ {"sample", "stop"}
          /\ UNCHANGED <<async, stopFile, process, exitedBy, listeners, cleanup>>
      BY <2>1, <2>3 DEF Finish
    <3>2. after' \in {"loop", "probe", "app"} \cup Signals
      BY <3>1 DEF Callees
    <3>3. /\ finished' \in BOOLEAN
          /\ pc' \in {"loop", "final", "flush", "summary", "record"}
          /\ active' \subseteq {"sample", "gc", "stop", "flush", "hook"}
          /\ async' \in BOOLEAN /\ stopFile' \in BOOLEAN
      BY <3>1 DEF StateTyped
    <3>4. /\ process' \in {"running", "exited", "killed"}
          /\ exitedBy' \in {"none", "probe", "app"}
          /\ listeners' \in [Signals -> SUBSET {"on", "once"}]
          /\ cleanup' \in {"none", "running", "done"}
      BY <3>1 DEF StateTyped
    <3> QED
      BY <3>2, <3>3, <3>4 DEF StateTyped
  <2> QED
    BY <2>2, <2>3
<1>2. ASSUME WriteFinish PROVE StateTyped'
  <2>1. after \in Callees /\ Continue(after)
    BY <1>2 DEF WriteFinish, StateTyped, Callees
  <2>2. UNCHANGED <<async, stopFile, after, active, finished>> /\ pc' = "loop"
    BY <1>2 DEF WriteFinish
  <2> QED
    BY <2>1, <2>2, Continuing DEF StateTyped
<1>3. CASE WriteFinal \/ FinalFlush \/ WriteSummary
  BY <1>3 DEF WriteFinal, FinalFlush, WriteSummary, StateTyped
<1>4. CASE Push \/ Flush \/ \E handle \in {"sample", "gc"} : Record(handle)
  <2>1. UNCHANGED <<async, stopFile, process, exitedBy, listeners, cleanup, pc, after, active,
                    finished>>
    <3>1. CASE Push
      BY <3>1 DEF Push
    <3>2. CASE Flush
      BY <3>2 DEF Flush
    <3>3. CASE \E handle \in {"sample", "gc"} : Record(handle)
      BY <3>3 DEF Record
    <3> QED
      BY <1>4, <3>1, <3>2, <3>3
  <2>2. /\ async' \in BOOLEAN /\ stopFile' \in BOOLEAN /\ finished' \in BOOLEAN
        /\ process' \in {"running", "exited", "killed"}
        /\ exitedBy' \in {"none", "probe", "app"}
        /\ cleanup' \in {"none", "running", "done"}
    BY <2>1 DEF StateTyped
  <2>3. /\ listeners' \in [Signals -> SUBSET {"on", "once"}]
        /\ pc' \in {"loop", "final", "flush", "summary", "record"}
        /\ after' \in {"loop", "probe", "app"} \cup Signals
        /\ active' \subseteq {"sample", "gc", "stop", "flush", "hook"}
    BY <2>1 DEF StateTyped
  <2> QED
    BY <2>2, <2>3 DEF StateTyped
<1>5. CASE Outside
  <2>1. ASSUME NEW s \in Signals, AppListens(s) PROVE StateTyped'
    <3>1. PICK how \in {"on", "once"} : listeners' = [listeners EXCEPT ![s] = {how}]
      BY <2>1 DEF AppListens
    <3>2. UNCHANGED <<async, stopFile, process, exitedBy, cleanup, pc, after, active, finished>>
      BY <2>1 DEF AppListens
    <3> QED
      BY <3>1, <3>2 DEF StateTyped
  <2>2. ASSUME NEW s \in Signals, Send(s) PROVE StateTyped'
    <3>1. UNCHANGED <<async, stopFile, process, exitedBy, listeners, cleanup, pc, after,
                      active, finished>>
      BY <2>2 DEF Send
    <3> QED
      BY <3>1 DEF StateTyped
  <2>3. CASE CleanupEnds
    BY <2>3 DEF CleanupEnds, StateTyped
  <2>4. CASE WriteStopFile
    BY <2>4 DEF WriteStopFile, StateTyped
  <2>5. CASE Kill
    BY <2>5 DEF Kill, StateTyped
  <2> QED
    BY <1>5, <2>1, <2>2, <2>3, <2>4, <2>5 DEF Outside
<1>6. CASE UNCHANGED vars
  BY <1>6 DEF vars, StateTyped
<1> QED
  BY <1>1, <1>2, <1>3, <1>4, <1>5, <1>6, StepKinds

(* No signal is dispatched that was not sent, nor sent beyond its limit.    *)
LEMMA SignalsTypedStep ==
    ASSUME SignalsTyped, [Next]_vars, ProbeAssumption
    PROVE  SignalsTyped'
<1>1. ASSUME NEW next \in Callees, Called(next) PROVE SignalsTyped'
  <2>1. UNCHANGED <<role, sent>>
    BY <1>1 DEF Called
  <2>2. CASE UNCHANGED pending
    BY <2>1, <2>2 DEF SignalsTyped, Limit, Interrupts
  <2>3. CASE ~UNCHANGED pending
    <3>1. PICK s \in Signals : pending[s] > 0 /\ pending' = [pending EXCEPT ![s] = @ - 1]
      BY <1>1, <2>3 DEF Called
    <3>2. pending[s] \in Nat /\ pending[s] - 1 \in Nat /\ pending[s] - 1 <= pending[s]
      BY <3>1 DEF SignalsTyped
    <3>3. pending' \in [Signals -> Nat] /\ \A t \in Signals : pending'[t] <= pending[t]
      BY <3>1, <3>2 DEF SignalsTyped
    <3>4. \A t \in Signals : sent[t] \in Nat /\ pending[t] \in Nat /\ pending'[t] \in Nat
      BY <3>3 DEF SignalsTyped
    <3>5. \A t \in Signals : pending'[t] <= sent'[t] /\ sent'[t] <= Limit'[t]
      BY <2>1, <3>3, <3>4 DEF SignalsTyped, Limit, Interrupts
    <3> QED
      BY <2>1, <3>3, <3>5 DEF SignalsTyped
  <2> QED
    BY <2>2, <2>3
<1>2. ASSUME NEW s \in Signals, Send(s) PROVE SignalsTyped'
  <2>1. /\ role' = role /\ sent[s] < Limit[s]
        /\ sent' = [sent EXCEPT ![s] = @ + 1] /\ pending' = [pending EXCEPT ![s] = @ + 1]
    BY <1>2 DEF Send, jsRest
  <2>2. Limit' = Limit /\ \A t \in Signals : Limit[t] \in Nat
    BY <2>1, ProbeAssumption DEF Limit, Interrupts, SignalsTyped, Roles, Signals
  <2>3. \A t \in Signals : /\ sent[t] \in Nat /\ pending[t] \in Nat
                           /\ pending[t] <= sent[t] /\ sent[t] <= Limit[t]
    BY DEF SignalsTyped
  <2>4. sent' \in [Signals -> Nat] /\ pending' \in [Signals -> Nat]
    BY <2>1, <2>3 DEF SignalsTyped
  <2>5. \A t \in Signals : /\ sent'[t] = IF t = s THEN sent[t] + 1 ELSE sent[t]
                           /\ pending'[t] = IF t = s THEN pending[t] + 1 ELSE pending[t]
    BY <2>1 DEF SignalsTyped
  <2>6. \A t \in Signals : pending'[t] <= sent'[t] /\ sent'[t] <= Limit'[t]
    BY <2>1, <2>2, <2>3, <2>5
  <2> QED
    BY <2>1, <2>4, <2>6 DEF SignalsTyped
<1>3. CASE UNCHANGED <<role, sent, pending>>
  BY <1>3 DEF SignalsTyped, Limit, Interrupts
<1>4. \/ \E next \in Callees : Called(next)
      \/ \E s \in Signals : Send(s)
      \/ UNCHANGED <<role, sent, pending>>
  BY StepKinds DEF Record, Push, Flush, WriteFinal, FinalFlush, WriteSummary, WriteFinish,
                   Outside, AppListens, CleanupEnds, WriteStopFile, Kill, vars
<1> QED
  BY <1>1, <1>2, <1>3, <1>4
---------------------------------------------------------------------------
(* The files.                                                               *)

(* A record at the end of a file.                                           *)
LEMMA Appending ==
    ASSUME NEW S, NEW file \in Seq(S), NEW e \in S
    PROVE  /\ Append(file, e) \in Seq(S)
           /\ Len(file) \in Nat /\ DOMAIN file = 1..Len(file)
           /\ Len(Append(file, e)) = Len(file) + 1
           /\ DOMAIN Append(file, e) = 1..(Len(file) + 1)
           /\ \A i \in DOMAIN file : Append(file, e)[i] = file[i]
           /\ Append(file, e)[Len(file) + 1] = e
BY AppendProperties, LenProperties

(* What is buffered, at the end of a file.                                  *)
LEMMA Joining ==
    ASSUME NEW S, NEW file \in Seq(S), NEW tail \in Seq(S)
    PROVE  /\ file \o tail \in Seq(S)
           /\ Len(file) \in Nat /\ DOMAIN file = 1..Len(file)
           /\ Len(tail) \in Nat /\ DOMAIN tail = 1..Len(tail)
           /\ Len(file \o tail) = Len(file) + Len(tail)
           /\ DOMAIN (file \o tail) = 1..(Len(file) + Len(tail))
           /\ \A i \in DOMAIN file : (file \o tail)[i] = file[i]
           /\ \A i \in DOMAIN tail : (file \o tail)[Len(file) + i] = tail[i]
           /\ \A i \in DOMAIN (file \o tail) :
                 \/ i \in DOMAIN file
                 \/ i - Len(file) \in DOMAIN tail /\ (file \o tail)[i] = tail[i - Len(file)]
<1>1. /\ file \o tail \in Seq(S) /\ Len(file) \in Nat /\ Len(tail) \in Nat
      /\ DOMAIN file = 1..Len(file) /\ DOMAIN tail = 1..Len(tail)
      /\ Len(file \o tail) = Len(file) + Len(tail)
      /\ \A i \in 1..(Len(file) + Len(tail)) :
            (file \o tail)[i] = IF i <= Len(file) THEN file[i] ELSE tail[i - Len(file)]
  BY ConcatProperties, LenProperties
<1>2. DOMAIN (file \o tail) = 1..(Len(file) + Len(tail))
  BY <1>1, LenProperties
<1> QED
  BY <1>1, <1>2

(* The files keep to their records, whichever writes are lost.              *)
LEMMA FilesTypedStep ==
    ASSUME ProbeAssumption, FilesTyped, [Next]_vars
    PROVE  FilesTyped'
<1> USE DEF FilesTyped
<1>1. sequence + 1 \in Nat /\ MaxEvents \in Nat
  BY DEF ProbeAssumption
<1>2. ASSUME NEW k \in {"observed", "final", "finish"},
             telemetry' \in Written(telemetry, Base(k)), sequence' = sequence + 1,
             UNCHANGED asyncVars
      PROVE  FilesTyped'
  <2>1. Base(k) \in Records
    BY DEF Base, Records
  <2>2. Append(telemetry, Base(k)) \in Seq(Records)
    BY <2>1, Appending
  <2> QED
    BY <1>1, <1>2, <2>2 DEF Written
<1>3. CASE Push
  <2>1. Base("event") \in Events
    BY DEF Base, Events
  <2>2. Append(buffer, Base("event")) \in Seq(Events)
    BY <2>1, Appending
  <2>3. UNCHANGED <<telemetry, stream>> /\ happened' = happened + 1
    BY <1>3 DEF Push
  <2>4. buffer' \in Seq(Events) /\ sequence' \in Nat /\ dropped' \in Nat
    <3>1. CASE events >= MaxEvents
      <4>1. dropped' = dropped + 1 /\ UNCHANGED <<buffer, sequence>>
        BY <1>3, <3>1 DEF Push
      <4> QED
        BY <4>1
    <3>2. CASE ~(events >= MaxEvents)
      <4>1. buffer' = Append(buffer, Base("event")) /\ sequence' = sequence + 1 /\ dropped' = dropped
        BY <1>3, <3>2 DEF Push
      <4> QED
        BY <1>1, <2>2, <4>1
    <3> QED
      BY <3>1, <3>2
  <2>5. events' \in 0..MaxEvents
    BY <1>1, <1>3 DEF Push
  <2> QED
    BY <2>3, <2>4, <2>5
<1>4. ASSUME FlushBuffer, UNCHANGED <<telemetry, sequence, events, happened>>
      PROVE  FilesTyped'
  <2>1. buffer \in Seq(Events \cup Summaries) /\ Len(buffer) \in Nat
    <3>1. Events \subseteq Events \cup Summaries /\ buffer \in Seq(Events)
      OBVIOUS
    <3>2. buffer \in Seq(Events \cup Summaries)
      BY <3>1, SeqMonotonic
    <3> QED
      BY <3>2, LenProperties
  <2>2. stream \o buffer \in Seq(Events \cup Summaries)
    BY <2>1, Joining
  <2>3. buffer' \in Seq(Events)
    BY <1>4 DEF FlushBuffer
  <2>4. stream' \in {stream, stream \o buffer} /\ dropped' \in {dropped, dropped + Len(buffer)}
    BY <1>4 DEF FlushBuffer
  <2>5. stream' \in Seq(Events \cup Summaries)
    BY <2>2, <2>4
  <2>6. dropped' \in Nat
    BY <2>1, <2>4
  <2> QED
    BY <1>4, <2>3, <2>5, <2>6
<1>5. CASE WriteSummary
  <2>1. Summary \in Events \cup Summaries
    BY DEF Summary, Summaries
  <2>2. Append(stream, Summary) \in Seq(Events \cup Summaries)
    BY <2>1, Appending
  <2> QED
    BY <1>1, <1>5, <2>2 DEF WriteSummary, Written
<1>6. CASE \E handle \in {"sample", "gc"} : Record(handle)
  BY <1>2, <1>6 DEF Record
<1>7. CASE WriteFinal \/ WriteFinish
  BY <1>2, <1>7 DEF WriteFinal, WriteFinish
<1>8. CASE Flush \/ FinalFlush
  BY <1>4, <1>8 DEF Flush, FinalFlush
<1>9. CASE UNCHANGED <<telemetry, sequence, asyncVars>>
  BY <1>9
<1>10. CASE (\E next \in Callees : Called(next)) \/ Outside \/ UNCHANGED vars
  <2>1. UNCHANGED <<telemetry, sequence, asyncVars>>
    BY <1>10 DEF Called, Outside, AppListens, Send, CleanupEnds, WriteStopFile, Kill, vars
  <2> QED
    BY <1>9, <2>1
<1> QED
  BY <1>3, <1>5, <1>6, <1>7, <1>8, <1>10, StepKinds

(* What finish switches off stays so.                                       *)
LEMMA SwitchedOffStep ==
    ASSUME StateTyped, FilesTyped, SwitchedOff, [Next]_vars
    PROVE  SwitchedOff'
<1> USE DEF SwitchedOff
<1>1. ASSUME NEW next \in Callees, Called(next) PROVE SwitchedOff'
  <2>1. Finish(next) /\ pc = "loop" /\ UNCHANGED <<async, stream, buffer>>
    BY <1>1 DEF Called, Looping
  <2>2. CASE finished
    BY <2>1, <2>2 DEF Finish
  <2>3. CASE ~finished
    BY <2>1, <2>3 DEF Finish
  <2> QED
    BY <2>2, <2>3
<1>2. CASE WriteFinal
  BY <1>2 DEF WriteFinal, StateTyped
<1>3. CASE FinalFlush
  BY <1>3 DEF FinalFlush, FlushBuffer, StateTyped
<1>4. CASE WriteSummary
  BY <1>4 DEF WriteSummary, StateTyped
<1>5. CASE WriteFinish
  BY <1>5 DEF WriteFinish, StateTyped
<1>6. CASE Push
  BY <1>6 DEF Push, Looping
<1>7. CASE Flush
  BY <1>7 DEF Flush, FlushBuffer, Looping
<1>8. CASE \/ \E handle \in {"sample", "gc"} : Record(handle)
           \/ Outside \/ UNCHANGED vars
  <2>1. UNCHANGED <<async, pc, finished, active, buffer, stream>>
    BY <1>8 DEF Record, Outside, AppListens, Send, CleanupEnds, WriteStopFile, Kill, vars
  <2> QED
    BY <2>1
<1> QED
  BY <1>1, <1>2, <1>3, <1>4, <1>5, <1>6, <1>7, <1>8, StepKinds
---------------------------------------------------------------------------
(* The numbers.                                                             *)

(* A file to which the record with the next number was written, or not.     *)
LEMMA OneMore ==
    ASSUME NEW S, NEW file \in Seq(S), NEW e \in S, NEW n \in Nat, e.sequence = n,
           Numbers(file, n), NEW more \in {file, Append(file, e)}
    PROVE  /\ Numbers(more, n + 1)
           /\ \A i \in DOMAIN more :
                 \/ i \in DOMAIN file /\ more[i] = file[i]
                 \/ i = Len(file) + 1 /\ more[i] = e
<1>1. CASE more = file
  BY <1>1 DEF Numbers
<1>2. CASE more = Append(file, e)
  <2>1. /\ Len(file) \in Nat /\ DOMAIN file = 1..Len(file)
        /\ DOMAIN more = 1..(Len(file) + 1)
        /\ \A i \in DOMAIN file : more[i] = file[i]
        /\ more[Len(file) + 1] = e
    BY <1>2, Appending
  <2>2. \A i \in DOMAIN more : i \in DOMAIN file \/ i = Len(file) + 1
    BY <2>1
  <2>3. \A i \in DOMAIN more : more[i].sequence \in Nat /\ more[i].sequence < n + 1
    BY <2>1, <2>2 DEF Numbers
  <2>4. ASSUME NEW i \in DOMAIN more, NEW j \in DOMAIN more, i < j
        PROVE  more[i].sequence < more[j].sequence
    <3>1. i \in DOMAIN file
      BY <2>1, <2>2, <2>4
    <3>2. CASE j = Len(file) + 1
      BY <2>1, <3>1, <3>2 DEF Numbers
    <3>3. CASE j \in DOMAIN file
      BY <2>1, <2>4, <3>1, <3>3 DEF Numbers
    <3> QED
      BY <2>2, <3>2, <3>3
  <2> QED
    BY <2>1, <2>2, <2>3, <2>4 DEF Numbers
<1> QED
  BY <1>1, <1>2

(* A file to which a buffer of later records was written.                   *)
LEMMA Joined ==
    ASSUME NEW S, NEW file \in Seq(S), NEW tail \in Seq(S), NEW n \in Nat,
           Numbers(file, n), Numbers(tail, n), Before(file, tail)
    PROVE  /\ Numbers(file \o tail, n)
           /\ \A i \in DOMAIN (file \o tail) :
                 \/ i \in DOMAIN file /\ (file \o tail)[i] = file[i]
                 \/ \E j \in DOMAIN tail : (file \o tail)[i] = tail[j]
<1> DEFINE all == file \o tail
           m == Len(file)
<1>1. /\ m \in Nat /\ DOMAIN file = 1..m /\ DOMAIN all = 1..(m + Len(tail))
      /\ Len(tail) \in Nat /\ DOMAIN tail = 1..Len(tail)
      /\ \A i \in DOMAIN file : all[i] = file[i]
      /\ \A i \in DOMAIN all :
            i \in DOMAIN file \/ (i - m \in DOMAIN tail /\ all[i] = tail[i - m])
  BY Joining
<1> HIDE DEF all, m
<1>2. \A i \in DOMAIN all : all[i].sequence \in Nat /\ all[i].sequence < n
  BY <1>1 DEF Numbers
<1>3. ASSUME NEW i \in DOMAIN all, NEW j \in DOMAIN all, i < j
      PROVE  all[i].sequence < all[j].sequence
  <2>1. CASE i \in DOMAIN file /\ j \in DOMAIN file
    BY <1>1, <1>3, <2>1 DEF Numbers
  <2>2. CASE i \in DOMAIN file /\ j \notin DOMAIN file
    BY <1>1, <2>2 DEF Before
  <2>3. CASE i \notin DOMAIN file
    <3>1. j \notin DOMAIN file /\ i \in Nat /\ j \in Nat
      BY <1>1, <1>3, <2>3
    <3>2. i - m \in DOMAIN tail /\ j - m \in DOMAIN tail /\ i - m < j - m
      BY <1>1, <1>3, <2>3, <3>1
    <3> QED
      BY <1>1, <2>3, <3>1, <3>2 DEF Numbers
  <2> QED
    BY <2>1, <2>2, <2>3
<1>4. Numbers(all, n)
  BY <1>2, <1>3 DEF Numbers
<1> QED
  BY <1>1, <1>4 DEF all

(* Every step numbers what it records, across both files and the buffer.    *)
LEMMA AllNumberedStep ==
    ASSUME FilesTyped, AllNumbered, SwitchedOff, [Next]_vars
    PROVE  AllNumbered'
<1>0. /\ sequence \in Nat /\ sequence + 1 \in Nat /\ telemetry \in Seq(Records)
      /\ stream \in Seq(Events \cup Summaries) /\ buffer \in Seq(Events)
  BY DEF FilesTyped
<1>a. /\ Numbers(telemetry, sequence) /\ Numbers(stream, sequence) /\ Numbers(buffer, sequence)
      /\ Apart(telemetry, stream) /\ Apart(telemetry, buffer) /\ Before(stream, buffer)
  BY DEF AllNumbered
<1>b. /\ Numbers(telemetry, sequence + 1) /\ Numbers(stream, sequence + 1)
      /\ Numbers(buffer, sequence + 1)
  BY <1>0, <1>a DEF Numbers
<1>c. /\ \A i \in DOMAIN telemetry : telemetry[i].sequence \in Nat /\ telemetry[i].sequence < sequence
      /\ \A i \in DOMAIN stream : stream[i].sequence \in Nat /\ stream[i].sequence < sequence
      /\ \A i \in DOMAIN buffer : buffer[i].sequence \in Nat /\ buffer[i].sequence < sequence
  BY <1>a DEF Numbers
<1>1. ASSUME NEW k \in {"observed", "final", "finish"},
             telemetry' \in Written(telemetry, Base(k)), sequence' = sequence + 1,
             UNCHANGED <<stream, buffer>>
      PROVE  AllNumbered'
  <2>1. Base(k) \in Records /\ Base(k).sequence = sequence
    BY <1>0 DEF Base, Records
  <2>2. /\ Numbers(telemetry', sequence + 1)
        /\ \A i \in DOMAIN telemetry' :
              \/ i \in DOMAIN telemetry /\ telemetry'[i] = telemetry[i]
              \/ telemetry'[i] = Base(k)
    <3>1. telemetry' \in {telemetry, Append(telemetry, Base(k))}
      BY <1>1 DEF Written
    <3>2. telemetry \in Seq(Records) /\ sequence \in Nat /\ Numbers(telemetry, sequence)
      BY <1>0, <1>a
    <3>3. CASE telemetry' = telemetry
      BY <1>b, <3>3
    <3>4. CASE telemetry' = Append(telemetry, Base(k))
      BY <2>1, <3>2, <3>4, OneMore
    <3> QED
      BY <3>1, <3>3, <3>4
  <2>3. Apart(telemetry', stream) /\ Apart(telemetry', buffer)
    BY <1>a, <1>c, <2>1, <2>2 DEF Apart
  <2>4. Numbers(telemetry, sequence)' /\ Numbers(stream, sequence)' /\ Numbers(buffer, sequence)'
    BY <1>1, <1>b, <2>2 DEF Numbers
  <2>5. Apart(telemetry, stream)' /\ Apart(telemetry, buffer)' /\ Before(stream, buffer)'
    BY <1>1, <1>a, <2>3 DEF Apart, Before
  <2> QED
    BY <2>4, <2>5 DEF AllNumbered
<1>2. CASE UNCHANGED <<telemetry, stream, buffer, sequence>>
  BY <1>2 DEF AllNumbered, Numbers, Apart, Before
<1>3. CASE Push
  <2>1. CASE events >= MaxEvents
    BY <1>2, <1>3, <2>1 DEF Push
  <2>2. CASE ~(events >= MaxEvents)
    <3>1. /\ buffer' = Append(buffer, Base("event")) /\ sequence' = sequence + 1
          /\ UNCHANGED <<telemetry, stream>>
      BY <1>3, <2>2 DEF Push
    <3>2. Base("event") \in Events /\ Base("event").sequence = sequence
      BY <1>0 DEF Base, Events
    <3>3. /\ Numbers(buffer', sequence + 1)
          /\ \A i \in DOMAIN buffer' :
                \/ i \in DOMAIN buffer /\ buffer'[i] = buffer[i]
                \/ buffer'[i] = Base("event")
      BY <1>0, <1>a, <3>1, <3>2, OneMore
    <3>4. Apart(telemetry, buffer') /\ Before(stream, buffer')
      BY <1>a, <1>c, <3>2, <3>3 DEF Apart, Before
    <3>5. Numbers(telemetry, sequence)' /\ Numbers(stream, sequence)' /\ Numbers(buffer, sequence)'
      BY <1>b, <3>1, <3>3 DEF Numbers
    <3>6. Apart(telemetry, stream)' /\ Apart(telemetry, buffer)' /\ Before(stream, buffer)'
      BY <1>a, <3>1, <3>4 DEF Apart, Before
    <3> QED
      BY <3>5, <3>6 DEF AllNumbered
  <2> QED
    BY <2>1, <2>2
<1>4. ASSUME FlushBuffer, UNCHANGED <<telemetry, sequence>> PROVE AllNumbered'
  <2>1. buffer \in Seq(Events \cup Summaries)
    <3>1. Events \subseteq Events \cup Summaries
      OBVIOUS
    <3> QED
      BY <1>0, <3>1, SeqMonotonic
  <2>2. /\ Numbers(stream \o buffer, sequence)
        /\ \A i \in DOMAIN (stream \o buffer) :
              \/ i \in DOMAIN stream /\ (stream \o buffer)[i] = stream[i]
              \/ \E j \in DOMAIN buffer : (stream \o buffer)[i] = buffer[j]
    BY <1>0, <1>a, <2>1, Joined
  <2>3. Apart(telemetry, stream \o buffer)
    BY <1>a, <2>2 DEF Apart
  <2>4. stream' \in {stream, stream \o buffer} /\ buffer' = <<>>
    BY <1>4 DEF FlushBuffer
  <2>5. Numbers(stream', sequence) /\ Apart(telemetry, stream')
    BY <1>a, <2>2, <2>3, <2>4
  <2>6. DOMAIN buffer' = {}
    BY <2>4
  <2>7. Numbers(telemetry, sequence)' /\ Numbers(stream, sequence)' /\ Numbers(buffer, sequence)'
    BY <1>4, <1>a, <2>5, <2>6 DEF Numbers
  <2>8. Apart(telemetry, stream)' /\ Apart(telemetry, buffer)' /\ Before(stream, buffer)'
    BY <1>4, <2>5, <2>6 DEF Apart, Before
  <2> QED
    BY <2>7, <2>8 DEF AllNumbered
<1>5. CASE WriteSummary
  <2>1. /\ stream' \in {stream, Append(stream, Summary)} /\ sequence' = sequence + 1
        /\ UNCHANGED <<telemetry, buffer>> /\ buffer = <<>>
    BY <1>5 DEF WriteSummary, Written, SwitchedOff
  <2>2. Summary \in Events \cup Summaries /\ Summary.sequence = sequence
    BY DEF Summary, Summaries, FilesTyped
  <2>3. /\ Numbers(stream', sequence + 1)
        /\ \A i \in DOMAIN stream' :
              \/ i \in DOMAIN stream /\ stream'[i] = stream[i]
              \/ stream'[i] = Summary
    <3> DEFINE All == Events \cup Summaries
    <3>1. /\ stream \in Seq(All) /\ Summary \in All /\ sequence \in Nat
          /\ Numbers(stream, sequence)
      BY <1>0, <1>a, <2>2
    <3> HIDE DEF All
    <3>2. CASE stream' = stream
      BY <1>b, <3>2
    <3>3. CASE stream' = Append(stream, Summary)
      BY <2>2, <3>1, <3>3, OneMore
    <3> QED
      BY <2>1, <3>2, <3>3
  <2>4. Apart(telemetry, stream')
    BY <1>a, <1>c, <2>2, <2>3 DEF Apart
  <2>5. DOMAIN buffer' = {}
    BY <2>1
  <2>6. Numbers(telemetry, sequence)' /\ Numbers(stream, sequence)' /\ Numbers(buffer, sequence)'
    BY <1>b, <2>1, <2>3 DEF Numbers
  <2>7. Apart(telemetry, stream)' /\ Apart(telemetry, buffer)' /\ Before(stream, buffer)'
    BY <2>1, <2>4, <2>5 DEF Apart, Before
  <2> QED
    BY <2>6, <2>7 DEF AllNumbered
<1>6. CASE \E handle \in {"sample", "gc"} : Record(handle)
  BY <1>1, <1>6 DEF Record
<1>7. CASE WriteFinal \/ WriteFinish
  BY <1>1, <1>7 DEF WriteFinal, WriteFinish
<1>8. CASE Flush \/ FinalFlush
  BY <1>4, <1>8 DEF Flush, FinalFlush
<1>9. CASE (\E next \in Callees : Called(next)) \/ Outside \/ UNCHANGED vars
  <2>1. UNCHANGED <<telemetry, stream, buffer, sequence>>
    BY <1>9 DEF Called, Outside, AppListens, Send, CleanupEnds, WriteStopFile, Kill, vars
  <2> QED
    BY <1>2, <2>1
<1> QED
  BY <1>3, <1>5, <1>6, <1>7, <1>8, <1>9, StepKinds
---------------------------------------------------------------------------
(* What closes the files.                                                   *)

(* Once the finish record is in the telemetry, nothing follows it.          *)
LEMMA FinishIsLastStep ==
    ASSUME FilesTyped, SwitchedOff, FinishIsLast, [Next]_vars
    PROVE  FinishIsLast'
<1> USE DEF FinishIsLast
<1>1. ASSUME NEW k \in {"observed", "final", "finish"},
             telemetry' \in Written(telemetry, Base(k)), ~finished \/ pc # "loop",
             k = "finish" => finished' /\ pc' = "loop"
      PROVE  FinishIsLast'
  <2>1. Base(k) \in Records /\ Base(k).kind = k
    BY DEF Base, Records, FilesTyped
  <2>2. \A i \in DOMAIN telemetry : telemetry[i].kind # "finish"
    BY <1>1
  <2>3. CASE telemetry' = telemetry
    BY <2>2, <2>3
  <2>4. CASE telemetry' = Append(telemetry, Base(k))
    <3>1. telemetry \in Seq(Records)
      BY DEF FilesTyped
    <3>2. /\ DOMAIN telemetry = 1..Len(telemetry) /\ Len(telemetry) \in Nat
          /\ DOMAIN telemetry' = 1..(Len(telemetry) + 1) /\ Len(telemetry') = Len(telemetry) + 1
          /\ \A i \in DOMAIN telemetry : telemetry'[i] = telemetry[i]
          /\ telemetry'[Len(telemetry) + 1] = Base(k)
      BY <2>1, <2>4, <3>1, Appending
    <3>3. ASSUME NEW i \in DOMAIN telemetry', telemetry'[i].kind = "finish"
          PROVE  i = Len(telemetry') /\ k = "finish"
      <4>1. i \notin DOMAIN telemetry
        BY <2>2, <3>2, <3>3
      <4>2. i = Len(telemetry) + 1
        BY <3>2, <4>1
      <4> QED
        BY <2>1, <3>2, <3>3, <4>2
    <3> QED
      BY <1>1, <3>3
  <2> QED
    BY <1>1, <2>3, <2>4 DEF Written
<1>2. CASE \E handle \in {"sample", "gc"} : Record(handle)
  <2>1. telemetry' \in Written(telemetry, Base("observed")) /\ ~finished
    BY <1>2 DEF Record, Looping, SwitchedOff
  <2> QED
    BY <1>1, <2>1
<1>3. CASE WriteFinal
  BY <1>1, <1>3 DEF WriteFinal
<1>4. CASE WriteFinish
  <2>1. /\ telemetry' \in Written(telemetry, Base("finish")) /\ pc # "loop"
        /\ finished' /\ pc' = "loop"
    BY <1>4 DEF WriteFinish, SwitchedOff
  <2> QED
    BY <1>1, <2>1
<1>5. CASE FinalFlush \/ WriteSummary
  BY <1>5 DEF FinalFlush, WriteSummary
<1>6. ASSUME NEW next \in Callees, Called(next) PROVE FinishIsLast'
  <2>1. telemetry' = telemetry /\ Finish(next)
    BY <1>6 DEF Called
  <2> QED
    BY <2>1 DEF Finish
<1>7. CASE Push \/ Flush \/ Outside \/ UNCHANGED vars
  <2>1. UNCHANGED <<telemetry, finished, pc>>
    BY <1>7 DEF Push, Flush, Outside, AppListens, Send, CleanupEnds, WriteStopFile, Kill, vars
  <2> QED
    BY <2>1
<1> QED
  BY <1>2, <1>3, <1>4, <1>5, <1>6, <1>7, StepKinds

(* Events are counted as written, buffered or dropped until the summary.    *)
LEMMA SummaryIsLastStep ==
    ASSUME FilesTyped, FilesTyped', SwitchedOff, SummaryIsLast, [Next]_vars
    PROVE  SummaryIsLast'
<1> USE DEF SummaryIsLast, Summarized
<1>0. /\ stream \in Seq(Events \cup Summaries) /\ buffer \in Seq(Events)
      /\ happened \in Nat /\ dropped \in Nat /\ events \in Nat /\ Len(buffer) \in Nat
      /\ Len(stream) \in Nat
  BY LenProperties DEF FilesTyped
<1>1. ASSUME NEW next \in Callees, Called(next) PROVE SummaryIsLast'
  <2>1. UNCHANGED asyncVars /\ Finish(next) /\ pc = "loop"
    BY <1>1 DEF Called, Looping
  <2>2. CASE finished
    <3>1. UNCHANGED <<finished, pc>>
      BY <2>1, <2>2 DEF Finish
    <3> QED
      BY <2>1, <3>1
  <2>3. CASE ~finished
    <3>1. pc' = "final"
      BY <2>1, <2>3 DEF Finish
    <3> QED
      BY <2>1, <2>3, <3>1
  <2> QED
    BY <2>2, <2>3
<1>2. CASE Push
  <2>1. ~finished /\ UNCHANGED <<finished, stream>> /\ happened' = happened + 1
    BY <1>2 DEF Push, Looping, SwitchedOff
  <2>2. CASE events >= MaxEvents
    <3>1. dropped' = dropped + 1 /\ UNCHANGED <<events, buffer>>
      BY <1>2, <2>2 DEF Push
    <3> QED
      BY <1>0, <2>1, <3>1
  <2>3. CASE ~(events >= MaxEvents)
    <3>1. /\ events' = events + 1 /\ buffer' = Append(buffer, Base("event"))
          /\ dropped' = dropped
      BY <1>2, <2>3 DEF Push
    <3>2. Len(buffer') = Len(buffer) + 1
      BY <1>0, <3>1
    <3> QED
      BY <1>0, <2>1, <3>1, <3>2
  <2> QED
    BY <2>2, <2>3
<1>3. ASSUME FlushBuffer, ~Summarized, ~Summarized', UNCHANGED <<events, happened>>
      PROVE  SummaryIsLast'
  <2> DEFINE All == Events \cup Summaries
  <2>1. Events \subseteq All /\ stream \in Seq(All)
    BY <1>0
  <2>2. buffer \in Seq(All)
    BY <1>0, <2>1, SeqMonotonic
  <2>3. \A i \in DOMAIN stream : stream[i].kind # "async_summary"
    BY <1>3
  <2>4. \A i \in DOMAIN buffer : buffer[i].kind # "async_summary"
    <3>1. \A i \in DOMAIN buffer : buffer[i] \in Events
      BY <1>0, LenProperties
    <3> QED
      BY <3>1 DEF Events
  <2> HIDE DEF All
  <2>5. /\ Len(stream \o buffer) = Len(stream) + Len(buffer)
        /\ \A i \in DOMAIN (stream \o buffer) :
              \/ i \in DOMAIN stream /\ (stream \o buffer)[i] = stream[i]
              \/ i - Len(stream) \in DOMAIN buffer
                 /\ (stream \o buffer)[i] = buffer[i - Len(stream)]
    BY <2>1, <2>2, Joining
  <2>6. \A i \in DOMAIN (stream \o buffer) : (stream \o buffer)[i].kind # "async_summary"
    BY <2>3, <2>4, <2>5
  <2>7. happened = Len(stream) + Len(buffer) + dropped
    BY <1>3
  <2>8. Len(buffer') = 0
    BY <1>3 DEF FlushBuffer
  <2>9. /\ \A i \in DOMAIN stream' : stream'[i].kind # "async_summary"
        /\ happened = Len(stream') + 0 + dropped'
    <3>1. CASE stream' = stream \o buffer /\ dropped' = dropped
      BY <1>0, <2>5, <2>6, <2>7, <3>1
    <3>2. CASE dropped' = dropped + Len(buffer) /\ stream' = stream
      BY <1>0, <2>3, <2>7, <3>2
    <3> QED
      BY <1>3, <3>1, <3>2 DEF FlushBuffer
  <2> QED
    BY <1>0, <1>3, <2>8, <2>9
<1>4. CASE Flush
  <2>1. ~finished /\ finished' = finished /\ FlushBuffer /\ UNCHANGED <<events, happened>>
    BY <1>4 DEF Flush, Looping, SwitchedOff
  <2> QED
    BY <1>3, <2>1
<1>5. CASE FinalFlush
  BY <1>3, <1>5 DEF FinalFlush
<1>6. CASE WriteSummary
  <2>1. /\ stream' \in {stream, Append(stream, Summary)} /\ finished /\ finished'
        /\ pc = "summary" /\ pc' = "record" /\ UNCHANGED <<buffer, events, dropped, happened>>
    BY <1>6 DEF WriteSummary, Written, SwitchedOff
  <2>2. buffer = <<>>
    BY <2>1 DEF SwitchedOff
  <2>3. /\ happened = Len(stream) + dropped
        /\ \A i \in DOMAIN stream : stream[i].kind # "async_summary"
    BY <1>0, <2>1, <2>2
  <2>4. CASE stream' = stream
    BY <2>1, <2>3, <2>4
  <2>5. CASE stream' = Append(stream, Summary)
    <3> DEFINE All == Events \cup Summaries
    <3>1. Summary \in All /\ Summary.dropped = dropped /\ stream \in Seq(All)
      BY <1>0 DEF Summary, Summaries, FilesTyped
    <3> HIDE DEF All
    <3>2. /\ DOMAIN stream = 1..Len(stream)
          /\ DOMAIN stream' = 1..(Len(stream) + 1) /\ Len(stream') = Len(stream) + 1
          /\ \A i \in DOMAIN stream : stream'[i] = stream[i]
          /\ stream'[Len(stream) + 1] = Summary
      BY <2>5, <3>1, Appending
    <3>3. ASSUME NEW i \in DOMAIN stream', stream'[i].kind = "async_summary"
          PROVE  i = Len(stream') /\ stream'[i].dropped = dropped
      <4>1. i \notin DOMAIN stream
        BY <2>3, <3>2, <3>3
      <4>2. i = Len(stream) + 1
        BY <1>0, <3>2, <4>1
      <4> QED
        BY <3>1, <3>2, <4>2
    <3>4. happened = (Len(stream') - 1) + dropped
      BY <1>0, <2>3, <3>2
    <3> QED
      BY <2>1, <3>3, <3>4
  <2> QED
    BY <2>1, <2>4, <2>5
<1>7. CASE WriteFinal
  <2>1. UNCHANGED <<asyncVars, finished>> /\ pc = "final" /\ finished
    BY <1>7 DEF WriteFinal, SwitchedOff
  <2>2. CASE async
    <3>1. pc' = "flush"
      BY <1>7, <2>2 DEF WriteFinal
    <3> QED
      BY <2>1, <3>1
  <2>3. CASE ~async
    <3>1. DOMAIN stream' = {} /\ pc' = "record"
      BY <1>7, <2>1, <2>3 DEF WriteFinal, SwitchedOff
    <3> QED
      BY <2>1, <3>1
  <2> QED
    BY <2>2, <2>3
<1>8. CASE WriteFinish
  <2>1. UNCHANGED <<asyncVars, finished>> /\ pc = "record" /\ pc' = "loop" /\ finished
    BY <1>8 DEF WriteFinish, SwitchedOff
  <2> QED
    BY <2>1
<1>9. CASE Outside \/ UNCHANGED vars \/ \E handle \in {"sample", "gc"} : Record(handle)
  <2>1. UNCHANGED <<asyncVars, finished, pc>>
    BY <1>9 DEF Record, Outside, AppListens, Send, CleanupEnds, WriteStopFile, Kill, vars
  <2> QED
    BY <2>1
<1> QED
  BY <1>1, <1>2, <1>4, <1>5, <1>6, <1>7, <1>8, <1>9, StepKinds
---------------------------------------------------------------------------
(* The signals.                                                             *)

(* A dispatch is counted; v8scope and others send no signals on Windows.    *)
LEMMA Dispatching ==
    ASSUME SignalsTyped, ProbeAssumption
    PROVE  /\ Dispatched \in Nat
           /\ Dispatched > 1 => sent["SIGINT"] + sent["SIGTERM"] > 1
           /\ \A s \in Signals : pending[s] > 0 => role # "windows"
           /\ \A s \in Signals :
                 pending' = [pending EXCEPT ![s] = @ - 1] /\ sent' = sent
                     => Dispatched' = Dispatched + 1
<1>1. /\ sent["SIGINT"] \in Nat /\ sent["SIGTERM"] \in Nat
      /\ pending["SIGINT"] \in Nat /\ pending["SIGTERM"] \in Nat
      /\ pending["SIGINT"] <= sent["SIGINT"] /\ pending["SIGTERM"] <= sent["SIGTERM"]
  BY DEF SignalsTyped, Signals
<1>2. \A s \in Signals : pending[s] > 0 => role # "windows"
  <2> SUFFICES ASSUME NEW s \in Signals, pending[s] > 0, role = "windows" PROVE FALSE
    OBVIOUS
  <2>1. Limit[s] = 0
    BY DEF Limit, Interrupts, Signals
  <2>2. pending[s] \in Nat /\ sent[s] \in Nat /\ pending[s] <= sent[s] /\ sent[s] <= 0
    BY <2>1 DEF SignalsTyped
  <2> QED
    BY <2>2
<1>3. ASSUME NEW s \in Signals, pending' = [pending EXCEPT ![s] = @ - 1], sent' = sent
      PROVE  Dispatched' = Dispatched + 1
  <2>1. CASE s = "SIGINT"
    <3>1. pending'["SIGINT"] = pending["SIGINT"] - 1 /\ pending'["SIGTERM"] = pending["SIGTERM"]
      BY <1>3, <2>1 DEF SignalsTyped, Signals
    <3> QED
      BY <1>1, <1>3, <3>1 DEF Dispatched
  <2>2. CASE s = "SIGTERM"
    <3>1. pending'["SIGTERM"] = pending["SIGTERM"] - 1 /\ pending'["SIGINT"] = pending["SIGINT"]
      BY <1>3, <2>2 DEF SignalsTyped, Signals
    <3> QED
      BY <1>1, <1>3, <3>1 DEF Dispatched
  <2> QED
    BY <2>1, <2>2 DEF Signals
<1>4. Dispatched \in Nat
  BY <1>1 DEF Dispatched
<1>5. Dispatched > 1 => sent["SIGINT"] + sent["SIGTERM"] > 1
  BY <1>1 DEF Dispatched
<1> QED
  BY <1>2, <1>3, <1>4, <1>5

(* What a caller that exits does.                                           *)
LEMMA Exiting ==
    ASSUME NEW next \in {"probe", "app"}, Continue(next)
    PROVE  process' = "exited" /\ exitedBy' = next /\ cleanup' = cleanup
<1>1. next \notin Signals
  BY DEF Signals
<1>2. process' = "exited" /\ exitedBy' = next /\ UNCHANGED appVars
  BY ONLY <1>1, next \in {"probe", "app"}, Continue(next), Zenon DEF Continue
<1> QED
  BY <1>2

(* Every step of a signal, a cleanup or an exit has its dispatch.           *)
LEMMA SignalledStep ==
    ASSUME SignalsTyped, StateTyped, SwitchedOff, Signalled, ProbeAssumption, [Next]_vars
    PROVE  Signalled'
<1> USE DEF Signalled, Cut
<1>0. Dispatched \in Nat
  BY Dispatching
<1>1. ASSUME NEW next \in Callees, Called(next) PROVE Signalled'
  <2>1. /\ pc = "loop" /\ process = "running" /\ Finish(next)
        /\ UNCHANGED <<role, sent, stopFile>>
    BY <1>1 DEF Called, Looping, Running
  <2>2. exitedBy = "none"
    BY <2>1
  <2>3. \/ Dispatched' = Dispatched + 1 /\ role # "windows"
        \/ Dispatched' = Dispatched /\ (next \in {"loop", "app"} \/ (role = "windows" /\ ~finished))
    <3>1. CASE UNCHANGED pending
      <4>1. Dispatched' = Dispatched
        BY <2>1, <3>1 DEF Dispatched
      <4>2. CASE next \in {"loop", "app"}
        BY <4>1, <4>2
      <4>3. CASE "stop" \in active /\ stopFile
        BY <4>1, <4>3 DEF SwitchedOff
      <4>4. CASE \E s \in Signals : pending[s] > 0 /\ pending' = [pending EXCEPT ![s] = @ - 1]
        <5>1. PICK s \in Signals : pending[s] > 0 /\ pending' = [pending EXCEPT ![s] = @ - 1]
          BY <4>4
        <5>2. role # "windows"
          BY <5>1, Dispatching
        <5>3. Dispatched' = Dispatched + 1
          BY <2>1, <5>1, Dispatching
        <5> QED
          BY <5>2, <5>3
      <4> QED
        BY <1>1, <4>2, <4>3, <4>4 DEF Called
    <3>2. CASE ~UNCHANGED pending
      <4>1. PICK s \in Signals : pending[s] > 0 /\ pending' = [pending EXCEPT ![s] = @ - 1]
        BY <1>1, <3>2 DEF Called
      <4>2. role # "windows"
        BY <4>1, Dispatching
      <4>3. Dispatched' = Dispatched + 1
        BY <2>1, <4>1, Dispatching
      <4> QED
        BY <4>2, <4>3
    <3> QED
      BY <3>1, <3>2
  <2>4. CASE ~finished
    <3>1. /\ finished' /\ pc' = "final" /\ after' = next
          /\ UNCHANGED <<process, exitedBy, cleanup>>
      BY <2>1, <2>4 DEF Finish
    <3>2. cleanup = "none"
      BY <2>4
    <3>3. role # "windows" /\ next \in Signals => Dispatched' > 0
      BY <1>0, <2>3 DEF Signals
    <3> QED
      BY <2>1, <2>2, <3>1, <3>2, <3>3
  <2>5. CASE finished
    <3>1. Continue(next) /\ UNCHANGED <<pc, finished>>
      BY <2>1, <2>5 DEF Finish
    <3>2. CASE next = "probe"
      <4>1. process' = "exited" /\ exitedBy' = "probe" /\ cleanup' = cleanup
        BY <3>1, <3>2, Exiting
      <4>2. Dispatched' = Dispatched + 1 /\ role # "windows"
        BY <2>3, <2>5, <3>2
      <4> QED
        BY <1>0, <2>1, <2>5, <3>1, <4>1, <4>2
    <3>3. CASE next = "app"
      <4>1. process' = "exited" /\ exitedBy' = "app" /\ cleanup' = cleanup
        BY <3>1, <3>3, Exiting
      <4>2. Dispatched' >= Dispatched /\ Dispatched' \in Nat
        BY <1>0, <2>3
      <4> QED
        BY <1>0, <2>1, <2>5, <3>1, <4>1, <4>2
    <3>4. CASE next = "loop"
      <4>1. UNCHANGED <<process, exitedBy, cleanup>>
        BY <3>1, <3>4 DEF Continue, Signals
      <4>2. Dispatched' >= Dispatched /\ Dispatched' \in Nat
        BY <1>0, <2>3
      <4> QED
        BY <1>0, <2>1, <2>2, <2>5, <3>1, <4>1, <4>2
    <3>5. CASE next \in Signals
      <4>1. UNCHANGED <<process, exitedBy>>
        BY <3>1, <3>5 DEF Continue, Signals
      <4>2. role # "windows" => Dispatched' > 0
        BY <1>0, <2>3, <3>5 DEF Signals
      <4> QED
        BY <2>1, <2>2, <2>5, <3>1, <4>1, <4>2
    <3> QED
      BY <3>2, <3>3, <3>4, <3>5 DEF Callees
  <2> QED
    BY <2>4, <2>5
<1>2. CASE WriteFinish
  <2>1. /\ pc = "record" /\ pc' = "loop" /\ Continue(after)
        /\ process = "running" /\ UNCHANGED <<after, finished, role, sent, pending, stopFile>>
    BY <1>2 DEF WriteFinish, Running
  <2>2. finished /\ cleanup = "none" /\ exitedBy = "none" /\ Dispatched' = Dispatched
    BY <2>1 DEF SwitchedOff, Dispatched
  <2>3. CASE after \in {"probe", "app"}
    <3>1. process' = "exited" /\ exitedBy' = after /\ cleanup' = cleanup
      BY <2>1, <2>3, Exiting
    <3> QED
      BY <2>1, <2>2, <3>1
  <2>4. CASE after \in Signals
    <3>1. UNCHANGED <<process, exitedBy>>
      BY <2>1, <2>4 DEF Continue, Signals
    <3>2. role # "windows" => Dispatched > 0
      BY <2>1, <2>4
    <3> QED
      BY <2>1, <2>2, <3>1, <3>2
  <2>5. CASE after = "loop"
    <3>1. UNCHANGED <<process, exitedBy, cleanup>>
      BY <2>1, <2>5 DEF Continue, Signals
    <3> QED
      BY <2>1, <2>2, <3>1
  <2> QED
    BY <2>3, <2>4, <2>5 DEF StateTyped
<1>3. ASSUME UNCHANGED <<role, exitedBy, process, cleanup, after, finished, stopFile, sent, pending>>,
             pc' = "loop" <=> pc = "loop"
      PROVE  Signalled'
  BY <1>3 DEF Dispatched
<1>4. CASE WriteFinal \/ FinalFlush \/ WriteSummary \/ Push \/ Flush \/ UNCHANGED vars
           \/ \E handle \in {"sample", "gc"} : Record(handle)
  <2>1. /\ UNCHANGED <<role, exitedBy, process, cleanup, after, finished, stopFile, sent, pending>>
        /\ pc' = "loop" <=> pc = "loop"
    BY <1>4 DEF WriteFinal, FinalFlush, WriteSummary, Push, Flush, Record, vars
  <2> QED
    BY <1>3, <2>1
<1>5. CASE Outside
  <2>1. ASSUME NEW s \in Signals, AppListens(s) PROVE Signalled'
    BY <1>3, <2>1 DEF AppListens
  <2>2. ASSUME NEW s \in Signals, Send(s) PROVE Signalled'
    <3>1. /\ UNCHANGED <<role, exitedBy, process, cleanup, after, finished, stopFile, pc>>
          /\ sent' = [sent EXCEPT ![s] = @ + 1] /\ pending' = [pending EXCEPT ![s] = @ + 1]
      BY <2>2 DEF Send
    <3>2. Dispatched' = Dispatched
      <4>1. /\ sent["SIGINT"] \in Nat /\ sent["SIGTERM"] \in Nat
            /\ pending["SIGINT"] \in Nat /\ pending["SIGTERM"] \in Nat
        BY DEF SignalsTyped, Signals
      <4>2. CASE s = "SIGINT"
        <5>1. /\ sent'["SIGINT"] = sent["SIGINT"] + 1 /\ sent'["SIGTERM"] = sent["SIGTERM"]
              /\ pending'["SIGINT"] = pending["SIGINT"] + 1
              /\ pending'["SIGTERM"] = pending["SIGTERM"]
          BY <3>1, <4>2 DEF SignalsTyped, Signals
        <5> QED
          BY <4>1, <5>1 DEF Dispatched
      <4>3. CASE s = "SIGTERM"
        <5>1. /\ sent'["SIGTERM"] = sent["SIGTERM"] + 1 /\ sent'["SIGINT"] = sent["SIGINT"]
              /\ pending'["SIGTERM"] = pending["SIGTERM"] + 1
              /\ pending'["SIGINT"] = pending["SIGINT"]
          BY <3>1, <4>3 DEF SignalsTyped, Signals
        <5>2. (sent["SIGTERM"] + 1) - (pending["SIGTERM"] + 1) = sent["SIGTERM"] - pending["SIGTERM"]
          BY <4>1
        <5> QED
          BY <5>1, <5>2 DEF Dispatched
      <4> QED
        BY <4>2, <4>3 DEF Signals
    <3> QED
      BY <3>1, <3>2
  <2>3. CASE CleanupEnds
    <3>1. /\ UNCHANGED <<role, exitedBy, process, after, finished, stopFile, sent, pending, pc>>
          /\ cleanup = "running" /\ cleanup' = "done"
      BY <2>3 DEF CleanupEnds
    <3> QED
      BY <3>1 DEF Dispatched
  <2>4. CASE WriteStopFile
    <3>1. /\ UNCHANGED <<role, exitedBy, process, after, finished, cleanup, sent, pending, pc>>
          /\ role = "windows"
      BY <2>4 DEF WriteStopFile
    <3> QED
      BY <3>1 DEF Dispatched
  <2>5. CASE Kill
    <3>1. /\ UNCHANGED <<role, exitedBy, stopFile, after, finished, cleanup, sent, pending, pc>>
          /\ process = "running"
      BY <2>5 DEF Kill, Running
    <3> QED
      BY <3>1 DEF Dispatched
  <2> QED
    BY <1>5, <2>1, <2>2, <2>3, <2>4, <2>5 DEF Outside
<1> QED
  BY <1>1, <1>2, <1>4, <1>5, StepKinds
---------------------------------------------------------------------------
(* The theorems.                                                            *)

(* A process begins with its start record, or with the loss of it.          *)
LEMMA InitInv ==
    ASSUME ProbeAssumption, Init
    PROVE  IInv
<1> DEFINE first == [kind |-> "start", sequence |-> 0]
<1>1. telemetry = <<>> \/ telemetry = Append(<<>>, first)
  BY DEF Init, Written
<1>2. <<>> \in Seq(Records) /\ first \in Records /\ Len(<<>>) = 0
  BY DEF Records
<1>3. /\ telemetry \in Seq(Records)
      /\ \A i \in DOMAIN telemetry : i = 1 /\ telemetry[i] = first
  <2>1. CASE telemetry = <<>>
    BY <1>2, <2>1
  <2>2. CASE telemetry = Append(<<>>, first)
    <3> HIDE DEF first
    <3>1. telemetry \in Seq(Records) /\ DOMAIN telemetry = 1..1 /\ telemetry[1] = first
      BY <1>2, <2>2, Appending
    <3> QED
      BY <3>1
  <2> QED
    BY <1>1, <2>1, <2>2
<1>4. /\ stream = <<>> /\ buffer = <<>> /\ sequence = 1 /\ happened = 0 /\ dropped = 0
      /\ events = 0 /\ Len(stream) = 0 /\ Len(buffer) = 0
      /\ DOMAIN stream = {} /\ DOMAIN buffer = {}
  BY DEF Init
<1>5. FilesTyped
  BY <1>3, <1>4 DEF FilesTyped, ProbeAssumption
<1>6. AllNumbered
  BY <1>3, <1>4 DEF AllNumbered, Numbers, Apart, Before
<1>7. FinishIsLast
  BY <1>3 DEF FinishIsLast
<1>8. SummaryIsLast
  BY <1>4 DEF SummaryIsLast
<1>9. StateTyped
  BY DEF Init, StateTyped, Async, Signals
<1>10. SwitchedOff
  <2>1. CASE async
    BY <2>1 DEF Init, SwitchedOff
  <2>2. CASE ~async
    BY <2>2 DEF Init, SwitchedOff, Async
  <2> QED
    BY <2>1, <2>2 DEF Init
<1>11. SignalsTyped
  <2>1. \A s \in Signals : Limit[s] \in Nat
    <3>1. Interrupts[role] \in Nat
      BY DEF Init, Interrupts, Roles
    <3> QED
      BY <3>1 DEF Limit, Signals, ProbeAssumption
  <2> QED
    BY <2>1 DEF Init, SignalsTyped
<1>12. Signalled
  BY DEF Init, Signalled, Cut
<1> QED
  BY <1>5, <1>6, <1>7, <1>8, <1>9, <1>10, <1>11, <1>12 DEF IInv

(* Each part of the invariant follows from the lemma on its steps.          *)
LEMMA StepInv ==
    ASSUME ProbeAssumption, IInv, [Next]_vars
    PROVE  IInv'
<1>1. FilesTyped' /\ SignalsTyped' /\ StateTyped'
  BY FilesTypedStep, SignalsTypedStep, StateTypedStep DEF IInv
<1>2. SwitchedOff' /\ AllNumbered' /\ FinishIsLast'
  BY SwitchedOffStep, AllNumberedStep, FinishIsLastStep DEF IInv
<1>3. SummaryIsLast'
  BY <1>1, SummaryIsLastStep DEF IInv
<1>4. Signalled'
  BY SignalledStep DEF IInv
<1> QED
  BY <1>1, <1>2, <1>3, <1>4 DEF IInv

(* The invariant above holds however records, signals, exits and a kill fall. *)
THEOREM Invariance == Spec => []IInv
<1>1. Init => IInv
  BY ProbeAssumption, InitInv
<1>2. IInv /\ [Next]_vars => IInv'
  BY ProbeAssumption, StepInv
<1> QED
  BY <1>1, <1>2, PTL DEF Spec

(* No signal is dispatched that was not sent, a run sends no more than its  *)
(* limit, and the probe buffers no more async events than its maximum.      *)
THEOREM TypeCorrect == Spec => []TypeOK
<1>1. IInv => TypeOK
  <2> SUFFICES ASSUME IInv PROVE TypeOK
    OBVIOUS
  <2>1. \A s \in Signals : Limit[s] \in Nat
    <3>1. Interrupts[role] \in Nat
      BY DEF IInv, SignalsTyped, Interrupts, Roles
    <3> QED
      BY <3>1, ProbeAssumption DEF Limit, Signals, ProbeAssumption
  <2>2. \A s \in Signals : pending[s] \in 0..sent[s] /\ sent[s] \in 0..Limit[s]
    BY <2>1 DEF IInv, SignalsTyped
  <2>3. Len(buffer) <= events /\ events \in 0..MaxEvents /\ sequence \in Nat
    BY DEF IInv, FilesTyped, SummaryIsLast
  <2> QED
    BY <2>2, <2>3 DEF IInv, StateTyped, SignalsTyped, TypeOK
<1> QED
  BY <1>1, Invariance, PTL

(* A file that holds a finish record or an async summary ends with it, and  *)
(* no two records of the process share a number.                            *)
THEOREM Streams_Sealed == Spec => []StreamsSealed
<1>1. IInv => StreamsSealed
  <2> SUFFICES ASSUME IInv PROVE StreamsSealed
    OBVIOUS
  <2>1. Sealed(telemetry, "finish")
    BY DEF IInv, AllNumbered, Numbers, FinishIsLast, Sealed
  <2>2. Sealed(stream, "async_summary")
    BY DEF IInv, AllNumbered, Numbers, SummaryIsLast, Sealed
  <2> QED
    BY <2>1, <2>2 DEF IInv, AllNumbered, Apart, StreamsSealed
<1> QED
  BY <1>1, Invariance, PTL

(* The events before an async summary and its dropped count are all the     *)
(* events that the hook saw, whichever flushes failed.                      *)
THEOREM Async_Accounted == Spec => []AsyncAccounted
<1>1. IInv => AsyncAccounted
  <2> SUFFICES ASSUME IInv, NEW i \in DOMAIN stream, stream[i].kind = "async_summary"
               PROVE  happened = (Len(stream) - 1) + stream[i].dropped /\ buffer = <<>>
    BY DEF AsyncAccounted
  <2>1. Summarized /\ happened = (Len(stream) - 1) + stream[i].dropped
    BY DEF IInv, SummaryIsLast
  <2>2. buffer = <<>>
    BY <2>1 DEF IInv, SwitchedOff, Summarized
  <2> QED
    BY <2>1, <2>2
<1> QED
  BY <1>1, Invariance, PTL

(* Where the probe cuts a cleanup short, two signals have been sent to the  *)
(* process.                                                                 *)
THEOREM Cut_Explained == Spec => []CutExplained
<1>1. IInv => CutExplained
  BY ProbeAssumption, Dispatching DEF IInv, Signalled, CutExplained
<1> QED
  BY <1>1, Invariance, PTL
===========================================================================
