---------------------------- MODULE AttachProofs ----------------------------
(* What an attach session guarantees for snapshots of any size and for a    *)
(* broadcast of any capacity.                                                *)
EXTENDS Attach, SequenceTheorems, TLAPS

Last == next_id - 1

(* Commands under way are numbered in the order they were asked, after      *)
(* those performed; responses answer what was performed.                     *)
Numbered ==
    /\ performed <= Last
    /\ \A i \in DOMAIN toPeer : performed < toPeer[i].id /\ toPeer[i].id <= Last
    /\ \A i, j \in DOMAIN toPeer : i < j => toPeer[i].id < toPeer[j].id
    /\ \A i \in DOMAIN toClient :
          toClient[i].kind = "response" => toClient[i].id <= performed
    /\ stage = "send" =>
          performed < Last /\ \A i \in DOMAIN toPeer : toPeer[i].id < Last
    /\ slot.kind = "response" =>
          slot.id = Last /\ performed = Last /\ toClient = <<>>
    /\ \A i \in DOMAIN toClient :
          toClient[i].kind = "response" /\ toClient[i].id = Last
              => i = Len(toClient)

(* The command that execute awaits, its entry in the pending map and its    *)
(* oneshot.                                                                  *)
Awaited ==
    /\ stage # "idle" => phase = "running" /\ step \in Commands /\ Last > 0
    /\ stage \in {"send", "await", "forget"} => result = "none"
    /\ stage = "quiet" =>
          step = "snapshot" /\ result = "ok" /\ slot.kind = "response" /\ slot.ok
    /\ slot # Empty => pending = {}
    /\ stage = "send" => slot = Empty \/ slot = Closed

(* What the inspector has yet to perform: the awaited command, and those    *)
(* that were given up but do no harm.                                        *)
StillAsked ==
    phase = "running" =>
        \A i \in DOMAIN toPeer :
            /\ toPeer[i].id = Last /\ stage # "idle" => toPeer[i].method = step
            /\ \/ toPeer[i].method \in Tolerated
               \/ toPeer[i].id = Last /\ stage # "idle"

PastCpu == {"save_cpu", "cpu_disable", "heap_stop", "save_heap", "snapshot"}
              \cup Reporting
PastHeap == {"save_heap", "snapshot"} \cup Reporting

(* A profiler runs from its start to its stop.                              *)
ProfilersStop ==
    /\ step \in {"cpu_enable", "cpu_start", "cpu_stop", "save_cpu", "cpu_disable"}
          => opts.cpu
    /\ step \in {"heap_enable", "heap_start", "heap_stop", "save_heap"} => opts.heap
    /\ "cpu" \in sampling => opts.cpu /\ step \notin PastCpu
    /\ "heap" \in sampling => opts.heap /\ step \notin PastHeap

StopAnswered(answer) ==
    answer.kind = "response" /\ answer.id = Last /\ answer.ok /\ stage # "idle" =>
        /\ step = "cpu_stop" => "cpu" \notin sampling
        /\ step = "heap_stop" => "heap" \notin sampling

StopsAnswered ==
    StopAnswered(slot) /\ \A i \in DOMAIN toClient : StopAnswered(toClient[i])

(* What is on disk at each step.                                            *)
OnDisk ==
    /\ step \in {"save_cpu", "save_heap"} => result = "ok"
    /\ opts.cpu /\ step \in PastCpu \ {"save_cpu"} => "cpu" \in saved
    /\ opts.heap /\ step \in PastHeap \ {"save_heap"} => "heap" \in saved
    /\ step = "return" => disk = "final" /\ ~partial
    /\ phase = "returned" /\ code # 70 => step = "return"

(* While a snapshot is taken: on the wire are late responses, then chunks   *)
(* that follow those taken and those buffered, then perhaps the response.   *)
Taken == Len(file) + Len(events)

Wire(late, chunks) ==
    /\ Len(toClient) \in {late + chunks, late + chunks + 1}
    /\ \A i \in 1..late : toClient[i].kind = "response" /\ toClient[i].id < Last
    /\ \A i \in (late + 1)..(late + chunks) :
          toClient[i].kind = "chunk" /\ toClient[i].index = Taken + (i - late)
    /\ Len(toClient) = late + chunks + 1 =>
          LET end == toClient[Len(toClient)]
          IN /\ end.kind = "response" /\ end.id = Last
             /\ end.ok => Taken + chunks = Chunks
    /\ performed < Last => Len(toClient) = late /\ Taken = 0

InOrder ==
    Subscribed /\ ~lagged =>
        /\ \A i \in DOMAIN events : events[i].index = Len(file) + i
        /\ slot.kind = "response" /\ slot.ok => Taken = Chunks
        /\ \E late, chunks \in Nat : Wire(late, chunks)

FileInOrder ==
    /\ \A i \in DOMAIN file : file[i] = i
    /\ phase = "running" /\ ~Subscribed =>
          /\ step \notin Reporting => file = <<>>
          /\ \A i \in DOMAIN toClient : toClient[i].kind = "response"

IInv ==
    /\ TypeOK /\ Numbered /\ Awaited /\ StillAsked /\ ProfilersStop
    /\ StopsAnswered /\ OnDisk /\ InOrder /\ FileInOrder
    /\ PendingIsCurrent
---------------------------------------------------------------------------
USE DEF netVars, callVars, eventVars, diskVars, mainVars, sessionRest, localRest

Asked == [id : Nat, method : Commands]
Messages == Responses \cup ChunkEvents

StepNames ==
    {"evaluate", "create", "cpu_enable", "cpu_start", "heap_enable", "heap_start",
     "window", "cpu_stop", "save_cpu", "cpu_disable", "heap_stop", "save_heap",
     "snapshot", "heap_disable", "finish", "reanalyze", "finalize", "return"}

(* The steps of execute, listed.                                           *)
LEMMA StepsAre == Steps = StepNames
BY DEF Steps, Following, StepNames

(* Where execute goes from each step.                                       *)
LEMMA FollowingType ==
    ASSUME opts \in Options, step \in StepNames, step # "return"
    PROVE  Following[step] \in StepNames
BY DEF StepNames, Following, AfterSetup, AfterCpu, AfterProfiles

(* What a performed command puts on the wire.                               *)
LEMMA Performing ==
    ASSUME TypeOK, PeerPerforms
    PROVE  LET c == Head(toPeer)
               sent == Len(toClient)
           IN /\ c \in Asked /\ toPeer # <<>>
              /\ \E ok \in BOOLEAN, n \in Nat :
                    /\ ok => MayAccept(c.method)
                    /\ n = IF c.method = "snapshot" /\ ok THEN Chunks ELSE 0
                    /\ sampling' = Sampling(c.method, ok)
                    /\ toClient' \in Seq(Messages)
                    /\ Len(toClient') = sent + n + 1
                    /\ \A i \in 1..sent : toClient'[i] = toClient[i]
                    /\ \A i \in (sent + 1)..(sent + n) :
                          toClient'[i] = [kind |-> "chunk", index |-> i - sent]
                    /\ toClient'[sent + n + 1] =
                          [kind |-> "response", id |-> c.id, ok |-> ok]
<1> DEFINE c == Head(toPeer)
           sent == Len(toClient)
<1>1. toPeer \in Seq(Asked) /\ toPeer # <<>> /\ toClient \in Seq(Messages)
  BY DEF TypeOK, PeerPerforms, Asked, Messages
<1>2. c \in Asked
  BY <1>1, HeadTailProperties
<1>3. PICK ok \in BOOLEAN :
         /\ ok => MayAccept(c.method)
         /\ sampling' = Sampling(c.method, ok)
         /\ toClient' = toClient \o (IF ok THEN EventsOf(c.method) ELSE <<>>)
               \o <<[kind |-> "response", id |-> c.id, ok |-> ok]>>
  BY DEF PeerPerforms
<1> DEFINE n == IF c.method = "snapshot" /\ ok THEN Chunks ELSE 0
           chunks == IF ok THEN EventsOf(c.method) ELSE <<>>
           response == [kind |-> "response", id |-> c.id, ok |-> ok]
<1>4. n \in Nat
  BY AttachAssumption
<1>5. /\ chunks \in Seq(Messages) /\ Len(chunks) = n
      /\ \A i \in 1..n : chunks[i] = [kind |-> "chunk", index |-> i]
  <2>1. CASE c.method = "snapshot" /\ ok
    <3>1. chunks = [i \in 1..Chunks |-> [kind |-> "chunk", index |-> i]]
      BY <2>1 DEF EventsOf
    <3>2. \A i \in 1..Chunks : [kind |-> "chunk", index |-> i] \in Messages
      BY DEF Messages, ChunkEvents
    <3> QED
      BY <2>1, <3>1, <3>2, AttachAssumption
  <2>2. CASE ~(c.method = "snapshot" /\ ok)
    <3>1. chunks = <<>> /\ n = 0
      BY <2>2 DEF EventsOf
    <3> HIDE DEF chunks, n
    <3> QED
      BY <3>1, EmptySeq
  <2> QED
    BY <2>1, <2>2
<1>6. response \in Messages
  BY <1>2, <1>3 DEF Asked, Messages, Responses
<1>7. <<response>> \in Seq(Messages) /\ Len(<<response>>) = 1 /\ <<response>>[1] = response
  BY <1>6
<1> HIDE DEF c, n, chunks, response
<1>8. /\ toClient \o chunks \in Seq(Messages)
      /\ Len(toClient \o chunks) = sent + n
      /\ \A i \in 1..(sent + n) : (toClient \o chunks)[i] =
            IF i <= sent THEN toClient[i] ELSE chunks[i - sent]
  BY <1>1, <1>5, ConcatProperties
<1>9. sent \in Nat
  BY <1>1
<1>10. toClient' = (toClient \o chunks) \o <<response>>
  BY <1>3 DEF chunks, response
<1>11. /\ toClient' \in Seq(Messages)
       /\ Len(toClient') = sent + n + 1
       /\ \A i \in 1..(sent + n + 1) : toClient'[i] =
             IF i <= sent + n THEN (toClient \o chunks)[i]
                              ELSE <<response>>[i - (sent + n)]
  BY <1>7, <1>8, <1>10, ConcatProperties
<1>12. /\ \A i \in 1..sent : toClient'[i] = toClient[i]
       /\ \A i \in (sent + 1)..(sent + n) : toClient'[i] = [kind |-> "chunk", index |-> i - sent]
  BY <1>4, <1>5, <1>8, <1>9, <1>11
<1>13. toClient'[sent + n + 1] = response
  BY <1>4, <1>7, <1>9, <1>11
<1> QED
  BY <1>1, <1>2, <1>3, <1>4, <1>11, <1>12, <1>13 DEF c, n, response

(* The type invariant in parts that the provers can take one by one.        *)
ControlTyped ==
    /\ opts \in Options /\ step \in StepNames
    /\ phase \in {"running", "returned"} /\ code \in {0, 70, 130}
    /\ interrupted \in BOOLEAN /\ reader \in BOOLEAN /\ connected \in BOOLEAN
    /\ stage \in {"idle", "send", "await", "forget", "quiet"}
    /\ result \in {"none", "ok", "error"}
    /\ sampling \subseteq {"cpu", "heap"} /\ saved \subseteq {"cpu", "heap"}
    /\ disk \in {"none", "created", "finished", "final"} /\ partial \in BOOLEAN
    /\ lagged \in BOOLEAN

NumbersTyped ==
    next_id \in Nat \ {0} /\ pending \subseteq 1..(next_id - 1) /\ performed \in Nat

WireTyped ==
    /\ slot \in Responses \cup {Empty, Closed}
    /\ toPeer \in Seq(Asked) /\ toClient \in Seq(Messages)

ChunksTyped ==
    /\ events \in Seq(ChunkEvents) /\ Len(events) <= Capacity
    /\ file \in Seq(1..Chunks)

(* The type invariant is these parts.                                      *)
LEMMA Typed == TypeOK <=> ControlTyped /\ NumbersTyped /\ WireTyped /\ ChunksTyped
BY StepsAre DEF TypeOK, ControlTyped, NumbersTyped, WireTyped, ChunksTyped, Asked, Messages

(* The steps that leave the wire, the oneshot and the map as they are.      *)
LEMMA Steps_OffWire ==
    ASSUME [Next]_vars
    PROVE  \/ PeerPerforms \/ Disconnect \/ ReadResponse \/ ReadEvent \/ ReaderCloses
           \/ Call \/ Send \/ SendFails \/ Forget \/ GuardRemoves
           \/ UNCHANGED <<toPeer, toClient, performed, next_id, pending, slot>>
BY DEF Next, Peer, Reader, Session, Command, Snapshot, LocalSteps, Answered, TimesOut,
       TakeChunk, GivesUp, Quiet, Window, Writes, ManifestWrite, Reanalyze, Finalize,
       Return, LocalFails, vars

(* A step keeps the ids of their types.                                    *)
LEMMA NumbersTypedStep ==
    ASSUME NumbersTyped, WireTyped, [Next]_vars PROVE NumbersTyped'
<1> USE DEF NumbersTyped
<1>1. ASSUME PeerPerforms PROVE NumbersTyped'
  <2>1. Head(toPeer) \in Asked
    BY <1>1, HeadTailProperties DEF PeerPerforms, WireTyped
  <2>2. performed' \in Nat
    BY <1>1, <2>1 DEF PeerPerforms, Asked
  <2> QED
    BY <1>1, <2>2 DEF PeerPerforms
<1>2. CASE Call
  BY <1>2 DEF Call
<1>3. CASE ReadResponse \/ ReaderCloses \/ SendFails \/ Forget \/ GuardRemoves
  BY <1>3 DEF ReadResponse, ReaderCloses, SendFails, Forget, GuardRemoves
<1>4. CASE Disconnect \/ ReadEvent \/ Send
  BY <1>4 DEF Disconnect, ReadEvent, Send
<1> QED
  BY <1>1, <1>2, <1>3, <1>4, Steps_OffWire

(* The loss of the connection keeps a part of what was under way.           *)
LEMMA Disconnecting ==
    ASSUME WireTyped, Disconnect
    PROVE  /\ toPeer' = <<>> /\ toClient' \in Seq(Messages)
           /\ Len(toClient') <= Len(toClient)
           /\ \A i \in 1..Len(toClient') : toClient'[i] = toClient[i]
<1>1. PICK n \in 0..Len(toClient) : toClient' = SubSeq(toClient, 1, n)
  BY DEF Disconnect
<1>2. toClient \in Seq(Messages) /\ n \in Int
  BY <1>1 DEF WireTyped
<1>3. \A i \in 1..n : toClient[i] \in Messages
  BY <1>1, <1>2, ElementOfSeq
<1>4. /\ toClient' \in Seq(Messages)
      /\ Len(toClient') = IF 1 <= n THEN n - 1 + 1 ELSE 0
      /\ \A i \in 1..(n - 1 + 1) : toClient'[i] = toClient[1 + i - 1]
  BY <1>1, <1>2, <1>3, SubSeqProperties
<1>5. Len(toClient') = n /\ n <= Len(toClient)
  BY <1>1, <1>4
<1>6. \A i \in 1..n : toClient'[i] = toClient[i]
  BY <1>2, <1>4
<1> QED
  BY <1>4, <1>5, <1>6 DEF Disconnect

(* What the reader takes from the wire.                                     *)
LEMMA Reading_One ==
    ASSUME WireTyped, ReadResponse \/ ReadEvent
    PROVE  /\ Len(toClient) > 0 /\ Head(toClient) = toClient[1]
           /\ toClient' \in Seq(Messages) /\ Len(toClient') = Len(toClient) - 1
           /\ \A i \in 1..Len(toClient') : toClient'[i] = toClient[i + 1]
           /\ ReadResponse => Head(toClient) \in Responses
           /\ ReadEvent => Head(toClient) \in ChunkEvents
<1>1. toClient \in Seq(Messages) /\ toClient # <<>> /\ toClient' = Tail(toClient)
  BY DEF WireTyped, ReadResponse, ReadEvent
<1>2. Head(toClient) \in Messages
  BY <1>1, HeadTailProperties
<1>3. /\ ReadResponse => Head(toClient) \in Responses
      /\ ReadEvent => Head(toClient) \in ChunkEvents
  BY <1>2 DEF Messages, Responses, ChunkEvents, ReadResponse, ReadEvent
<1>4. Len(toClient) > 0 /\ Head(toClient) = toClient[1]
  BY <1>1
<1> QED
  BY <1>1, <1>3, <1>4, HeadTailProperties

(* A command that is sent over a connection that holds.                     *)
LEMMA Sending ==
    ASSUME NumbersTyped, WireTyped, Send, step \in Commands, connected
    PROVE  /\ toPeer' \in Seq(Asked) /\ Len(toPeer') = Len(toPeer) + 1
           /\ \A i \in 1..Len(toPeer) : toPeer'[i] = toPeer[i]
           /\ toPeer'[Len(toPeer) + 1] = [id |-> Last, method |-> step]
<1>1. toPeer' = Append(toPeer, [id |-> Last, method |-> step])
  BY DEF Send, Last
<1>2. [id |-> Last, method |-> step] \in Asked /\ toPeer \in Seq(Asked)
  BY DEF Asked, Last, NumbersTyped, WireTyped
<1> QED
  BY <1>1, <1>2

(* A step keeps what is under way of its types.                            *)
LEMMA WireTypedStep ==
    ASSUME NumbersTyped, WireTyped, Awaited, [Next]_vars, TypeOK PROVE WireTyped'
<1>1. ASSUME PeerPerforms PROVE WireTyped'
  <2>1. toClient' \in Seq(Messages) /\ toPeer # <<>>
    BY <1>1, Performing
  <2>2. toPeer' \in Seq(Asked)
    BY <1>1, <2>1, HeadTailProperties DEF PeerPerforms, WireTyped
  <2> QED
    BY <1>1, <2>1, <2>2 DEF PeerPerforms, WireTyped
<1>2. ASSUME Disconnect PROVE WireTyped'
  <2>1. toClient' \in Seq(Messages) /\ toPeer' \in Seq(Asked) /\ slot' = slot
    BY <1>2, Disconnecting, EmptySeq DEF Disconnect
  <2> QED
    BY <2>1 DEF WireTyped
<1>3. ASSUME ReadResponse PROVE WireTyped'
  <2>1. toClient' \in Seq(Messages) /\ Head(toClient) \in Responses
    BY <1>3, Reading_One
  <2> QED
    BY <1>3, <2>1 DEF ReadResponse, WireTyped
<1>4. ASSUME ReadEvent PROVE WireTyped'
  <2>1. toClient' \in Seq(Messages)
    BY <1>4, Reading_One
  <2> QED
    BY <1>4, <2>1 DEF ReadEvent, WireTyped
<1>5. ASSUME Send PROVE WireTyped'
  <2>1. step \in Commands
    BY <1>5 DEF Send, Awaited
  <2>2. CASE connected
    BY <1>5, <2>1, <2>2, Sending DEF Send, WireTyped
  <2>3. CASE ~connected
    BY <1>5, <2>3 DEF Send, WireTyped
  <2> QED
    BY <2>2, <2>3
<1>6. CASE ReaderCloses \/ Call \/ SendFails \/ Forget \/ GuardRemoves
  BY <1>6 DEF ReaderCloses, Call, SendFails, Forget, GuardRemoves, WireTyped
<1>7. CASE UNCHANGED <<toPeer, toClient, performed, next_id, pending, slot>>
  BY <1>7 DEF WireTyped
<1> QED
  BY <1>1, <1>2, <1>3, <1>4, <1>5, <1>6, <1>7, Steps_OffWire

(* A step keeps what the snapshot has received of its types.               *)
LEMMA ChunksTypedStep ==
    ASSUME WireTyped, ChunksTyped, [Next]_vars PROVE ChunksTyped'
<1>1. ASSUME ReadEvent PROVE ChunksTyped'
  <2>1. Head(toClient) \in ChunkEvents
    BY <1>1, Reading_One
  <2>2. events' \in Seq(ChunkEvents) /\ Len(events') <= Capacity
    <3>1. CASE ~Subscribed
      BY <1>1, <3>1 DEF ReadEvent, Broadcast, ChunksTyped
    <3>2. CASE Subscribed /\ Len(events) < Capacity
      <4>1. events' = Append(events, Head(toClient)) /\ events \in Seq(ChunkEvents)
        BY <1>1, <3>2 DEF ReadEvent, Broadcast, ChunksTyped
      <4>2. events' \in Seq(ChunkEvents) /\ Len(events') = Len(events) + 1
        BY <2>1, <4>1
      <4> QED
        BY <3>2, <4>1, <4>2, AttachAssumption
    <3>3. CASE Subscribed /\ ~(Len(events) < Capacity)
      <4>1. events \in Seq(ChunkEvents) /\ events # <<>> /\ Len(events) = Capacity
        BY <3>3, AttachAssumption DEF ChunksTyped
      <4>2. Tail(events) \in Seq(ChunkEvents) /\ Len(Tail(events)) = Capacity - 1
        BY <4>1, HeadTailProperties
      <4>3. events' = Append(Tail(events), Head(toClient))
        BY <1>1, <3>3 DEF ReadEvent, Broadcast
      <4> QED
        BY <2>1, <4>2, <4>3, AttachAssumption
    <3> QED
      BY <3>1, <3>2, <3>3
  <2> QED
    BY <1>1, <2>2 DEF ReadEvent, ChunksTyped
<1>2. CASE Call
  BY <1>2, EmptySeq, AttachAssumption DEF Call, ChunksTyped
<1>3. ASSUME TakeChunk PROVE ChunksTyped'
  <2>1. /\ events \in Seq(ChunkEvents) /\ events # <<>>
        /\ Head(events) \in ChunkEvents /\ Tail(events) \in Seq(ChunkEvents)
        /\ Len(Tail(events)) = Len(events) - 1
    BY <1>3, HeadTailProperties DEF TakeChunk, ChunksTyped
  <2>2. Head(events).index \in 1..Chunks
    BY <2>1 DEF ChunkEvents
  <2>3. Append(file, Head(events).index) \in Seq(1..Chunks)
    BY <2>2 DEF ChunksTyped
  <2>4. Len(Tail(events)) <= Capacity
    BY <2>1, AttachAssumption DEF ChunksTyped
  <2> QED
    BY <1>3, <2>1, <2>3, <2>4 DEF TakeChunk, ChunksTyped
<1>4. CASE UNCHANGED <<events, file>>
  BY <1>4 DEF ChunksTyped
<1> QED
  BY <1>1, <1>2, <1>3, <1>4
  DEF Next, Peer, Reader, Session, Command, Snapshot, LocalSteps, PeerPerforms, Disconnect,
      ReadResponse, ReaderCloses, Send, SendFails, Answered, TimesOut, Forget, GivesUp,
      GuardRemoves, Quiet, Window, Writes, ManifestWrite, Reanalyze, Finalize, Return,
      LocalFails, vars

(* The command that is over goes on or ends the session.                    *)
LEMMA Concluding ==
    ASSUME ControlTyped, Awaited, stage # "idle", NEW ok \in BOOLEAN, Conclude(ok)
    PROVE  /\ stage' = "idle" /\ result' = (IF ok THEN "ok" ELSE "error")
           /\ step' \in StepNames /\ phase' \in {"running", "returned"}
           /\ code' \in {0, 70, 130}
<1>1. opts \in Options /\ step \in StepNames /\ step # "return"
  BY DEF ControlTyped, Awaited, Commands
<1>2. Following[step] \in StepNames
  BY <1>1, FollowingType
<1> QED
  BY <1>2 DEF Conclude, Proceed, Abandon, ControlTyped

(* A step keeps the session's own state of its types.                      *)
LEMMA ControlTypedStep ==
    ASSUME ControlTyped, Awaited, [Next]_vars, TypeOK PROVE ControlTyped'
<1> DEFINE OnlyConcludes ==
            /\ stage' \in {"idle", "quiet"} /\ result' \in {"ok", "error"}
            /\ step' \in StepNames /\ phase' \in {"running", "returned"}
            /\ code' \in {0, 70, 130}
            /\ UNCHANGED <<opts, interrupted, reader, connected, sampling, saved,
                           disk, partial, lagged>>
<1>1. OnlyConcludes => ControlTyped'
  BY DEF ControlTyped
<1>2. CASE SendFails \/ Forget
  <2>1. stage # "idle" /\ Conclude(FALSE)
    BY <1>2 DEF SendFails, Forget
  <2> QED
    BY <1>1, <1>2, <2>1, Concluding DEF SendFails, Forget
<1>3. CASE Quiet
  <2>1. stage # "idle" /\ Conclude(TRUE)
    BY <1>3 DEF Quiet
  <2> QED
    BY <1>1, <1>3, <2>1, Concluding DEF Quiet
<1>4. CASE Answered
  <2> DEFINE ok == slot.kind = "response" /\ slot.ok
  <2>1. CASE step = "snapshot" /\ ok
    <3>1. OnlyConcludes
      BY <1>4, <2>1 DEF Answered, ControlTyped
    <3> QED
      BY <1>1, <3>1
  <2>2. CASE ~(step = "snapshot" /\ ok)
    <3>1. stage # "idle" /\ Conclude(ok)
      BY <1>4, <2>2 DEF Answered
    <3>2. Conclude(TRUE) \/ Conclude(FALSE)
      BY <3>1 DEF Conclude
    <3> QED
      BY <1>1, <1>4, <3>1, <3>2, Concluding DEF Answered
  <2> QED
    BY <2>1, <2>2
<1>5. ASSUME Proceed, step # "return"
      PROVE  step' \in StepNames /\ phase' = phase /\ code' = code
  BY <1>5, FollowingType DEF Proceed, ControlTyped
<1> DEFINE OnlyProceeds ==
            /\ step' \in StepNames /\ phase' = phase /\ code' = code
            /\ UNCHANGED <<opts, stage, result, reader, connected, sampling, lagged>>
           Rest == UNCHANGED <<opts, step, phase, code, interrupted, saved, disk, partial>>
<1>6. CASE LocalSteps
  <2>1. CASE Window
    <3>1. OnlyProceeds /\ interrupted' \in BOOLEAN /\ UNCHANGED <<saved, disk, partial>>
      BY <1>5, <2>1 DEF Window, At
    <3> QED
      BY <3>1 DEF ControlTyped
  <2>2. ASSUME NEW s, s # "return", NEW name \in {"cpu", "heap"}, Writes(s, name)
        PROVE  ControlTyped'
    <3>1. OnlyProceeds /\ UNCHANGED <<interrupted, disk, partial>>
      BY <1>5, <2>2 DEF Writes, At
    <3>2. saved' \subseteq {"cpu", "heap"}
      BY <2>2 DEF Writes, ControlTyped
    <3> QED
      BY <3>1, <3>2 DEF ControlTyped
  <2>3. ASSUME NEW s, s # "return", NEW d \in {"created", "finished"}, ManifestWrite(s, d)
        PROVE  ControlTyped'
    <3>1. OnlyProceeds /\ disk' = d /\ UNCHANGED <<interrupted, saved, partial>>
      BY <1>5, <2>3 DEF ManifestWrite, At
    <3> QED
      BY <3>1 DEF ControlTyped
  <2>4. CASE Reanalyze
    <3>1. OnlyProceeds /\ UNCHANGED <<interrupted, disk, saved, partial>>
      BY <1>5, <2>4 DEF Reanalyze, At
    <3> QED
      BY <3>1 DEF ControlTyped
  <2>5. CASE Finalize
    <3>1. /\ OnlyProceeds /\ disk' = "final" /\ partial' \in BOOLEAN
          /\ UNCHANGED <<interrupted, saved>>
      BY <1>5, <2>5 DEF Finalize, At
    <3> QED
      BY <3>1 DEF ControlTyped
  <2>6. CASE Return
    BY <2>6 DEF Return, ControlTyped
  <2>7. CASE LocalFails
    BY <2>7 DEF LocalFails, Abandon, ControlTyped
  <2> QED
    BY <1>6, <2>1, <2>2, <2>3, <2>4, <2>5, <2>6, <2>7 DEF LocalSteps
<1>7. CASE PeerPerforms
  <2>1. sampling' \subseteq {"cpu", "heap"}
    BY <1>7 DEF PeerPerforms, Sampling, ControlTyped
  <2>2. Rest /\ UNCHANGED <<stage, result, reader, connected, lagged>>
    BY <1>7 DEF PeerPerforms
  <2> QED
    BY <2>1, <2>2 DEF ControlTyped
<1>8. CASE Disconnect \/ ReadResponse \/ ReaderCloses
  <2>1. /\ Rest /\ (reader' = reader \/ reader' = FALSE)
        /\ connected' = connected \/ connected' = FALSE
        /\ UNCHANGED <<stage, result, sampling, lagged>>
    BY <1>8 DEF Disconnect, ReadResponse, ReaderCloses
  <2>2. reader' \in BOOLEAN /\ connected' \in BOOLEAN
    BY <2>1 DEF ControlTyped
  <2> QED
    BY <2>1, <2>2 DEF ControlTyped
<1>9. CASE ReadEvent
  <2>1. /\ Rest /\ (lagged' = lagged \/ lagged' = TRUE)
        /\ UNCHANGED <<stage, result, reader, connected, sampling>>
    BY <1>9 DEF ReadEvent, Broadcast
  <2>2. lagged' \in BOOLEAN
    BY <2>1 DEF ControlTyped
  <2> QED
    BY <2>1, <2>2 DEF ControlTyped
<1>10. CASE Call \/ Send \/ TimesOut
  <2>1. /\ Rest /\ stage' \in {"send", "await", "forget"} /\ result' \in {result, "none"}
        /\ (lagged' = lagged \/ lagged' = FALSE) /\ UNCHANGED <<reader, connected, sampling>>
    BY <1>10 DEF Call, Send, TimesOut
  <2>2. lagged' \in BOOLEAN /\ result' \in {"none", "ok", "error"}
    BY <2>1 DEF ControlTyped
  <2> QED
    BY <2>1, <2>2 DEF ControlTyped
<1>11. CASE TakeChunk \/ GuardRemoves \/ UNCHANGED vars
  <2>1. Rest /\ UNCHANGED <<stage, result, reader, connected, sampling, lagged>>
    BY <1>11 DEF TakeChunk, GuardRemoves, vars
  <2> QED
    BY <2>1 DEF ControlTyped
<1>12. CASE GivesUp
  BY <1>12 DEF GivesUp, Abandon, ControlTyped
<1> QED
  BY <1>2, <1>3, <1>4, <1>6, <1>7, <1>8, <1>9, <1>10, <1>11, <1>12
  DEF Next, Peer, Reader, Session, Command, Snapshot

(* A step keeps the type invariant.                                        *)
LEMMA TypeStep == ASSUME TypeOK, Awaited, [Next]_vars PROVE TypeOK'
<1>1. ControlTyped /\ NumbersTyped /\ WireTyped /\ ChunksTyped
  BY Typed
<1>2. ControlTyped' /\ NumbersTyped' /\ WireTyped' /\ ChunksTyped'
  BY <1>1, ControlTypedStep, NumbersTypedStep, WireTypedStep, ChunksTypedStep
<1> QED
  BY <1>2, Typed, PTL

(* What is under way, by position.                                          *)
LEMMA Positions ==
    ASSUME WireTyped
    PROVE  /\ Len(toPeer) \in Nat /\ DOMAIN toPeer = 1..Len(toPeer)
           /\ \A i \in DOMAIN toPeer : toPeer[i].id \in Nat /\ toPeer[i].method \in Commands
           /\ Len(toClient) \in Nat /\ DOMAIN toClient = 1..Len(toClient)
           /\ \A i \in DOMAIN toClient :
                 /\ toClient[i].kind \in {"response", "chunk"}
                 /\ toClient[i].kind = "response" =>
                       toClient[i].id \in Nat /\ toClient[i].ok \in BOOLEAN
<1>1. toPeer \in Seq(Asked) /\ toClient \in Seq(Messages)
  BY DEF WireTyped
<1>2. \A m \in Asked : m.id \in Nat /\ m.method \in Commands
  BY DEF Asked
<1>3. \A m \in Messages :
         /\ m.kind \in {"response", "chunk"}
         /\ m.kind = "response" => m.id \in Nat /\ m.ok \in BOOLEAN
  BY DEF Messages, Responses, ChunkEvents
<1> QED
  BY <1>1, <1>2, <1>3, LenProperties, ElementOfSeq

(* The command that the inspector takes.                                    *)
LEMMA Taking ==
    ASSUME WireTyped, PeerPerforms
    PROVE  /\ Len(toPeer) > 0 /\ Head(toPeer) = toPeer[1]
           /\ Len(toPeer') = Len(toPeer) - 1 /\ DOMAIN toPeer' = 1..Len(toPeer')
           /\ \A i \in 1..Len(toPeer') : toPeer'[i] = toPeer[i + 1]
<1>1. toPeer \in Seq(Asked) /\ toPeer # <<>> /\ toPeer' = Tail(toPeer)
  BY DEF WireTyped, PeerPerforms
<1>2. Tail(toPeer) \in Seq(Asked) /\ Len(Tail(toPeer)) = Len(toPeer) - 1
      /\ \A i \in 1..Len(Tail(toPeer)) : Tail(toPeer)[i] = toPeer[i + 1]
  BY <1>1, HeadTailProperties
<1> QED
  BY <1>1, <1>2, LenProperties

(* A step keeps the ids in the order they were given.                      *)
LEMMA NumberedStep ==
    ASSUME TypeOK, NumbersTyped, WireTyped, WireTyped', Numbered, Awaited, [Next]_vars
    PROVE  Numbered'
<1> USE DEF Numbered, Last
<1>0. next_id \in Nat /\ performed \in Nat
  BY DEF NumbersTyped
<1>a. /\ DOMAIN toClient' = 1..Len(toClient') /\ DOMAIN toPeer' = 1..Len(toPeer')
      /\ Len(toClient') \in Nat /\ Len(toPeer') \in Nat
  BY LenProperties DEF WireTyped
<1>1. ASSUME PeerPerforms PROVE Numbered'
  <2> DEFINE c == toPeer[1]
             sent == Len(toClient)
  <2>1. /\ Len(toPeer) > 0 /\ performed' = c.id /\ Len(toPeer') = Len(toPeer) - 1
        /\ \A i \in 1..Len(toPeer') : toPeer'[i] = toPeer[i + 1]
        /\ UNCHANGED <<next_id, stage, slot>>
    BY <1>1, Taking DEF PeerPerforms
  <2>0. Head(toPeer) = c
    BY <1>1, Taking
  <2>2. PICK ok \in BOOLEAN, n \in Nat :
           /\ Len(toClient') = sent + n + 1
           /\ \A i \in 1..sent : toClient'[i] = toClient[i]
           /\ \A i \in (sent + 1)..(sent + n) :
                 toClient'[i] = [kind |-> "chunk", index |-> i - sent]
           /\ toClient'[sent + n + 1] = [kind |-> "response", id |-> c.id, ok |-> ok]
    BY <1>1, <2>0, Performing, Zenon
  <2>3. c.id \in Nat /\ performed < c.id /\ c.id <= Last
    BY <2>1, Positions
  <2>4. slot.kind # "response"
    BY <2>3, <1>0
  <2>a. \A i \in DOMAIN toPeer' : /\ i \in Nat /\ i + 1 \in DOMAIN toPeer /\ 1 < i + 1
                                  /\ toPeer'[i] = toPeer[i + 1]
    BY <2>1, <1>a, Positions
  <2>b. 1 \in DOMAIN toPeer
    BY <2>1, Positions
  <2>5. /\ performed' <= Last'
        /\ \A i \in DOMAIN toPeer' : performed' < toPeer'[i].id /\ toPeer'[i].id <= Last'
        /\ \A i, j \in DOMAIN toPeer' : i < j => toPeer'[i].id < toPeer'[j].id
        /\ stage' = "send" =>
              performed' < Last' /\ \A i \in DOMAIN toPeer' : toPeer'[i].id < Last'
    BY <2>1, <2>3, <2>a, <2>b
  <2>6. \A i \in DOMAIN toClient' :
           \/ i \in 1..sent /\ toClient'[i] = toClient[i]
           \/ toClient'[i].kind = "chunk"
           \/ i = Len(toClient') /\ toClient'[i].kind = "response" /\ toClient'[i].id = c.id
    <3> SUFFICES ASSUME NEW i \in DOMAIN toClient'
                 PROVE  \/ i \in 1..sent /\ toClient'[i] = toClient[i]
                        \/ toClient'[i].kind = "chunk"
                        \/ /\ i = Len(toClient') /\ toClient'[i].kind = "response"
                           /\ toClient'[i].id = c.id
      OBVIOUS
    <3>1. sent \in Nat /\ i \in 1..(sent + n + 1)
      BY <2>2, <1>a, Positions
    <3>2. i \in 1..sent \/ i \in (sent + 1)..(sent + n) \/ i = sent + n + 1
      BY <3>1
    <3>3. CASE i \in 1..sent
      BY <2>2, <3>3
    <3>4. CASE i \in (sent + 1)..(sent + n)
      <4>1. toClient'[i] = [kind |-> "chunk", index |-> i - sent]
        BY <2>2, <3>4
      <4> QED
        BY <4>1
    <3>5. CASE i = sent + n + 1
      BY <2>2, <3>5
    <3> QED
      BY <3>2, <3>3, <3>4, <3>5
  <2>7. \A i \in DOMAIN toClient' : toClient'[i].kind = "response" =>
           /\ toClient'[i].id <= performed'
           /\ toClient'[i].id = Last' => i = Len(toClient')
    BY <2>1, <2>3, <2>6, <1>0, Positions, SMTT(30)
  <2> QED
    BY <2>1, <2>4, <2>5, <2>7
<1>2. ASSUME Disconnect PROVE Numbered'
  <2>1. /\ toPeer' = <<>> /\ Len(toClient') <= Len(toClient)
        /\ \A i \in 1..Len(toClient') : toClient'[i] = toClient[i]
        /\ UNCHANGED <<next_id, stage, slot, performed>>
    BY <1>2, Disconnecting DEF Disconnect
  <2>2. \A i \in DOMAIN toClient' : i \in DOMAIN toClient /\ toClient'[i] = toClient[i]
    BY <2>1, <1>a, Positions
  <2>3. toClient = <<>> => toClient' = <<>>
    BY <2>1, <1>a, EmptySeq DEF WireTyped
  <2>4. DOMAIN toPeer' = {}
    BY <2>1
  <2>5. \A i \in DOMAIN toClient' :
           toClient'[i].kind = "response" /\ toClient'[i].id = Last => i = Len(toClient')
    BY <2>1, <2>2, <1>a, Positions
  <2> QED
    BY <2>1, <2>2, <2>3, <2>4, <2>5
<1>3. ASSUME ReadResponse \/ ReadEvent PROVE Numbered'
  <2>1. /\ Len(toClient) > 0 /\ Len(toClient') = Len(toClient) - 1
        /\ \A i \in 1..Len(toClient') : toClient'[i] = toClient[i + 1]
    BY <1>3, Reading_One
  <2>2. UNCHANGED <<next_id, stage, performed, toPeer>>
    BY <1>3 DEF ReadResponse, ReadEvent
  <2>a. \A i \in DOMAIN toClient' : /\ i \in Nat /\ i + 1 \in DOMAIN toClient
                                    /\ toClient'[i] = toClient[i + 1]
    BY <2>1, <1>a, Positions
  <2>3. /\ \A i \in DOMAIN toClient' :
              toClient'[i].kind = "response" => toClient'[i].id <= performed
        /\ \A i \in DOMAIN toClient' :
              toClient'[i].kind = "response" /\ toClient'[i].id = Last => i = Len(toClient')
    <3>1. Len(toClient) \in Nat
      BY Positions
    <3> QED
      BY <2>1, <2>a, <3>1
  <2>4. slot'.kind = "response" => slot'.id = Last /\ performed = Last /\ toClient' = <<>>
    <3>1. CASE slot' = slot
      <4>1. slot.kind = "response" => toClient = <<>>
        OBVIOUS
      <4> QED
        BY <2>1, <3>1, <4>1
    <3>2. CASE slot' # slot
      <4>1. /\ Head(toClient).id = Last /\ slot' = Head(toClient)
            /\ toClient[1].kind = "response" /\ Head(toClient) = toClient[1]
        BY <1>3, <3>2, Reading_One DEF ReadResponse, ReadEvent
      <4>2. 1 \in DOMAIN toClient
        BY <2>1, Positions
      <4>3. Len(toClient) = 1 /\ performed = Last
        <5>1. toClient[1].id = Last /\ toClient[1].id <= performed /\ performed <= Last
          BY <4>1, <4>2
        <5>2. Len(toClient) = 1
          BY <4>1, <4>2, <5>1
        <5> QED
          BY <5>1, <5>2, <1>0
      <4>4. toClient' = <<>>
        BY <2>1, <4>3, EmptySeq DEF WireTyped
      <4> QED
        BY <4>1, <4>3, <4>4
    <3> QED
      BY <3>1, <3>2
  <2> QED
    BY <2>2, <2>3, <2>4
<1>4. ASSUME ReaderCloses PROVE Numbered'
  <2>1. slot' = Closed \/ slot' = slot
    BY <1>4 DEF ReaderCloses
  <2>2. slot'.kind = "response" => slot' = slot
    BY <2>1 DEF Closed
  <2> QED
    BY <1>4, <2>2 DEF ReaderCloses
<1>5. ASSUME Call PROVE Numbered'
  <2>1. /\ next_id' = next_id + 1 /\ slot'.kind # "response"
        /\ UNCHANGED <<toPeer, toClient, performed>>
    BY <1>5 DEF Call, Empty
  <2> QED
    BY <2>1, <1>0, Positions
<1>6. ASSUME Send PROVE Numbered'
  <2>1. /\ stage = "send" /\ stage' = "await" /\ step \in Commands
        /\ UNCHANGED <<next_id, slot, performed, toClient>>
    BY <1>6 DEF Send, Awaited
  <2>2. CASE ~connected
    BY <1>6, <2>1, <2>2 DEF Send
  <2>3. CASE connected
    <3>1. /\ Len(toPeer') = Len(toPeer) + 1
          /\ \A i \in 1..Len(toPeer) : toPeer'[i] = toPeer[i]
          /\ toPeer'[Len(toPeer) + 1].id = next_id - 1
      BY <1>6, <2>1, <2>3, Sending
    <3>2. /\ \A i \in DOMAIN toPeer' : performed < toPeer'[i].id /\ toPeer'[i].id <= Last
          /\ \A i, j \in DOMAIN toPeer' : i < j => toPeer'[i].id < toPeer'[j].id
      BY <2>1, <3>1, <1>a, <1>0, Positions, SMTT(30)
    <3> QED
      BY <2>1, <3>2
  <2> QED
    BY <2>2, <2>3
<1>7. ASSUME UNCHANGED <<next_id, slot, performed, toPeer, toClient>>,
             stage' = "send" => stage = "send"
      PROVE  Numbered'
  BY <1>7
<1>8. \/ PeerPerforms \/ Disconnect \/ ReadResponse \/ ReadEvent \/ ReaderCloses
      \/ Call \/ Send
      \/ /\ UNCHANGED <<next_id, slot, performed, toPeer, toClient>>
         /\ stage' = "send" => stage = "send"
  BY DEF Next, Peer, Reader, Session, Command, Snapshot, LocalSteps, Answered, TimesOut,
       TakeChunk, GivesUp, Quiet, Window, Writes, ManifestWrite, Reanalyze, Finalize,
       Return, LocalFails, vars, SendFails, Forget, GuardRemoves, Conclude
<1> QED
  BY <1>1, <1>2, <1>3, <1>4, <1>5, <1>6, <1>7, <1>8

(* A step keeps the oneshot and the map in line with the stage.            *)
LEMMA AwaitedStep ==
    ASSUME NumbersTyped, WireTyped, Numbered, Awaited, PendingIsCurrent, [Next]_vars
    PROVE  Awaited' /\ PendingIsCurrent'
<1> USE DEF Awaited, PendingIsCurrent, Last
<1>1. ASSUME ReadResponse PROVE Awaited' /\ PendingIsCurrent'
  <2>1. UNCHANGED <<stage, next_id, result, step, phase>>
    BY <1>1 DEF ReadResponse
  <2>2. CASE Head(toClient).id \notin pending
    BY <1>1, <2>1, <2>2 DEF ReadResponse
  <2>3. CASE Head(toClient).id \in pending
    <3>1. Head(toClient).id = Last /\ pending' = {}
      BY <1>1, <2>3 DEF ReadResponse
    <3>2. Last <= performed
      BY <1>1, <3>1, Reading_One, Positions DEF Numbered, ReadResponse
    <3>3. stage # "send" /\ stage # "quiet"
      BY <2>3, <3>2 DEF Numbered, NumbersTyped
    <3> QED
      BY <2>1, <3>1, <3>3
  <2> QED
    BY <2>2, <2>3
<1>2. CASE ReaderCloses
  <2>1. /\ UNCHANGED <<stage, next_id, result, step, phase>> /\ pending' = {}
        /\ slot' = slot \/ slot' = Closed
        /\ pending = {} => slot' = slot
    BY <1>2 DEF ReaderCloses
  <2> QED
    BY <2>1
<1>3. CASE Call
  BY <1>3 DEF Call, NumbersTyped
<1>4. CASE Send \/ TimesOut
  BY <1>4 DEF Send, TimesOut
<1>5. CASE SendFails \/ Forget
  <2>1. stage' = "idle" /\ pending' = {} /\ UNCHANGED <<next_id, slot>>
    BY <1>5 DEF SendFails, Forget, Conclude
  <2> QED
    BY <2>1
<1>6. CASE Answered
  <2>1. pending' = {} /\ UNCHANGED <<next_id, slot>>
    BY <1>6 DEF Answered
  <2>2. CASE step = "snapshot" /\ slot.kind = "response" /\ slot.ok
    BY <1>6, <2>1, <2>2 DEF Answered
  <2>3. CASE ~(step = "snapshot" /\ slot.kind = "response" /\ slot.ok)
    <3>1. stage' = "idle"
      BY <1>6, <2>3 DEF Answered, Conclude
    <3> QED
      BY <2>1, <3>1
  <2> QED
    BY <2>2, <2>3
<1>7. CASE GivesUp \/ GuardRemoves
  BY <1>7 DEF GivesUp, Abandon, GuardRemoves
<1>8. CASE Quiet
  <2>1. stage' = "idle" /\ pending' = {} /\ UNCHANGED <<next_id, slot>>
    BY <1>8 DEF Quiet, Conclude
  <2> QED
    BY <2>1
<1>9. CASE /\ stage = "idle" /\ phase = "running"
           /\ UNCHANGED <<stage, next_id, result, pending, slot>>
  BY <1>9
<1>10. CASE UNCHANGED <<stage, next_id, result, pending, slot, step, phase>>
  BY <1>10
<1>11. \/ ReadResponse \/ ReaderCloses \/ Call \/ Send \/ TimesOut \/ SendFails \/ Forget
       \/ Answered \/ GivesUp \/ GuardRemoves \/ Quiet
       \/ /\ stage = "idle" /\ phase = "running"
          /\ UNCHANGED <<stage, next_id, result, pending, slot>>
       \/ UNCHANGED <<stage, next_id, result, pending, slot, step, phase>>
  BY DEF Next, Peer, Reader, Session, Command, Snapshot, LocalSteps, PeerPerforms,
         Disconnect, ReadEvent, TakeChunk, Window, Writes, ManifestWrite, Reanalyze,
         Finalize, Return, LocalFails, vars, At
<1> QED
  BY <1>1, <1>2, <1>3, <1>4, <1>5, <1>6, <1>7, <1>8, <1>9, <1>10, <1>11

(* When the last command was answered with success nothing is under way.    *)
LEMMA AllPerformed ==
    ASSUME NumbersTyped, WireTyped, Numbered, slot.kind = "response"
    PROVE  toPeer = <<>>
<1>1. performed = Last /\ \A i \in DOMAIN toPeer : performed < toPeer[i].id /\ toPeer[i].id <= Last
  BY DEF Numbered
<1>2. \A i \in DOMAIN toPeer : FALSE
  BY <1>1, Positions DEF NumbersTyped, Last
<1>3. Len(toPeer) = 0
  <2>1. Len(toPeer) \in Nat /\ DOMAIN toPeer = 1..Len(toPeer)
    BY Positions
  <2>2. Len(toPeer) > 0 => 1 \in DOMAIN toPeer
    BY <2>1
  <2> QED
    BY <1>2, <2>1, <2>2
<1> QED
  BY <1>3, EmptySeq DEF WireTyped

(* A step keeps what the inspector has yet to perform harmless.            *)
LEMMA StillAskedStep ==
    ASSUME ControlTyped, NumbersTyped, WireTyped, WireTyped', Numbered, Awaited, StillAsked,
           [Next]_vars
    PROVE  StillAsked'
<1> USE DEF StillAsked, Last
<1>1. ASSUME PeerPerforms PROVE StillAsked'
  <2>1. \A i \in DOMAIN toPeer' : i + 1 \in DOMAIN toPeer /\ toPeer'[i] = toPeer[i + 1]
    BY <1>1, Taking, Positions
  <2>2. UNCHANGED <<next_id, stage, step, phase>>
    BY <1>1 DEF PeerPerforms
  <2> QED
    BY <2>1, <2>2
<1>2. CASE Disconnect
  BY <1>2 DEF Disconnect
<1>3. ASSUME Call PROVE StillAsked'
  <2>1. phase = "running" /\ stage = "idle" /\ next_id' = next_id + 1 /\ toPeer' = toPeer
    BY <1>3 DEF Call
  <2>2. \A i \in DOMAIN toPeer : toPeer[i].id <= Last /\ toPeer[i].id \in Nat
                                 /\ toPeer[i].method \in Tolerated
    BY <2>1, Positions DEF Numbered
  <2> QED
    BY <2>1, <2>2 DEF NumbersTyped
<1>4. ASSUME Send PROVE StillAsked'
  <2>1. /\ stage = "send" /\ stage' = "await" /\ phase = "running" /\ step \in Commands
        /\ UNCHANGED <<next_id, step, phase>>
    BY <1>4 DEF Send, Awaited
  <2>2. CASE ~connected
    BY <1>4, <2>1, <2>2 DEF Send
  <2>3. CASE connected
    <3>1. /\ Len(toPeer') = Len(toPeer) + 1
          /\ \A i \in 1..Len(toPeer) : toPeer'[i] = toPeer[i]
          /\ toPeer'[Len(toPeer) + 1] = [id |-> Last, method |-> step]
      BY <1>4, <2>1, <2>3, Sending
    <3>2. \A i \in DOMAIN toPeer' : i \in DOMAIN toPeer \/ i = Len(toPeer) + 1
      BY <3>1, Positions, LenProperties DEF WireTyped
    <3> QED
      BY <2>1, <3>1, <3>2, Positions
  <2> QED
    BY <2>2, <2>3
<1>5. ASSUME Conclude(FALSE), stage # "idle", UNCHANGED <<toPeer, next_id>>
      PROVE  StillAsked'
  <2>1. CASE step \in Tolerated
    <3>1. phase = "running" /\ stage' = "idle"
      BY <1>5 DEF Conclude, Awaited
    <3>2. \A i \in DOMAIN toPeer : toPeer[i].method \in Tolerated
      BY <2>1, <3>1, <1>5
    <3> QED
      BY <1>5, <3>1, <3>2
  <2>2. CASE step \notin Tolerated
    BY <1>5, <2>2 DEF Conclude, Abandon
  <2> QED
    BY <2>1, <2>2
<1>6. ASSUME slot.kind = "response", toPeer' = toPeer PROVE StillAsked'
  BY <1>6, AllPerformed
<1>7. CASE SendFails \/ Forget
  BY <1>5, <1>7 DEF SendFails, Forget
<1>8. CASE Answered
  <2>1. CASE slot.kind = "response"
    BY <1>6, <1>8, <2>1 DEF Answered
  <2>2. CASE slot.kind # "response"
    <3>1. Conclude(FALSE) /\ stage # "idle" /\ UNCHANGED <<toPeer, next_id>>
      <4>1. Conclude(slot.kind = "response" /\ slot.ok)
        BY <1>8, <2>2 DEF Answered
      <4> QED
        BY <1>8, <2>2, <4>1 DEF Answered, Conclude
    <3> QED
      BY <1>5, <3>1
  <2> QED
    BY <2>1, <2>2
<1>9. CASE Quiet
  BY <1>6, <1>9 DEF Quiet, Awaited
<1>10. CASE TimesOut
  BY <1>10 DEF TimesOut
<1>11. CASE GivesUp
  BY <1>11 DEF GivesUp, Abandon
<1>12. CASE /\ stage = "idle" /\ stage' = stage /\ phase = "running"
            /\ UNCHANGED <<toPeer, next_id>>
  BY <1>12
<1>13. CASE UNCHANGED <<toPeer, next_id, stage, step, phase>>
  BY <1>13
<1>14. \/ PeerPerforms \/ Disconnect \/ Call \/ Send \/ SendFails \/ Forget \/ Answered
       \/ Quiet \/ TimesOut \/ GivesUp
       \/ /\ stage = "idle" /\ stage' = stage /\ phase = "running"
          /\ UNCHANGED <<toPeer, next_id>>
       \/ UNCHANGED <<toPeer, next_id, stage, step, phase>>
  BY DEF Next, Peer, Reader, Session, Command, Snapshot, LocalSteps, ReadResponse, ReadEvent,
         ReaderCloses, GuardRemoves, TakeChunk, Window, Writes, ManifestWrite, Reanalyze,
         Finalize, Return, LocalFails, vars, At
<1> QED
  BY <1>1, <1>2, <1>3, <1>4, <1>7, <1>8, <1>9, <1>10, <1>11, <1>12, <1>13, <1>14

(* The order of the steps, as far as the profiles depend on it.             *)
LEMMA Order ==
    ASSUME ControlTyped, step # "return"
    PROVE  LET next == Following[step]
           IN /\ next \in PastCpu => step \in PastCpu \/ step = "cpu_stop" \/ ~opts.cpu
              /\ next \in PastHeap => step \in PastHeap \/ step = "heap_stop" \/ ~opts.heap
              /\ next \in {"cpu_enable", "cpu_start", "cpu_stop", "save_cpu", "cpu_disable"}
                    => opts.cpu \/ step \in {"cpu_enable", "cpu_stop", "save_cpu"}
              /\ next \in {"heap_enable", "heap_start", "heap_stop", "save_heap"}
                    => opts.heap \/ step \in {"heap_enable", "heap_stop"}
              /\ next = "save_cpu" => step = "cpu_stop"
              /\ next = "save_heap" => step = "heap_stop"
              /\ next = "return" => step = "finalize"
              /\ next = "snapshot" => step \notin Reporting
              /\ step \in Reporting => next \in Reporting
<1>1. opts \in Options /\ step \in StepNames
  BY DEF ControlTyped
<1>2. opts.cpu \in BOOLEAN /\ opts.heap \in BOOLEAN /\ (opts.cpu \/ opts.heap)
  BY <1>1 DEF Options
<1> QED
  BY <1>1, <1>2 DEF StepNames, Following, AfterSetup, AfterCpu, AfterProfiles, PastCpu,
                    PastHeap, Reporting

(* No response on the wire answers a command that is yet to be performed.   *)
LEMMA FreshAnswer ==
    ASSUME NumbersTyped, WireTyped, Numbered, StillAsked, PeerPerforms
    PROVE  /\ toPeer[1].id \in Nat /\ toPeer[1].id <= Last /\ toPeer[1].method \in Commands
           /\ slot.kind # "response"
           /\ \A i \in DOMAIN toClient :
                 toClient[i].kind = "response" => toClient[i].id # Last
           /\ toPeer[1].id = Last /\ stage # "idle" => toPeer[1].method = step
           /\ \/ toPeer[1].method \in Tolerated
              \/ toPeer[1].id = Last /\ stage # "idle"
<1>1. 1 \in DOMAIN toPeer /\ phase = "running"
  BY Taking, Positions DEF PeerPerforms
<1>2. toPeer[1].id \in Nat /\ toPeer[1].method \in Commands
  BY <1>1, Positions
<1>3. performed < toPeer[1].id /\ toPeer[1].id <= Last /\ performed \in Nat /\ Last \in Nat
  BY <1>1 DEF Numbered, NumbersTyped, Last
<1>4. \A i \in DOMAIN toClient :
         toClient[i].kind = "response" =>
             toClient[i].id \in Nat /\ toClient[i].id <= performed
  BY Positions DEF Numbered
<1>5. slot.kind = "response" => performed = Last
  BY DEF Numbered
<1> QED
  BY <1>1, <1>2, <1>3, <1>4, <1>5 DEF StillAsked

(* A step keeps profilers from running outside their window.               *)
LEMMA ProfilersStep ==
    ASSUME ControlTyped, NumbersTyped, WireTyped, TypeOK, Numbered, Awaited, StillAsked,
           ProfilersStop, StopsAnswered, [Next]_vars
    PROVE  ProfilersStop'
<1> USE DEF ProfilersStop
<1>1. ASSUME PeerPerforms PROVE ProfilersStop'
  <2>1. UNCHANGED <<opts, step>>
    BY <1>1 DEF PeerPerforms
  <2>2. PICK ok \in BOOLEAN : sampling' = Sampling(toPeer[1].method, ok)
    BY <1>1, Performing, Taking
  <2>3. toPeer[1].method \in {"cpu_start", "heap_start"} => step = toPeer[1].method
    BY <1>1, FreshAnswer DEF Tolerated
  <2>4. /\ "cpu" \in sampling' => "cpu" \in sampling \/ step = "cpu_start"
        /\ "heap" \in sampling' => "heap" \in sampling \/ step = "heap_start"
    BY <2>2, <2>3 DEF Sampling
  <2> QED
    BY <2>1, <2>4 DEF PastCpu, PastHeap, Reporting
<1>2. ASSUME Proceed, step # "return", UNCHANGED <<opts, sampling>>,
             step = "cpu_stop" => "cpu" \notin sampling,
             step = "heap_stop" => "heap" \notin sampling
      PROVE  ProfilersStop'
  <2>1. step' = Following[step]
    BY <1>2 DEF Proceed
  <2> QED
    BY <1>2, <2>1, Order
<1>3. ASSUME UNCHANGED <<opts, step, sampling>> PROVE ProfilersStop'
  BY <1>3
<1>4. ASSUME Conclude(FALSE), UNCHANGED <<opts, sampling>> PROVE ProfilersStop'
  <2>1. CASE step \in Tolerated
    BY <1>2, <1>4, <2>1 DEF Conclude, Tolerated
  <2>2. CASE step \notin Tolerated
    BY <1>3, <1>4, <2>2 DEF Conclude, Abandon
  <2> QED
    BY <2>1, <2>2
<1>5. CASE SendFails \/ Forget
  BY <1>4, <1>5 DEF SendFails, Forget
<1>6. CASE Answered
  <2>1. UNCHANGED <<opts, sampling>> /\ stage # "idle" /\ step # "return"
    BY <1>6 DEF Answered, Awaited, Commands
  <2>2. CASE slot.kind = "response" /\ slot.ok
    <3>1. /\ step = "cpu_stop" => "cpu" \notin sampling
          /\ step = "heap_stop" => "heap" \notin sampling
      BY <2>1, <2>2 DEF StopsAnswered, StopAnswered, Numbered
    <3>2. CASE step = "snapshot"
      BY <1>3, <1>6, <2>1, <2>2, <3>2 DEF Answered
    <3>3. CASE step # "snapshot"
      <4>1. Proceed
        BY <1>6, <2>2, <3>3 DEF Answered, Conclude
      <4> QED
        BY <1>2, <2>1, <3>1, <4>1
    <3> QED
      BY <3>2, <3>3
  <2>3. CASE ~(slot.kind = "response" /\ slot.ok)
    <3>1. Conclude(FALSE)
      BY <1>6, <2>3 DEF Answered, Conclude
    <3> QED
      BY <1>4, <2>1, <3>1
  <2> QED
    BY <2>2, <2>3
<1>7. CASE Quiet
  <2>1. step = "snapshot" /\ Proceed /\ UNCHANGED <<opts, sampling>>
    BY <1>7 DEF Quiet, Conclude, Awaited
  <2> QED
    BY <1>2, <2>1
<1>8. CASE /\ Proceed /\ UNCHANGED <<opts, sampling>>
           /\ step \notin {"return", "cpu_stop", "heap_stop"}
  BY <1>2, <1>8
<1>9. \/ PeerPerforms \/ SendFails \/ Forget \/ Answered \/ Quiet
      \/ /\ Proceed /\ UNCHANGED <<opts, sampling>>
         /\ step \notin {"return", "cpu_stop", "heap_stop"}
      \/ UNCHANGED <<opts, step, sampling>>
  BY DEF Next, Peer, Reader, Session, Command, Snapshot, LocalSteps, Disconnect, ReadResponse,
         ReadEvent, ReaderCloses, Call, Send, TimesOut, GivesUp, Abandon, GuardRemoves,
         TakeChunk, Window, Writes, ManifestWrite, Reanalyze, Finalize, Return, LocalFails,
         vars, At
<1> QED
  BY <1>1, <1>3, <1>5, <1>6, <1>7, <1>8, <1>9

(* A step keeps answers to a stop true of the target.                      *)
LEMMA StopsAnsweredStep ==
    ASSUME ControlTyped, NumbersTyped, WireTyped, WireTyped', TypeOK, Numbered, Awaited,
           StillAsked, StopsAnswered, [Next]_vars
    PROVE  StopsAnswered'
<1> USE DEF StopsAnswered, StopAnswered
<1>1. ASSUME PeerPerforms PROVE StopsAnswered'
  <2> DEFINE c == toPeer[1]
             sent == Len(toClient)
  <2>1. UNCHANGED <<next_id, stage, step, slot>>
    BY <1>1 DEF PeerPerforms
  <2>2. PICK ok \in BOOLEAN, n \in Nat :
           /\ sampling' = Sampling(c.method, ok)
           /\ Len(toClient') = sent + n + 1
           /\ \A i \in 1..sent : toClient'[i] = toClient[i]
           /\ \A i \in (sent + 1)..(sent + n) :
                 toClient'[i] = [kind |-> "chunk", index |-> i - sent]
           /\ toClient'[sent + n + 1] = [kind |-> "response", id |-> c.id, ok |-> ok]
    BY <1>1, Performing, Taking
  <2>3. ASSUME NEW i \in DOMAIN toClient' PROVE StopAnswered(toClient[i])'
    <3>1. sent \in Nat /\ i \in 1..(sent + n + 1) /\ DOMAIN toClient = 1..sent
      BY <2>2, <2>3, Positions, LenProperties DEF WireTyped
    <3>2. i \in 1..sent \/ i \in (sent + 1)..(sent + n) \/ i = sent + n + 1
      BY <3>1
    <3>3. CASE i \in 1..sent
      <4>1. toClient'[i] = toClient[i] /\ (toClient[i].kind = "response" => toClient[i].id # Last)
        BY <1>1, <2>2, <3>1, <3>3, FreshAnswer
      <4> QED
        BY <2>1, <4>1 DEF Last
    <3>4. CASE i \in (sent + 1)..(sent + n)
      <4>1. toClient'[i] = [kind |-> "chunk", index |-> i - sent]
        BY <2>2, <3>4
      <4> QED
        BY <4>1
    <3>5. CASE i = sent + n + 1
      <4>1. toClient'[i] = [kind |-> "response", id |-> c.id, ok |-> ok]
        BY <2>2, <3>5
      <4>2. c.id = Last /\ stage # "idle" => c.method = step
        BY <1>1, FreshAnswer
      <4>3. /\ c.method = "cpu_stop" /\ ok => "cpu" \notin sampling'
            /\ c.method = "heap_stop" /\ ok => "heap" \notin sampling'
        BY <2>2 DEF Sampling
      <4> QED
        BY <2>1, <4>1, <4>2, <4>3 DEF Last
    <3> QED
      BY <3>2, <3>3, <3>4, <3>5
  <2>4. StopAnswered(slot)'
    <3>1. slot' = slot /\ slot.kind # "response"
      BY <1>1, <2>1, FreshAnswer
    <3> QED
      BY <3>1
  <2> QED
    BY <2>3, <2>4
<1>2. CASE Disconnect
  <2>1. \A i \in DOMAIN toClient' : i \in DOMAIN toClient /\ toClient'[i] = toClient[i]
    BY <1>2, Disconnecting, Positions, LenProperties DEF WireTyped
  <2>2. UNCHANGED <<slot, next_id, stage, step, sampling>>
    BY <1>2 DEF Disconnect
  <2> QED
    BY <2>1, <2>2 DEF Last
<1>3. CASE ReadResponse \/ ReadEvent
  <2>1. /\ 1 \in DOMAIN toClient /\ Head(toClient) = toClient[1]
        /\ \A i \in DOMAIN toClient' : i + 1 \in DOMAIN toClient /\ toClient'[i] = toClient[i + 1]
    <3>1. /\ DOMAIN toClient = 1..Len(toClient) /\ Len(toClient) \in Nat
          /\ DOMAIN toClient' = 1..Len(toClient')
      BY LenProperties DEF WireTyped
    <3>2. /\ Len(toClient) > 0 /\ Head(toClient) = toClient[1]
          /\ Len(toClient') = Len(toClient) - 1
          /\ \A i \in 1..Len(toClient') : toClient'[i] = toClient[i + 1]
      BY <1>3, Reading_One
    <3> QED
      BY <3>1, <3>2
  <2>2. UNCHANGED <<next_id, stage, step, sampling>> /\ (slot' = slot \/ slot' = Head(toClient))
    BY <1>3 DEF ReadResponse, ReadEvent
  <2> QED
    BY <2>1, <2>2 DEF Last
<1>4. CASE ReaderCloses
  <2>1. /\ slot' = slot \/ slot' = Closed
        /\ UNCHANGED <<toClient, next_id, stage, step, sampling>>
    BY <1>4 DEF ReaderCloses
  <2> QED
    BY <2>1 DEF Last, Closed
<1>5. CASE Call
  <2>1. /\ next_id' = next_id + 1 /\ toClient' = toClient /\ slot'.kind # "response"
    BY <1>5 DEF Call, Empty
  <2>2. \A i \in DOMAIN toClient : toClient[i].kind = "response" => toClient[i].id # next_id
    BY Positions DEF Numbered, NumbersTyped, Last
  <2> QED
    BY <2>1, <2>2 DEF Last, NumbersTyped
<1>6. CASE /\ UNCHANGED <<slot, toClient, next_id, sampling>>
           /\ stage' = "idle" \/ (stage # "idle" /\ step' = step)
  BY <1>6 DEF Last
<1>7. \/ PeerPerforms \/ Disconnect \/ ReadResponse \/ ReadEvent \/ ReaderCloses \/ Call
      \/ /\ UNCHANGED <<slot, toClient, next_id, sampling>>
         /\ stage' = "idle" \/ (stage # "idle" /\ step' = step)
  BY DEF Next, Peer, Reader, Session, Command, Snapshot, LocalSteps, Send, SendFails,
         Answered, TimesOut, Forget, Conclude, GivesUp, GuardRemoves, Quiet,
         TakeChunk, Window, Writes, ManifestWrite, Reanalyze, Finalize, Return, LocalFails,
         vars, At
<1> QED
  BY <1>1, <1>2, <1>3, <1>4, <1>5, <1>6, <1>7

(* A step keeps the files in line with the step.                           *)
LEMMA OnDiskStep ==
    ASSUME ControlTyped, Awaited, OnDisk, [Next]_vars
    PROVE  OnDisk'
<1> USE DEF OnDisk
<1> DEFINE Ended == phase = "returned" /\ code # 70
<1>1. ASSUME Proceed, step # "return", UNCHANGED opts, saved \subseteq saved',
             Following[step] \in {"save_cpu", "save_heap"} => result' = "ok",
             step = "save_cpu" => "cpu" \in saved',
             step = "save_heap" => "heap" \in saved',
             step = "finalize" =>
                disk' = "final" /\
                (("cpu" \in saved \/ ~opts.cpu) /\ ("heap" \in saved \/ ~opts.heap) => ~partial')
      PROVE  OnDisk'
  <2>1. step' = Following[step] /\ UNCHANGED <<phase, code>> /\ step \in StepNames
    BY <1>1 DEF Proceed, ControlTyped
  <2>2. opts.cpu /\ step' \in PastCpu \ {"save_cpu"} => "cpu" \in saved'
    <3>1. step' \in PastCpu \ {"save_cpu"} /\ opts.cpu => step \in PastCpu
      BY <1>1, <2>1, Order DEF Following
    <3> QED
      BY <1>1, <3>1
  <2>3. opts.heap /\ step' \in PastHeap \ {"save_heap"} => "heap" \in saved'
    <3>1. step' \in PastHeap \ {"save_heap"} /\ opts.heap => step \in PastHeap
      BY <1>1, <2>1, Order DEF Following
    <3> QED
      BY <1>1, <3>1
  <2>4. step' = "return" => disk' = "final" /\ ~partial'
    <3>1. step' = "return" => step = "finalize"
      BY <1>1, <2>1, Order
    <3>2. step = "finalize" => ("cpu" \in saved \/ ~opts.cpu) /\ ("heap" \in saved \/ ~opts.heap)
      BY DEF PastCpu, PastHeap, Reporting
    <3> QED
      BY <1>1, <3>1, <3>2
  <2>5. Ended' => step' = "return"
    BY <1>1, <2>1
  <2> QED
    BY <1>1, <2>1, <2>2, <2>3, <2>4, <2>5
<1>2. ASSUME UNCHANGED <<opts, step, saved, disk, partial>>,
             result' = result \/ step \notin {"save_cpu", "save_heap"},
             Ended' => Ended \/ step = "return"
      PROVE  OnDisk'
  BY <1>2
<1>3. ASSUME NEW ok \in BOOLEAN, Conclude(ok), step \in Commands,
             UNCHANGED <<opts, saved, disk, partial>>
      PROVE  OnDisk'
  <2>1. CASE ok \/ step \in Tolerated
    <3>1. Proceed /\ step # "return" /\ step \notin {"save_cpu", "save_heap", "finalize"}
      BY <1>3, <2>1 DEF Conclude, Commands
    <3>2. Following[step] \in {"save_cpu", "save_heap"} => step \in {"cpu_stop", "heap_stop"}
      BY <3>1, Order
    <3>3. Following[step] \in {"save_cpu", "save_heap"} => result' = "ok"
      BY <1>3, <2>1, <3>2 DEF Conclude, Tolerated
    <3> QED
      BY <1>1, <1>3, <3>1, <3>3
  <2>2. CASE ~(ok \/ step \in Tolerated)
    <3>1. Abandon /\ step \notin {"save_cpu", "save_heap"}
      BY <1>3, <2>2 DEF Conclude, Commands
    <3>2. UNCHANGED step /\ ~Ended'
      BY <3>1 DEF Abandon
    <3> QED
      BY <1>2, <1>3, <3>1, <3>2
  <2> QED
    BY <2>1, <2>2
<1>4. CASE SendFails \/ Forget
  BY <1>3, <1>4 DEF SendFails, Forget, Awaited
<1>5. CASE Quiet
  BY <1>3, <1>5 DEF Quiet, Awaited
<1>6. CASE Answered
  <2>1. step \in Commands /\ UNCHANGED <<opts, saved, disk, partial>>
    BY <1>6 DEF Answered, Awaited
  <2>2. CASE step = "snapshot" /\ slot.kind = "response" /\ slot.ok
    BY <1>2, <1>6, <2>1, <2>2 DEF Answered
  <2>3. CASE ~(step = "snapshot" /\ slot.kind = "response" /\ slot.ok)
    <3>1. Conclude(TRUE) \/ Conclude(FALSE)
      BY <1>6, <2>3 DEF Answered, Conclude
    <3> QED
      BY <1>3, <2>1, <3>1
  <2> QED
    BY <2>2, <2>3
<1>7. ASSUME NEW name, NEW s, s # "return", s # "finalize", Writes(s, name),
             s = "save_cpu" => name = "cpu", s = "save_heap" => name = "heap",
             s \in {"save_cpu", "save_heap"}
      PROVE  OnDisk'
  <2>1. result = "ok" /\ saved' = saved \cup {name}
    BY <1>7 DEF Writes, At
  <2>2. step = s /\ Proceed /\ UNCHANGED <<opts, result>>
    BY <1>7 DEF Writes, At
  <2> QED
    BY <1>1, <1>7, <2>1, <2>2
<1>8. ASSUME At("window") \/ At("create") \/ At("finish") \/ At("reanalyze"), Proceed,
             UNCHANGED <<opts, saved, result>>
      PROVE  OnDisk'
  <2>1. Following[step] \notin {"save_cpu", "save_heap"}
    BY <1>8, Order DEF At
  <2> QED
    BY <1>1, <1>8, <2>1 DEF At
<1>9. CASE Finalize
  <2>1. /\ step = "finalize" /\ Proceed /\ disk' = "final" /\ UNCHANGED <<opts, saved, result>>
        /\ partial' = ((opts.cpu /\ "cpu" \notin saved) \/ (opts.heap /\ "heap" \notin saved))
    BY <1>9 DEF Finalize, At
  <2>2. Following[step] \notin {"save_cpu", "save_heap"}
    BY <2>1, Order
  <2> QED
    BY <1>1, <2>1, <2>2
<1>10. CASE LocalSteps
  <2>1. CASE Writes("save_cpu", "cpu") \/ Writes("save_heap", "heap")
    BY <1>7, <2>1
  <2>2. CASE Window \/ ManifestWrite("create", "created") \/ ManifestWrite("finish", "finished")
             \/ Reanalyze
    BY <1>8, <2>2 DEF Window, ManifestWrite, Reanalyze
  <2>3. CASE Return
    BY <1>2, <2>3 DEF Return, At
  <2>4. CASE LocalFails
    BY <1>2, <2>4 DEF LocalFails, Abandon
  <2> QED
    BY <1>9, <1>10, <2>1, <2>2, <2>3, <2>4 DEF LocalSteps
<1>11. CASE Call \/ GivesUp
  BY <1>2, <1>11 DEF Call, GivesUp, Abandon, Commands, Subscribed
<1>12. CASE UNCHANGED <<opts, step, saved, disk, partial, result, phase, code>>
  BY <1>2, <1>12
<1>13. \/ SendFails \/ Forget \/ Quiet \/ Answered \/ LocalSteps \/ Call \/ GivesUp
       \/ UNCHANGED <<opts, step, saved, disk, partial, result, phase, code>>
  BY DEF Next, Peer, Reader, Session, Command, Snapshot, PeerPerforms, Disconnect,
         ReadResponse, ReadEvent, ReaderCloses, Send, TimesOut, GuardRemoves, TakeChunk, vars
<1> QED
  BY <1>4, <1>5, <1>6, <1>10, <1>11, <1>12, <1>13

(* A step keeps the chunks in order from the wire to the file.             *)
LEMMA SnapshotStep ==
    ASSUME IInv, WireTyped', ChunksTyped', [Next]_vars
    PROVE  InOrder' /\ FileInOrder'
<1> DEFINE Goal == InOrder' /\ FileInOrder'
<1> USE DEF Subscribed
<1>a. ControlTyped /\ NumbersTyped /\ WireTyped /\ ChunksTyped /\ TypeOK
  BY Typed DEF IInv
<1>b. Numbered /\ Awaited /\ StillAsked /\ InOrder /\ FileInOrder
  BY DEF IInv
<1>c. /\ Len(toClient) \in Nat /\ DOMAIN toClient = 1..Len(toClient)
      /\ Len(toClient') \in Nat /\ DOMAIN toClient' = 1..Len(toClient')
      /\ Len(events) \in Nat /\ DOMAIN events = 1..Len(events)
      /\ Len(file) \in Nat /\ DOMAIN file = 1..Len(file)
      /\ Last \in Nat /\ performed \in Nat /\ Chunks \in Nat
  BY <1>a, LenProperties, AttachAssumption DEF WireTyped, ChunksTyped, NumbersTyped, Last
<1>d. Len(toClient) \in Nat /\ Len(toClient') \in Nat
  BY <1>c
<1>e. /\ DOMAIN toClient = 1..Len(toClient) /\ DOMAIN toClient' = 1..Len(toClient')
      /\ DOMAIN file = 1..Len(file)
  BY <1>c
<1>1. ASSUME UNCHANGED <<file, opts, step>>, phase' = "returned" PROVE Goal
  BY <1>1, <1>b DEF InOrder, FileInOrder
<1>2. ASSUME UNCHANGED <<file, events, lagged, toClient, performed, next_id, step, phase, opts>>,
             slot' = slot \/ slot'.kind # "response",
             stage' = "idle" <=> stage = "idle"
      PROVE  Goal
  <2>1. Subscribed' = Subscribed /\ (slot'.kind = "response" => slot' = slot)
    BY <1>2
  <2>2. \A late, chunks \in Nat : Wire(late, chunks) => Wire(late, chunks)'
    BY <1>2 DEF Wire, Taken, Last
  <2>3. InOrder'
    BY <1>2, <1>b, <2>1, <2>2 DEF InOrder, Taken
  <2>4. FileInOrder'
    BY <1>2, <1>b, <2>1 DEF FileInOrder
  <2> QED
    BY <2>3, <2>4
<1>3. ASSUME Proceed, step \notin {"snapshot", "return"}, phase = "running", stage' = "idle",
             UNCHANGED <<file, toClient, opts>>
      PROVE  Goal
  <2>1. step' = Following[step] /\ phase' = phase
    BY <1>3 DEF Proceed
  <2>2. ~Subscribed /\ ~Subscribed'
    BY <1>3
  <2>3. step \in Reporting => step' \in Reporting
    BY <1>3, <1>a, <2>1, Order
  <2>4. InOrder'
    BY <2>2 DEF InOrder
  <2>5. FileInOrder'
    BY <1>3, <1>b, <2>1, <2>2, <2>3 DEF FileInOrder
  <2> QED
    BY <2>4, <2>5
<1>4. ASSUME NEW ok \in BOOLEAN, Conclude(ok), step = "snapshot" => ~ok, stage # "idle",
             UNCHANGED <<file, toClient, opts>>
      PROVE  Goal
  <2>1. step \in Commands /\ phase = "running"
    BY <1>4, <1>b DEF Awaited
  <2>2. CASE ok \/ step \in Tolerated
    <3>1. Proceed /\ stage' = "idle" /\ step \notin {"snapshot", "return"}
      BY <1>4, <2>1, <2>2 DEF Conclude, Tolerated, Commands
    <3> QED
      BY <1>3, <1>4, <2>1, <3>1
  <2>3. CASE ~(ok \/ step \in Tolerated)
    BY <1>1, <1>4, <2>3 DEF Conclude, Abandon
  <2> QED
    BY <2>2, <2>3
<1>5. ASSUME PeerPerforms PROVE Goal
  <2> DEFINE c == toPeer[1]
             sent == Len(toClient)
  <2>1. /\ UNCHANGED <<opts, file, events, lagged, step, phase, stage, next_id, slot>>
        /\ phase = "running" /\ performed' = c.id
    BY <1>5, <1>a, Taking DEF PeerPerforms
  <2>2. PICK ok \in BOOLEAN, n \in Nat :
           /\ n = IF c.method = "snapshot" /\ ok THEN Chunks ELSE 0
           /\ Len(toClient') = sent + n + 1
           /\ \A i \in 1..sent : toClient'[i] = toClient[i]
           /\ \A i \in (sent + 1)..(sent + n) :
                 toClient'[i] = [kind |-> "chunk", index |-> i - sent]
           /\ toClient'[sent + n + 1] = [kind |-> "response", id |-> c.id, ok |-> ok]
    BY <1>5, <1>a, Performing, Taking
  <2>3. /\ c.id \in Nat /\ c.id <= Last /\ slot.kind # "response"
        /\ c.id = Last /\ stage # "idle" => c.method = step
        /\ c.method \in Tolerated \/ (c.id = Last /\ stage # "idle")
    BY <1>5, <1>a, <1>b, FreshAnswer
  <2>4. performed < Last
    <3>1. 1 \in DOMAIN toPeer
      BY <1>5, <1>a, Taking, Positions
    <3>2. performed < c.id
      BY <1>b, <3>1 DEF Numbered
    <3> QED
      BY <1>c, <2>3, <3>2
  <2>5. ASSUME Subscribed, ~lagged PROVE \E late, chunks \in Nat : Wire(late, chunks)'
    <3>1. PICK late \in Nat, chunks \in Nat : Wire(late, chunks)
      BY <1>b, <2>5 DEF InOrder
    <3>2. /\ sent = late /\ Taken = 0 /\ Taken' = 0 /\ Last' = Last
          /\ \A i \in 1..late : toClient[i].kind = "response" /\ toClient[i].id < Last
      BY <2>1, <2>4, <3>1 DEF Wire, Taken, Last
    <3>3. CASE c.id = Last
      <4>1. c.method = "snapshot"
        BY <2>3, <2>5, <3>3
      <4>2. ok => n = Chunks
        BY <2>2, <4>1
      <4>3. \A i \in 1..late : toClient'[i].kind = "response" /\ toClient'[i].id < Last'
        BY <2>2, <3>2
      <4>4. \A i \in (late + 1)..(late + n) :
               toClient'[i].kind = "chunk" /\ toClient'[i].index = Taken' + (i - late)
        <5> SUFFICES ASSUME NEW i \in (late + 1)..(late + n)
                     PROVE  toClient'[i].kind = "chunk" /\ toClient'[i].index = Taken' + (i - late)
          OBVIOUS
        <5>1. toClient'[i] = [kind |-> "chunk", index |-> i - late]
          BY <2>2, <3>2
        <5>2. Taken' + (i - late) = i - late
          BY <3>2, <2>2
        <5> QED
          BY <5>1, <5>2
      <4>5. /\ Len(toClient') = late + n + 1
            /\ toClient'[Len(toClient')] = [kind |-> "response", id |-> Last, ok |-> ok]
        BY <2>2, <3>2, <3>3
      <4>6. ~(performed' < Last')
        BY <2>1, <3>2, <3>3, <1>c
      <4>7. ok => Taken' + n = Chunks
        BY <3>2, <4>2, <1>c
      <4>8. Wire(late, n)'
        BY <3>2, <4>3, <4>4, <4>5, <4>6, <4>7 DEF Wire
      <4> QED
        BY <2>2, <4>8
    <3>4. CASE c.id # Last
      <4>1. n = 0
        BY <2>2, <2>3, <3>4 DEF Tolerated
      <4>2. /\ Len(toClient') = late + 1
            /\ toClient'[late + 1] = [kind |-> "response", id |-> c.id, ok |-> ok]
        BY <2>2, <3>2, <4>1
      <4>3. c.id < Last'
        BY <2>3, <3>2, <3>4, <1>c
      <4>4. \A i \in 1..(late + 1) : toClient'[i].kind = "response" /\ toClient'[i].id < Last'
        <5> SUFFICES ASSUME NEW i \in 1..(late + 1)
                     PROVE  toClient'[i].kind = "response" /\ toClient'[i].id < Last'
          OBVIOUS
        <5>1. CASE i = late + 1
          BY <4>2, <4>3, <5>1
        <5>2. CASE i # late + 1
          <6>1. i \in 1..late
            BY <5>2
          <6> QED
            BY <2>2, <3>2, <6>1
        <5> QED
          BY <5>1, <5>2
      <4>5. Wire(late + 1, 0)'
        BY <3>2, <4>2, <4>4 DEF Wire
      <4> QED
        BY <4>5
    <3> QED
      BY <3>3, <3>4
  <2>6. InOrder'
    BY <1>b, <2>1, <2>3, <2>5 DEF InOrder
  <2>7. ASSUME ~Subscribed PROVE \A i \in DOMAIN toClient' : toClient'[i].kind = "response"
    <3>1. n = 0
      BY <2>1, <2>2, <2>3, <2>7 DEF Tolerated
    <3>2. \A i \in 1..sent : toClient[i].kind = "response"
      BY <1>b, <1>c, <2>1, <2>7 DEF FileInOrder
    <3> SUFFICES ASSUME NEW i \in 1..(sent + 1) PROVE toClient'[i].kind = "response"
      BY <1>c, <2>2, <3>1
    <3>3. CASE i = sent + 1
      BY <2>2, <3>1, <3>3
    <3>4. CASE i # sent + 1
      <4>1. i \in 1..sent
        BY <1>c, <3>4
      <4> QED
        BY <2>2, <3>2, <4>1
    <3> QED
      BY <3>3, <3>4
  <2>8. FileInOrder'
    BY <1>b, <2>1, <2>7 DEF FileInOrder
  <2> QED
    BY <2>6, <2>8
<1>6. ASSUME Disconnect PROVE Goal
  <2>0. PICK m \in Nat : m = Len(toClient')
    BY <1>d
  <2>1. /\ UNCHANGED <<opts, file, events, lagged, step, phase, stage, next_id, slot, performed>>
        /\ m <= Len(toClient) /\ \A i \in 1..m : toClient'[i] = toClient[i]
    BY <1>6, <1>a, <2>0, Disconnecting DEF Disconnect
  <2>2. ASSUME Subscribed, ~lagged PROVE \E late, chunks \in Nat : Wire(late, chunks)'
    <3>1. PICK late \in Nat, chunks \in Nat : Wire(late, chunks)
      BY <1>b, <2>2 DEF InOrder
    <3>2. Taken' = Taken /\ Last' = Last /\ performed' = performed
      BY <2>1 DEF Taken, Last
    <3>3. CASE m <= late
      <4>1. \A i \in 1..m : toClient'[i].kind = "response" /\ toClient'[i].id < Last'
        <5>1. \A i \in 1..m : i \in 1..late
          BY <1>d, <3>3
        <5> QED
          BY <2>1, <3>1, <3>2, <5>1 DEF Wire
      <4>2. performed < Last => Taken = 0
        BY <3>1 DEF Wire
      <4>3. m + 0 = m /\ m # m + 0 + 1 /\ (m + 1)..(m + 0) = {}
        BY <1>d
      <4>4. Wire(m, 0)'
        BY <2>0, <3>2, <4>1, <4>2, <4>3 DEF Wire
      <4> QED
        BY <4>4
    <3>4. CASE late < m /\ m <= late + chunks
      <4>1. m - late \in Nat /\ late + (m - late) = m /\ m # m + 1
        BY <1>d, <3>4
      <4>2. /\ \A i \in 1..late : i \in 1..m
            /\ \A i \in (late + 1)..m : i \in 1..m /\ i \in (late + 1)..(late + chunks)
        BY <1>d, <3>4
      <4>3. \A i \in 1..late : toClient'[i].kind = "response" /\ toClient'[i].id < Last'
        BY <2>1, <3>1, <3>2, <4>2 DEF Wire
      <4>4. \A i \in (late + 1)..m :
               toClient'[i].kind = "chunk" /\ toClient'[i].index = Taken' + (i - late)
        BY <2>1, <3>1, <3>2, <4>2 DEF Wire
      <4>5. performed < Last => Len(toClient) = late
        BY <3>1 DEF Wire
      <4>6. ~(performed < Last)
        BY <1>d, <2>1, <3>4, <4>5
      <4>7. Wire(late, m - late)'
        BY <2>0, <3>2, <4>1, <4>3, <4>4, <4>6 DEF Wire
      <4> QED
        BY <4>1, <4>7
    <3>5. CASE m > late + chunks
      <4>a. Len(toClient) = late + chunks \/ Len(toClient) = late + chunks + 1
        BY <3>1 DEF Wire
      <4>1. m = late + chunks + 1 /\ m = Len(toClient)
        BY <1>d, <2>1, <3>5, <4>a
      <4>b. /\ \A i \in 1..late : i \in 1..m
            /\ \A i \in (late + 1)..(late + chunks) : i \in 1..m
            /\ m \in 1..m
        BY <4>1
      <4>2. Wire(late, chunks)'
        BY <2>0, <2>1, <3>1, <3>2, <4>1, <4>b DEF Wire
      <4> QED
        BY <4>2
    <3> QED
      BY <3>3, <3>4, <3>5
  <2>3. Taken' = Taken
    BY <2>1 DEF Taken
  <2>4. InOrder'
    BY <1>b, <2>1, <2>2, <2>3 DEF InOrder
  <2>5. \A i \in DOMAIN toClient' : i \in DOMAIN toClient /\ toClient'[i] = toClient[i]
    BY <1>d, <1>e, <2>0, <2>1
  <2>6. FileInOrder'
    BY <1>b, <2>1, <2>5 DEF FileInOrder
  <2> QED
    BY <2>4, <2>6
<1>7. ASSUME ReadResponse PROVE Goal
  <2> DEFINE m == Len(toClient')
  <2>1. /\ UNCHANGED <<opts, file, events, lagged, step, phase, stage, next_id, performed>>
        /\ toClient[1].kind = "response" /\ Len(toClient) = m + 1
        /\ \A i \in 1..m : toClient'[i] = toClient[i + 1]
        /\ slot' = slot \/ (slot' = toClient[1] /\ toClient[1].id = Last)
    BY <1>7, <1>a, <1>c, Reading_One DEF ReadResponse, Last
  <2>2. Taken' = Taken /\ Last' = Last
    BY <2>1 DEF Taken, Last
  <2>3. ASSUME Subscribed, ~lagged
        PROVE  /\ \E late, chunks \in Nat : Wire(late, chunks)'
               /\ slot'.kind = "response" /\ slot'.ok => Taken' = Chunks
    <3>1. PICK late \in Nat, chunks \in Nat : Wire(late, chunks)
      BY <1>b, <2>3 DEF InOrder
    <3>2. CASE late > 0
      <4>1. late - 1 \in Nat /\ 1 \in 1..late
        BY <3>2
      <4>2. toClient[1].id < Last /\ toClient[1].id # Last
        BY <1>c, <3>1, <4>1, <2>1, <1>a, Positions DEF Wire
      <4>3. slot' = slot
        BY <2>1, <4>2
      <4>a. Len(toClient) = late + chunks \/ Len(toClient) = late + chunks + 1
        BY <3>1 DEF Wire
      <4>b. m = (late - 1) + chunks \/ m = (late - 1) + chunks + 1
        BY <1>d, <2>1, <4>a
      <4>c. \A i \in 1..(late - 1) : i \in 1..m /\ i + 1 \in 1..late
        BY <1>d, <4>1, <4>b
      <4>4. /\ m \in {(late - 1) + chunks, (late - 1) + chunks + 1}
            /\ \A i \in 1..(late - 1) : toClient'[i].kind = "response" /\ toClient'[i].id < Last'
        BY <2>1, <2>2, <3>1, <4>b, <4>c DEF Wire
      <4>5. \A i \in ((late - 1) + 1)..((late - 1) + chunks) :
               toClient'[i].kind = "chunk" /\ toClient'[i].index = Taken' + (i - (late - 1))
        <5> SUFFICES ASSUME NEW i \in ((late - 1) + 1)..((late - 1) + chunks)
                     PROVE  /\ toClient'[i].kind = "chunk"
                            /\ toClient'[i].index = Taken' + (i - (late - 1))
          OBVIOUS
        <5>1. i + 1 \in (late + 1)..(late + chunks) /\ i \in 1..m
          BY <1>d, <4>1, <4>b
        <5>2. (i + 1) - late = i - (late - 1)
          BY <5>1
        <5> QED
          BY <2>1, <2>2, <3>1, <5>1, <5>2 DEF Wire
      <4>6. m = (late - 1) + chunks + 1 =>
               /\ toClient'[m].kind = "response" /\ toClient'[m].id = Last'
               /\ toClient'[m].ok => Taken' + chunks = Chunks
        BY <1>c, <2>1, <2>2, <3>1, <4>1 DEF Wire
      <4>7. performed' < Last' => m = late - 1 /\ Taken' = 0
        BY <1>c, <2>1, <2>2, <3>1, <4>1 DEF Wire
      <4>8. Wire(late - 1, chunks)'
        BY <4>4, <4>5, <4>6, <4>7 DEF Wire
      <4> QED
        BY <1>b, <2>2, <2>3, <4>1, <4>3, <4>8 DEF InOrder
    <3>3. CASE late = 0
      <4>1. chunks = 0
        <5>1. chunks > 0 => 1 \in (late + 1)..(late + chunks)
          BY <3>3
        <5> QED
          BY <2>1, <3>1, <5>1 DEF Wire
      <4>2. m = 0 /\ Len(toClient) = 1
        BY <1>c, <2>1, <3>1, <3>3, <4>1 DEF Wire
      <4>3. /\ toClient[1].id = Last /\ ~(performed < Last)
            /\ toClient[1].ok => Taken = Chunks
        BY <1>c, <3>1, <3>3, <4>1, <4>2 DEF Wire, Taken
      <4>4. Wire(0, 0)'
        BY <2>1, <2>2, <4>2, <4>3 DEF Wire
      <4> QED
        BY <1>b, <2>1, <2>2, <2>3, <4>3, <4>4 DEF InOrder
    <3> QED
      BY <3>2, <3>3
  <2>4. InOrder'
    BY <1>b, <2>1, <2>3 DEF InOrder
  <2>5. FileInOrder'
    <3>1. \A i \in DOMAIN toClient' : i + 1 \in DOMAIN toClient /\ toClient'[i] = toClient[i + 1]
      BY <1>c, <2>1
    <3> QED
      BY <1>b, <2>1, <3>1 DEF FileInOrder
  <2> QED
    BY <2>4, <2>5
<1>8. ASSUME ReadEvent PROVE Goal
  <2> DEFINE m == Len(toClient')
  <2>1. /\ UNCHANGED <<opts, file, step, phase, stage, next_id, performed, slot>>
        /\ phase = "running" /\ toClient[1].kind = "chunk" /\ Len(toClient) = m + 1
        /\ \A i \in 1..m : toClient'[i] = toClient[i + 1]
        /\ Broadcast(toClient[1]) /\ toClient[1] \in ChunkEvents
    BY <1>8, <1>a, <1>c, Reading_One DEF ReadEvent, Reading
  <2>2. Subscribed
    BY <1>b, <1>c, <2>1 DEF FileInOrder
  <2>3. ASSUME ~lagged'
        PROVE  /\ \A i \in DOMAIN events' : events'[i].index = Len(file') + i
               /\ \E late, chunks \in Nat : Wire(late, chunks)'
    <3>1. ~lagged /\ events' = Append(events, toClient[1])
      BY <2>1, <2>2, <2>3 DEF Broadcast
    <3>2. PICK late \in Nat, chunks \in Nat : Wire(late, chunks)
      BY <1>b, <2>2, <3>1 DEF InOrder
    <3>3. late = 0 /\ chunks > 0 /\ chunks - 1 \in Nat
      <4>1. ~(late > 0)
        <5>1. late > 0 => 1 \in 1..late
          OBVIOUS
        <5> QED
          BY <2>1, <3>2, <5>1 DEF Wire
      <4>2. chunks # 0
        <5> SUFFICES ASSUME chunks = 0 PROVE FALSE
          OBVIOUS
        <5>1. late = 0
          BY <4>1
        <5>2. Len(toClient) = 1
          BY <1>c, <2>1, <3>2, <5>1 DEF Wire
        <5> QED
          BY <2>1, <3>2, <5>1, <5>2 DEF Wire
      <4> QED
        BY <4>1, <4>2
    <3>4. toClient[1].index = Taken + 1
      <4>1. 1 \in (late + 1)..(late + chunks) /\ 1 - late = 1
        BY <3>3
      <4> QED
        BY <3>2, <4>1 DEF Wire
    <3>5. /\ events \in Seq(ChunkEvents) /\ Len(events') = Len(events) + 1
          /\ DOMAIN events' = 1..(Len(events) + 1)
          /\ \A i \in 1..Len(events) : events'[i] = events[i]
          /\ events'[Len(events) + 1] = toClient[1]
      BY <1>a, <2>1, <3>1 DEF ChunksTyped
    <3>6. Taken' = Taken + 1 /\ Last' = Last
      BY <1>c, <2>1, <3>5 DEF Taken, Last
    <3>7. \A i \in DOMAIN events' : events'[i].index = Len(file') + i
      <4> SUFFICES ASSUME NEW i \in 1..(Len(events) + 1) PROVE events'[i].index = Len(file) + i
        BY <2>1, <3>5
      <4>1. CASE i = Len(events) + 1
        BY <1>c, <3>4, <3>5, <4>1 DEF Taken
      <4>2. CASE i # Len(events) + 1
        <5>1. i \in DOMAIN events
          BY <1>c, <4>2
        <5> QED
          BY <1>b, <1>c, <2>2, <3>1, <3>5, <5>1 DEF InOrder
      <4> QED
        BY <4>1, <4>2
    <3>8. ~(performed < Last)
      BY <1>c, <2>1, <3>2, <3>3 DEF Wire
    <3>9. m = chunks - 1 \/ m = chunks
      <4>1. Len(toClient) = late + chunks \/ Len(toClient) = late + chunks + 1
        BY <3>2 DEF Wire
      <4> QED
        BY <1>d, <2>1, <3>3, <4>1
    <3>10. \A i \in 1..(chunks - 1) :
              toClient'[i].kind = "chunk" /\ toClient'[i].index = Taken' + i
      <4> SUFFICES ASSUME NEW i \in 1..(chunks - 1)
                   PROVE  toClient'[i].kind = "chunk" /\ toClient'[i].index = Taken' + i
        OBVIOUS
      <4>1. i + 1 \in (late + 1)..(late + chunks) /\ (i + 1) - late = i + 1 /\ i \in 1..m
        BY <1>d, <3>3, <3>9
      <4>2. toClient'[i].kind = "chunk" /\ toClient'[i].index = Taken + (i + 1)
        BY <2>1, <3>2, <4>1 DEF Wire
      <4>3. Taken + (i + 1) = (Taken + 1) + i
        BY <1>c DEF Taken
      <4> QED
        BY <3>6, <4>2, <4>3
    <3>11. m = chunks =>
              /\ toClient'[m].kind = "response" /\ toClient'[m].id = Last
              /\ toClient'[m].ok => Taken' + (chunks - 1) = Chunks
      <4> SUFFICES ASSUME m = chunks
                   PROVE  /\ toClient'[m].kind = "response" /\ toClient'[m].id = Last
                          /\ toClient'[m].ok => Taken' + (chunks - 1) = Chunks
        OBVIOUS
      <4>1. Len(toClient) = late + chunks + 1 /\ toClient'[m] = toClient[Len(toClient)]
        BY <1>c, <2>1, <3>3
      <4>2. Taken' + (chunks - 1) = Taken + chunks
        BY <1>c, <3>6 DEF Taken
      <4> QED
        BY <3>2, <4>1, <4>2 DEF Wire
    <3>12. Wire(0, chunks - 1)'
      BY <2>1, <3>3, <3>6, <3>8, <3>9, <3>10, <3>11 DEF Wire
    <3> QED
      BY <3>3, <3>7, <3>12
  <2>4. slot.kind # "response"
    BY <1>b, <1>c, <2>1 DEF Numbered
  <2>5. InOrder'
    BY <2>1, <2>3, <2>4 DEF InOrder
  <2>6. FileInOrder'
    BY <1>b, <2>1, <2>2 DEF FileInOrder
  <2> QED
    BY <2>5, <2>6
<1>9. ASSUME Call PROVE Goal
  <2>1. /\ UNCHANGED <<opts, file, toClient, step, phase, performed>>
        /\ stage = "idle" /\ stage' = "send" /\ phase = "running" /\ slot' = Empty
        /\ events' = <<>> /\ Last' = Last + 1
    BY <1>9, <1>a DEF Call, NumbersTyped, Last
  <2>2. ASSUME step = "snapshot" PROVE \E late, chunks \in Nat : Wire(late, chunks)'
    <3>1. PICK n \in Nat : n = Len(toClient)
      BY <1>d
    <3>2. file = <<>>
      BY <1>b, <2>1, <2>2 DEF FileInOrder, Reporting
    <3>3. Taken' = 0 /\ Len(toClient') = n
      BY <2>1, <3>1, <3>2 DEF Taken
    <3>4. \A i \in 1..n : toClient'[i].kind = "response" /\ toClient'[i].id < Last'
      <4> SUFFICES ASSUME NEW i \in 1..n
                   PROVE  toClient'[i].kind = "response" /\ toClient'[i].id < Last'
        OBVIOUS
      <4>1. i \in DOMAIN toClient /\ toClient'[i] = toClient[i]
        BY <1>e, <2>1, <3>1
      <4>2. toClient[i].kind = "response"
        BY <1>b, <2>1, <4>1 DEF FileInOrder
      <4>3. toClient[i].id \in Nat /\ toClient[i].id <= performed /\ performed <= Last
        BY <1>a, <1>b, <4>1, <4>2, Positions DEF Numbered
      <4>4. toClient[i].id < Last'
        BY <1>c, <2>1, <4>3
      <4> QED
        BY <4>1, <4>2, <4>4
    <3>5. n + 0 = n /\ n # n + 0 + 1 /\ (n + 1)..(n + 0) = {}
      BY <3>1
    <3>6. Wire(n, 0)'
      BY <3>3, <3>4, <3>5 DEF Wire
    <3> QED
      BY <3>6
  <2>3. DOMAIN events' = {} /\ slot'.kind # "response"
    BY <2>1 DEF Empty
  <2>4. InOrder'
    BY <2>1, <2>2, <2>3 DEF InOrder
  <2>5. FileInOrder'
    BY <1>b, <2>1 DEF FileInOrder
  <2> QED
    BY <2>4, <2>5
<1>10. ASSUME TakeChunk PROVE Goal
  <2>1. /\ UNCHANGED <<opts, toClient, step, phase, stage, performed, next_id, slot, lagged>>
        /\ Subscribed /\ ~lagged /\ events # <<>>
        /\ file' = Append(file, Head(events).index) /\ events' = Tail(events)
    BY <1>10 DEF TakeChunk
  <2>2. /\ events \in Seq(ChunkEvents) /\ file \in Seq(1..Chunks)
        /\ events' \in Seq(ChunkEvents) /\ file' \in Seq(1..Chunks)
    BY <1>a DEF ChunksTyped
  <2>3. /\ Head(events) = events[1] /\ Len(events') = Len(events) - 1
        /\ \A i \in 1..Len(events') : events'[i] = events[i + 1]
        /\ Len(events) > 0
    BY <2>1, <2>2, HeadTailProperties, EmptySeq
  <2>4. /\ DOMAIN events' = 1..Len(events') /\ DOMAIN file' = 1..Len(file')
        /\ Len(events') \in Nat
    BY <2>2, LenProperties
  <2>5. \A i \in DOMAIN events : events[i].index = Len(file) + i
    BY <1>b, <2>1 DEF InOrder
  <2>6. events[1].index = Len(file) + 1
    BY <1>c, <2>3, <2>5
  <2>7. /\ Len(file') = Len(file) + 1 /\ file'[Len(file) + 1] = Len(file) + 1
        /\ \A i \in 1..Len(file) : file'[i] = file[i]
    BY <2>1, <2>2, <2>3, <2>6
  <2>8. Taken' = Taken /\ Last' = Last
    BY <1>c, <2>1, <2>3, <2>7 DEF Taken, Last
  <2>9. \A late, chunks \in Nat : Wire(late, chunks) => Wire(late, chunks)'
    BY <2>1, <2>8 DEF Wire
  <2>10. \A i \in DOMAIN events' : events'[i].index = Len(file') + i
    <3> SUFFICES ASSUME NEW i \in DOMAIN events' PROVE events'[i].index = Len(file') + i
      OBVIOUS
    <3>1. i \in 1..Len(events') /\ i \in Nat /\ i + 1 \in DOMAIN events
      BY <1>c, <2>3, <2>4
    <3>2. events'[i].index = Len(file) + (i + 1)
      BY <2>3, <2>5, <3>1
    <3> QED
      BY <1>c, <2>7, <3>1, <3>2
  <2>11. InOrder'
    BY <1>b, <2>1, <2>8, <2>9, <2>10 DEF InOrder
  <2>12. \A i \in DOMAIN file' : file'[i] = i
    <3> SUFFICES ASSUME NEW i \in 1..(Len(file) + 1) PROVE file'[i] = i
      BY <2>4, <2>7
    <3>1. CASE i = Len(file) + 1
      BY <2>7, <3>1
    <3>2. CASE i # Len(file) + 1
      <4>1. i \in 1..Len(file)
        BY <1>c, <3>2
      <4> QED
        BY <1>b, <1>e, <2>7, <4>1 DEF FileInOrder
    <3> QED
      BY <3>1, <3>2
  <2>13. FileInOrder'
    BY <2>1, <2>12 DEF FileInOrder
  <2> QED
    BY <2>11, <2>13
<1>11. ASSUME Quiet PROVE Goal
  <2>1. /\ UNCHANGED <<opts, file, toClient>> /\ stage = "quiet" /\ phase = "running"
        /\ Conclude(TRUE)
    BY <1>11 DEF Quiet
  <2>2. step = "snapshot" /\ slot.kind = "response"
    BY <1>b, <2>1 DEF Awaited
  <2>3. stage' = "idle" /\ step' = Following[step] /\ phase' = phase
    BY <2>1 DEF Conclude, Proceed
  <2>4. step' = "heap_disable"
    BY <2>2, <2>3 DEF Following
  <2>5. toClient = <<>>
    BY <1>b, <2>2 DEF Numbered
  <2>6. InOrder'
    BY <2>3 DEF InOrder
  <2>7. FileInOrder'
    <3>1. DOMAIN toClient' = {}
      BY <2>1, <2>5
    <3> QED
      BY <1>b, <2>1, <2>4, <3>1 DEF FileInOrder, Reporting
  <2> QED
    BY <2>6, <2>7
<1>12. ASSUME Answered PROVE Goal
  <2> DEFINE ok == slot.kind = "response" /\ slot.ok
  <2>1. /\ UNCHANGED <<opts, file, toClient, events, lagged, performed, next_id, slot>>
        /\ stage = "await"
    BY <1>12 DEF Answered, Last
  <2>2. CASE step = "snapshot" /\ ok
    <3>1. stage' = "quiet" /\ UNCHANGED <<step, phase>>
      BY <1>12, <2>2 DEF Answered
    <3> QED
      BY <1>2, <2>1, <3>1
  <2>3. CASE ~(step = "snapshot" /\ ok)
    <3>1. Conclude(ok) /\ (step = "snapshot" => ~ok)
      BY <1>12, <2>3 DEF Answered
    <3>2. CASE ok
      <4>1. Conclude(TRUE) /\ step # "snapshot"
        BY <3>1, <3>2 DEF Conclude
      <4> QED
        BY <1>4, <2>1, <4>1
    <3>3. CASE ~ok
      <4>1. Conclude(FALSE)
        BY <3>1, <3>3 DEF Conclude
      <4> QED
        BY <1>4, <2>1, <4>1
    <3> QED
      BY <3>2, <3>3
  <2> QED
    BY <2>2, <2>3
<1>13. ASSUME SendFails \/ Forget PROVE Goal
  <2>1. Conclude(FALSE) /\ stage # "idle" /\ UNCHANGED <<file, toClient, opts>>
    BY <1>13 DEF SendFails, Forget
  <2> QED
    BY <1>4, <2>1
<1>14. ASSUME LocalSteps PROVE Goal
  <2>1. CASE Return \/ LocalFails
    BY <1>1, <2>1 DEF Return, LocalFails, Abandon
  <2>2. CASE ~(Return \/ LocalFails)
    <3>1. /\ Proceed /\ step \notin {"snapshot", "return"} /\ phase = "running"
          /\ stage' = "idle" /\ UNCHANGED <<file, toClient, opts>>
      BY <1>14, <2>2 DEF LocalSteps, ManifestWrite, Window, Writes, Reanalyze, Finalize, At
    <3> QED
      BY <1>3, <3>1
  <2> QED
    BY <2>1, <2>2
<1>15. ASSUME GivesUp PROVE Goal
  BY <1>1, <1>15 DEF GivesUp, Abandon
<1>16. ASSUME Send \/ TimesOut \/ ReaderCloses \/ GuardRemoves \/ UNCHANGED vars PROVE Goal
  <2>1. /\ UNCHANGED <<file, events, lagged, toClient, performed, next_id, step, phase, opts>>
        /\ stage' = "idle" <=> stage = "idle"
    BY <1>16 DEF Send, TimesOut, ReaderCloses, GuardRemoves, vars
  <2>2. slot' = slot \/ slot'.kind # "response"
    BY <1>16 DEF Send, TimesOut, ReaderCloses, GuardRemoves, vars, Closed
  <2> QED
    BY <1>2, <2>1, <2>2
<1> QED
  BY <1>5, <1>6, <1>7, <1>8, <1>9, <1>10, <1>11, <1>12, <1>13, <1>14, <1>15, <1>16
     DEF Next, Peer, Reader, Session, Command, Snapshot
---------------------------------------------------------------------------
(* A session starts in the invariant.                                      *)
LEMMA InitInv == Init => IInv
<1> SUFFICES ASSUME Init PROVE IInv
  OBVIOUS
<1> USE AttachAssumption DEF Init
<1>1. TypeOK
  <2>1. ControlTyped
    BY DEF ControlTyped, StepNames
  <2>2. NumbersTyped
    <3>1. next_id \in Nat \ {0} /\ pending = {} /\ performed \in Nat
      OBVIOUS
    <3> QED
      BY <3>1 DEF NumbersTyped
  <2>3. WireTyped /\ ChunksTyped
    BY DEF WireTyped, ChunksTyped
  <2> QED
    BY <2>1, <2>2, <2>3, Typed
<1>2. Numbered /\ Awaited /\ StillAsked /\ StopsAnswered
  BY DEF Numbered, Awaited, StillAsked, StopsAnswered, StopAnswered, Last, Empty
<1>3. ProfilersStop /\ OnDisk
  BY DEF ProfilersStop, OnDisk, PastCpu, PastHeap, Reporting
<1>4. InOrder /\ FileInOrder /\ PendingIsCurrent
  BY DEF InOrder, FileInOrder, PendingIsCurrent, Subscribed, Reporting
<1> QED
  BY <1>1, <1>2, <1>3, <1>4 DEF IInv

(* A step keeps the invariant.                                             *)
LEMMA StepInv == IInv /\ [Next]_vars => IInv'
<1> SUFFICES ASSUME IInv, [Next]_vars PROVE IInv'
  OBVIOUS
<1>1. /\ TypeOK /\ Numbered /\ Awaited /\ StillAsked /\ ProfilersStop
      /\ StopsAnswered /\ OnDisk /\ PendingIsCurrent
  BY DEF IInv
<1>2. ControlTyped /\ NumbersTyped /\ WireTyped /\ ChunksTyped
  BY <1>1, Typed
<1>3. TypeOK' /\ WireTyped' /\ ChunksTyped'
  BY <1>1, <1>2, TypeStep, WireTypedStep, ChunksTypedStep
<1>4. Numbered' /\ StillAsked'
  BY <1>1, <1>2, <1>3, NumberedStep, StillAskedStep
<1>5. Awaited' /\ PendingIsCurrent'
  BY <1>1, <1>2, AwaitedStep
<1>6. ProfilersStop' /\ StopsAnswered' /\ OnDisk'
  BY <1>1, <1>2, <1>3, ProfilersStep, StopsAnsweredStep, OnDiskStep
<1>7. InOrder' /\ FileInOrder'
  BY <1>3, SnapshotStep
<1> QED
  BY <1>3, <1>4, <1>5, <1>6, <1>7 DEF IInv

(* The invariant holds throughout.                                         *)
LEMMA Invariance == Spec => []IInv
BY InitInv, StepInv, PTL DEF Spec

(* The state of a session is always of its type, whatever the inspector     *)
(* does: ids, messages and chunks that execute and CdpClient keep.          *)
THEOREM TypeCorrect == Spec => []TypeOK
<1>1. IInv => TypeOK
  BY DEF IInv
<1> QED
  BY <1>1, Invariance, PTL

(* CdpClient's pending map holds nothing but the last command, and nothing  *)
(* while the session goes on from one.                                       *)
THEOREM Pending_IsCurrent == Spec => []PendingIsCurrent
<1>1. IInv => PendingIsCurrent
  BY DEF IInv
<1> QED
  BY <1>1, Invariance, PTL

(* When execute returns without an error, the manifest is final and         *)
(* complete, the profiles asked for are on disk and no profiler runs.       *)
THEOREM Success_IsWhole == Spec => []SuccessIsWhole
<1>1. IInv => SuccessIsWhole
  <2> SUFFICES ASSUME IInv, phase = "returned", code # 70
               PROVE  /\ disk = "final" /\ ~partial
                      /\ opts.cpu => "cpu" \in saved
                      /\ opts.heap => "heap" \in saved
                      /\ sampling = {}
    BY DEF SuccessIsWhole
  <2>1. OnDisk /\ ProfilersStop /\ sampling \subseteq {"cpu", "heap"}
    BY DEF IInv, TypeOK
  <2>2. step = "return"
    BY <2>1 DEF OnDisk
  <2>3. step \in PastCpu \ {"save_cpu"} /\ step \in PastHeap \ {"save_heap"}
    BY <2>2 DEF PastCpu, PastHeap, Reporting
  <2>4. "cpu" \notin sampling /\ "heap" \notin sampling
    BY <2>1, <2>3 DEF ProfilersStop
  <2> QED
    BY <2>1, <2>2, <2>3, <2>4 DEF OnDisk
<1> QED
  BY <1>1, Invariance, PTL

(* The file that capture_heap_snapshot accepts is a gapless beginning of    *)
(* the snapshot, in order, however many chunks there are and however far    *)
(* the loop is behind the reader; and if the receiver did not lag, the rest *)
(* is just what the broadcast held when the deadline won.                    *)
THEOREM Snapshot_HasNoHole == Spec => SnapshotHasNoHole
<1> DEFINE Accepted == /\ \A i \in DOMAIN file : file[i] = i
                       /\ Len(file) + Len(events) = Chunks \/ lagged
           Accepting == step = "snapshot" /\ step' # step => Accepted
<1>1. ASSUME IInv, [Next]_vars PROVE Accepting
  <2> SUFFICES ASSUME step = "snapshot", step' # step PROVE Accepted
    OBVIOUS
  <2>1. Awaited /\ InOrder /\ FileInOrder
    BY <1>1 DEF IInv
  <2>2. Quiet
    <3>1. ASSUME Conclude(FALSE) PROVE FALSE
      BY <3>1 DEF Conclude, Abandon, Tolerated
    <3>2. ~(SendFails \/ Forget)
      BY <3>1 DEF SendFails, Forget
    <3>3. ASSUME Answered PROVE FALSE
      <4> DEFINE ok == slot.kind = "response" /\ slot.ok
      <4>1. ~ok /\ Conclude(ok)
        BY <3>3 DEF Answered
      <4>2. Conclude(FALSE)
        BY <4>1 DEF Conclude
      <4> QED
        BY <3>1, <4>2
    <3>4. ~LocalSteps
      BY DEF LocalSteps, ManifestWrite, Window, Writes, Reanalyze, Finalize, At, Return, LocalFails,
             Abandon
    <3>5. ~(Peer \/ Reader \/ UNCHANGED vars)
      BY DEF Peer, Reader, PeerPerforms, Disconnect, ReadResponse, ReadEvent, ReaderCloses, vars
    <3>6. ~(Call \/ Send \/ TimesOut \/ TakeChunk \/ GivesUp \/ GuardRemoves)
      BY DEF Call, Send, TimesOut, TakeChunk, GivesUp, GuardRemoves, Abandon
    <3> QED
      BY <1>1, <3>2, <3>3, <3>4, <3>5, <3>6 DEF Next, Session, Command, Snapshot
  <2>3. Subscribed /\ slot.kind = "response" /\ slot.ok
    BY <2>1, <2>2 DEF Quiet, Awaited, Subscribed
  <2> QED
    BY <2>1, <2>3 DEF InOrder, FileInOrder, Taken
<1> QED
  BY <1>1, Invariance, PTL DEF Spec, SnapshotHasNoHole

(* The pending map, the reader and the timeouts implement the calls of      *)
(* InspectorRpc, whatever is lost or late: a success is the inspector's     *)
(* answer to the very command that was asked.                                *)
THEOREM Refinement == Spec => RpcSpec
<1>1. Init => Rpc!Init
  BY DEF Init, Rpc!Init, Outcome
<1>2. ASSUME IInv, [Next]_vars
      PROVE  [Rpc!Next]_(Rpc!vars)
  <2> DEFINE Waits == stage \in {"send", "await", "forget"}
  <2>1. /\ next_id \in Nat \ {0} /\ performed \in Nat /\ Numbered
        /\ stage # "idle" => next_id # 1
        /\ Waits => result = "none"
        /\ stage = "quiet" => result = "ok"
        /\ stage \in {"idle", "send", "await", "forget", "quiet"}
    BY <1>2 DEF IInv, TypeOK, Awaited, Last
  <2>2. ASSUME UNCHANGED <<next_id, performed>>, Outcome' = Outcome
        PROVE  UNCHANGED Rpc!vars
    BY <2>2 DEF Rpc!vars
  <2>3. ASSUME Waits, UNCHANGED <<next_id, performed>>, stage' = "idle", result' # "ok"
        PROVE  Rpc!Fail
    <3>1. Outcome = "waiting" /\ Outcome' = "error"
      BY <2>1, <2>3 DEF Outcome
    <3> QED
      BY <2>3, <3>1 DEF Rpc!Fail
  <2>4. CASE Call
    <3>1. /\ stage = "idle" /\ stage' = "send" /\ next_id' = next_id + 1
          /\ performed' = performed
      BY <2>4 DEF Call
    <3>2. Outcome # "waiting" /\ Outcome' = "waiting"
      BY <2>1, <3>1 DEF Outcome
    <3>3. next_id' - 1 = (next_id - 1) + 1
      BY <2>1, <3>1
    <3>4. Rpc!Ask
      BY <3>1, <3>2, <3>3 DEF Rpc!Ask
    <3> QED
      BY <3>4 DEF Rpc!Next
  <2>5. CASE PeerPerforms
    <3>1. performed' = toPeer[1].id /\ UNCHANGED <<next_id, stage, result>>
      BY <1>2, <2>5, Typed, Taking DEF IInv, PeerPerforms
    <3>2. 1 \in DOMAIN toPeer /\ toPeer[1].id \in Nat
      BY <1>2, <2>5, Typed, Taking, Positions DEF IInv
    <3>3. performed < toPeer[1].id /\ toPeer[1].id <= next_id - 1
      BY <2>1, <3>2 DEF Numbered, Last
    <3>4. performed' \in (performed + 1)..(next_id - 1)
      BY <2>1, <3>1, <3>2, <3>3
    <3>5. UNCHANGED <<next_id - 1, Outcome>>
      BY <3>1 DEF Outcome
    <3> QED
      BY <3>4, <3>5 DEF Rpc!Next, Rpc!Perform
  <2>6. CASE Send \/ TimesOut
    <3>1. /\ UNCHANGED <<next_id, performed, result>> /\ Waits
          /\ stage' \in {"await", "forget"}
      BY <2>6 DEF Send, TimesOut
    <3>2. Outcome' = Outcome
      BY <3>1 DEF Outcome
    <3> QED
      BY <2>2, <3>1, <3>2
  <2>7. CASE SendFails \/ Forget
    <3>1. /\ UNCHANGED <<next_id, performed>> /\ Waits /\ stage' = "idle"
          /\ result' = "error"
      BY <2>7 DEF SendFails, Forget, Conclude
    <3> QED
      BY <2>3, <3>1 DEF Rpc!Next
  <2>8. CASE Answered
    <3> DEFINE ok == slot.kind = "response" /\ slot.ok
    <3>1. UNCHANGED <<next_id, performed>> /\ stage = "await"
      BY <2>8 DEF Answered
    <3>2. CASE ok
      <4>1. stage' \in {"quiet", "idle"} /\ result' = "ok"
        <5>1. CASE step = "snapshot"
          BY <2>8, <3>2, <5>1 DEF Answered
        <5>2. CASE step # "snapshot"
          <6>1. Conclude(ok)
            BY <2>8, <5>2 DEF Answered
          <6> QED
            BY <3>2, <6>1 DEF Conclude
        <5> QED
          BY <5>1, <5>2
      <4>2. Outcome = "waiting" /\ Outcome' = "ok"
        BY <2>1, <3>1, <4>1 DEF Outcome
      <4>3. performed = next_id - 1
        BY <2>1, <3>2 DEF Numbered, Last
      <4> QED
        BY <3>1, <4>2, <4>3 DEF Rpc!Next, Rpc!Succeed
    <3>3. CASE ~ok
      <4>1. Conclude(ok)
        BY <2>8, <3>3 DEF Answered
      <4>2. stage' = "idle" /\ result' = "error"
        BY <3>3, <4>1 DEF Conclude
      <4> QED
        BY <2>3, <3>1, <4>2 DEF Rpc!Next
    <3> QED
      BY <3>2, <3>3
  <2>9. CASE GivesUp
    <3>1. /\ UNCHANGED <<next_id, performed, result>> /\ stage' = "idle"
          /\ stage # "idle"
      BY <2>9 DEF GivesUp, Subscribed
    <3>2. CASE stage = "quiet"
      <4>1. Outcome' = Outcome
        BY <2>1, <3>1, <3>2 DEF Outcome
      <4> QED
        BY <2>2, <3>1, <4>1
    <3>3. CASE stage # "quiet"
      <4>1. Waits
        BY <2>1, <3>1, <3>3
      <4>2. result' # "ok"
        BY <2>1, <3>1, <4>1
      <4> QED
        BY <2>3, <3>1, <4>1, <4>2 DEF Rpc!Next
    <3> QED
      BY <3>2, <3>3
  <2>10. CASE Quiet
    <3>1. /\ UNCHANGED <<next_id, performed>> /\ stage = "quiet" /\ stage' = "idle"
          /\ result' = "ok"
      BY <2>10 DEF Quiet, Conclude
    <3>2. Outcome' = Outcome
      BY <2>1, <3>1 DEF Outcome
    <3> QED
      BY <2>2, <3>1, <3>2
  <2>11. CASE UNCHANGED <<next_id, performed, stage, result>>
    <3>1. Outcome' = Outcome
      BY <2>11 DEF Outcome
    <3> QED
      BY <2>2, <2>11, <3>1
  <2>12. \/ Call \/ PeerPerforms \/ Send \/ TimesOut \/ SendFails \/ Forget \/ Answered
         \/ GivesUp \/ Quiet \/ UNCHANGED <<next_id, performed, stage, result>>
    <3>1. CASE LocalSteps
      BY <3>1 DEF LocalSteps, Window, ManifestWrite, Writes, Reanalyze, Finalize, Return,
                  LocalFails
    <3>2. CASE Disconnect \/ ReadResponse \/ ReadEvent \/ ReaderCloses \/ TakeChunk
                 \/ GuardRemoves \/ UNCHANGED vars
      BY <3>2 DEF Disconnect, ReadResponse, ReadEvent, ReaderCloses, TakeChunk,
                  GuardRemoves, vars
    <3> QED
      BY <1>2, <3>1, <3>2 DEF Next, Session, Command, Snapshot, Reader, Peer
  <2> QED
    BY <2>4, <2>5, <2>6, <2>7, <2>8, <2>9, <2>10, <2>11, <2>12
<1> QED
  BY <1>1, <1>2, Invariance, PTL DEF Spec, RpcSpec, Rpc!Spec
===========================================================================
