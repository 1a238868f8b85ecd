------------------------ MODULE ProcessSettleProofs ------------------------
(* What settling guarantees for any number of processes, any number of      *)
(* generations, and any number of checks.                                   *)
EXTENDS ProcessSettle, TLAPS

Live == alive \cap Marked
Grace == {"list", "read", "check"}
After == {"relist", "reread", "recheck"}

(* Identities and listings are of processes that did run.                   *)
OnlyBorn ==
    /\ tracked \subseteq born /\ known \subseteq born
    /\ \A s \in Scanners : listed[s] \subseteq born

(* Who drives the settling scan, and what is known of the loop's counters.  *)
Control ==
    /\ ("settle" \in scanning) <=> pc \in {"read", "reread"}
    /\ pc \in {"running", "recorded"} => empty_checks = 0
    /\ pc \in {"kill"} \cup After => forced

(* After k empty scans in a row every marked process is k forks away from   *)
(* those that ran when settling began; one that is no further is in the     *)
(* listing and, once environments were read, among the remaining.           *)
Generations ==
    /\ pc \in Grace => \A p \in Live : gen[p] >= empty_checks
    /\ pc = "read" =>
          \A p \in Live : gen[p] <= empty_checks => p \in listed["settle"]
    /\ pc = "check" => \A p \in Live : gen[p] <= empty_checks => p \in remaining
    /\ pc = "kill" => \A p \in Live : gen[p] = 0 => p \in remaining
    /\ pc \in After => \A p \in Live : gen[p] >= 1

(* The same for the processes the tracker knew from the start.              *)
KnownInSight ==
    /\ pc \in Grace => known \subseteq tracked
    /\ pc = "read" => alive \cap known \subseteq listed["settle"]
    /\ pc \in {"check", "kill"} => alive \cap known \subseteq remaining
    /\ pc \in After => alive \cap known = {}

IInv ==
    /\ TypeOK /\ OnlyBorn /\ Control /\ Generations /\ KnownInSight
    /\ NoElderSurvives /\ KnownSettled /\ EmptyChecksEarnt
---------------------------------------------------------------------------
USE DEF procVars, scanVars, loopVars

(* The descent along listed parents stays in the listing and has its seed.  *)
LEMMA DescendBounds ==
    ASSUME NEW s, NEW seed, seed \subseteq listed[s]
    PROVE  seed \subseteq Descend(seed, s) /\ Descend(seed, s) \subseteq listed[s]
BY DEF Descend

LEMMA TreeBounds ==
    ASSUME NEW s
    PROVE  /\ Tree(s) \subseteq listed[s]
           /\ listed[s] \cap (tracked \cup Live) \subseteq Tree(s)
<1> DEFINE seed == listed[s] \cap (tracked \cup (alive \cap Marked))
<1>1. seed \subseteq listed[s]
  OBVIOUS
<1>2. seed \subseteq Descend(seed, s) /\ Descend(seed, s) \subseteq listed[s]
  BY <1>1, DescendBounds
<1> QED
  BY <1>2 DEF Tree, Live

LEMMA TypeStep == ASSUME TypeOK, [Next]_vars PROVE TypeOK'
<1> USE SettleAssumption DEF TypeOK, Scanners
<1>1. ASSUME NEW p \in Procs, NEW c \in Procs, Fork(p, c) PROVE TypeOK'
  BY <1>1 DEF Fork
<1>2. ASSUME NEW p \in Procs, Exit(p) PROVE TypeOK'
  BY <1>2 DEF Exit
<1>3. CASE SamplerLists
  BY <1>3 DEF SamplerLists, List
<1>4. CASE SamplerRecords
  BY <1>4, TreeBounds DEF SamplerRecords, ReadEnvironments
<1>5. CASE RecordTelemetry
  BY <1>5 DEF RecordTelemetry
<1>6. CASE Begin
  BY <1>6 DEF Begin
<1>7. CASE ListTree
  BY <1>7 DEF ListTree, List
<1>8. CASE ReadTree
  BY <1>8, TreeBounds DEF ReadTree, ReadEnvironments
<1>9. CASE CheckNonEmpty
  BY <1>9 DEF CheckNonEmpty
<1>10. CASE CheckEmpty
  BY <1>10 DEF CheckEmpty
<1>11. CASE CheckRefused
  BY <1>11 DEF CheckRefused
<1>12. CASE Deadline
  BY <1>12 DEF Deadline
<1>13. CASE KillOne
  BY <1>13 DEF KillOne
<1>14. CASE AllKilled
  BY <1>14 DEF AllKilled
<1>15. CASE Recheck
  BY <1>15 DEF Recheck
<1>16. CASE Timer
  BY <1>16 DEF Timer
<1>17. CASE UNCHANGED vars
  BY <1>17 DEF vars
<1> QED
  BY <1>1, <1>2, <1>3, <1>4, <1>5, <1>6, <1>7, <1>8, <1>9, <1>10, <1>11,
     <1>12, <1>13, <1>14, <1>15, <1>16, <1>17
  DEF Next, Processes, Sampler, Settle

LEMMA SafetyStep ==
    ASSUME IInv, TypeOK', [Next]_vars
    PROVE  /\ OnlyBorn' /\ Control' /\ Generations' /\ KnownInSight'
           /\ NoElderSurvives' /\ KnownSettled' /\ EmptyChecksEarnt'
<1> USE SettleAssumption
    DEF TypeOK, Scanners, IInv, OnlyBorn, Control, Generations, KnownInSight,
        NoElderSurvives, KnownSettled, EmptyChecksEarnt, Live, Grace, After
<1>1. ASSUME NEW p \in Procs, NEW c \in Procs, Fork(p, c)
      PROVE  /\ OnlyBorn' /\ Control' /\ Generations' /\ KnownInSight'
             /\ NoElderSurvives' /\ KnownSettled' /\ EmptyChecksEarnt'
  <2>1. /\ alive' = alive \cup {c} /\ c \notin born /\ born' = born \cup {c}
        /\ p \in alive /\ (c \in Marked => p \in Live)
        /\ UNCHANGED <<pc, scanVars, loopVars, tracked, remaining>>
    BY <1>1 DEF Fork
  <2>2. /\ gen'[c] = gen[p] + 1
        /\ \A q \in Procs \ {c} : gen'[q] = gen[q]
    BY <1>1 DEF Fork
  <2>3. \A q \in Live' : q \in Live \/ (q = c /\ p \in Live /\ gen'[q] = gen[p] + 1)
    BY <2>1, <2>2
  <2>4. \A q \in Live : q # c /\ gen'[q] = gen[q]
    BY <2>1, <2>2
  <2>5. OnlyBorn' /\ Control' /\ KnownInSight' /\ KnownSettled'
    BY <2>1
  <2>6. /\ gen[p] \in Nat /\ empty_checks \in Nat /\ EmptyChecks \in Nat
        /\ p \in Procs
    OBVIOUS
  <2>7. Generations'
    BY <2>1, <2>3, <2>4, <2>6
  <2>8. NoElderSurvives' /\ EmptyChecksEarnt'
    BY <2>1, <2>3, <2>4, <2>6
  <2> QED
    BY <2>5, <2>7, <2>8
<1>2. ASSUME NEW p \in Procs, Exit(p)
      PROVE  /\ OnlyBorn' /\ Control' /\ Generations' /\ KnownInSight'
             /\ NoElderSurvives' /\ KnownSettled' /\ EmptyChecksEarnt'
  BY <1>2 DEF Exit
<1>3. CASE SamplerLists
  BY <1>3 DEF SamplerLists, List
<1>4. CASE SamplerRecords
  BY <1>4, TreeBounds DEF SamplerRecords, ReadEnvironments
<1>5. CASE RecordTelemetry
  BY <1>5 DEF RecordTelemetry
<1>6. CASE Begin
  BY <1>6 DEF Begin
<1>7. CASE ListTree
  BY <1>7 DEF ListTree, List
<1>8. CASE ReadTree
  BY <1>8, TreeBounds DEF ReadTree, ReadEnvironments
<1>9. CASE CheckNonEmpty
  BY <1>9 DEF CheckNonEmpty
<1>10. CASE CheckEmpty
  BY <1>10 DEF CheckEmpty
<1>11. CASE CheckRefused
  BY <1>11 DEF CheckRefused
<1>12. CASE Deadline
  <2>1. CASE remaining = {}
    BY <1>12, <2>1 DEF Deadline
  <2>2. CASE remaining # {}
    <3>1. forced' /\ pc' = "kill"
      BY <1>12, <2>2 DEF Deadline
    <3> QED
      BY <1>12, <3>1 DEF Deadline
  <2> QED
    BY <2>1, <2>2
<1>13. CASE KillOne
  BY <1>13 DEF KillOne
<1>14. CASE AllKilled
  BY <1>14 DEF AllKilled
<1>15. CASE Recheck
  BY <1>15 DEF Recheck
<1>16. CASE Timer
  BY <1>16 DEF Timer
<1>17. CASE UNCHANGED vars
  BY <1>17 DEF vars
<1> QED
  BY <1>1, <1>2, <1>3, <1>4, <1>5, <1>6, <1>7, <1>8, <1>9, <1>10, <1>11,
     <1>12, <1>13, <1>14, <1>15, <1>16, <1>17
  DEF Next, Processes, Sampler, Settle

LEMMA InitInv == Init => IInv
<1> SUFFICES ASSUME Init PROVE IInv
  OBVIOUS
<1>1. TypeOK
  <2>1. forced \in BOOLEAN /\ expired \in BOOLEAN
    BY Zenon DEF Init
  <2> QED
    BY <2>1, SettleAssumption DEF Init, TypeOK, Scanners
<1>2. OnlyBorn /\ Control /\ Generations /\ KnownInSight
  BY DEF Init, OnlyBorn, Control, Generations, KnownInSight, Grace, After
<1>3. NoElderSurvives /\ KnownSettled /\ EmptyChecksEarnt
  BY DEF Init, NoElderSurvives, KnownSettled, EmptyChecksEarnt
<1> QED
  BY <1>1, <1>2, <1>3 DEF IInv

LEMMA StepInv == IInv /\ [Next]_vars => IInv'
BY TypeStep, SafetyStep DEF IInv

THEOREM Invariance == Spec => []IInv
BY InitInv, StepInv, PTL DEF Spec

(* Of the marked processes that ran when settle_tracked_processes was       *)
(* called none runs when it returns Ok.                                      *)
THEOREM EldersGone == Spec => []NoElderSurvives
<1>1. IInv => NoElderSurvives
  BY DEF IInv
<1> QED
  BY <1>1, Invariance, PTL

(* Nor does any that the tracker knew, marked or not.                       *)
THEOREM KnownGone == Spec => []KnownSettled
<1>1. IInv => KnownSettled
  BY DEF IInv
<1> QED
  BY <1>1, Invariance, PTL

(* The tracker and the loop's variables keep their types.                   *)
THEOREM TypeCorrect == Spec => []TypeOK
<1>1. IInv => TypeOK
  BY DEF IInv
<1> QED
  BY <1>1, Invariance, PTL

(* An unforced return in time was paid for with EmptyChecks empty scans: a  *)
(* survivor is EmptyChecks forks away from any process that ran before.     *)
THEOREM ChecksEarnt == Spec => []EmptyChecksEarnt
<1>1. IInv => EmptyChecksEarnt
  BY DEF IInv
<1> QED
  BY <1>1, Invariance, PTL

(* The bound on generations is kept.                                        *)
LEMMA BoundedGenerations ==
    Spec => [](\A p \in Procs : gen[p] <= MaxGen)
<1> DEFINE Bound == TypeOK /\ \A p \in Procs : gen[p] <= MaxGen
<1>1. Init => Bound
  BY InitInv, SettleAssumption DEF Init, IInv
<1>2. Bound /\ [Next]_vars => Bound'
  <2> SUFFICES ASSUME Bound, [Next]_vars PROVE Bound'
    OBVIOUS
  <2>1. TypeOK'
    BY TypeStep
  <2>2. CASE \E p, c \in Procs : Fork(p, c)
    BY <2>1, <2>2, SettleAssumption DEF Fork, TypeOK
  <2>3. CASE Begin
    BY <2>1, <2>3, SettleAssumption DEF Begin
  <2>4. CASE UNCHANGED gen
    BY <2>1, <2>4
  <2> QED
    BY <2>2, <2>3, <2>4
    DEF Next, Processes, Exit, Sampler, SamplerLists, SamplerRecords, Settle,
        RecordTelemetry, ListTree, ReadTree, CheckNonEmpty, CheckEmpty,
        CheckRefused, Deadline, KillOne, AllKilled, Recheck, Timer, vars
<1> QED
  BY <1>1, <1>2, PTL DEF Spec

(* In particular: if no family hands over through EmptyChecks generations   *)
(* while it is settled, an unforced return in time leaves no marked process. *)
THEOREM CleanReturnIsEmpty ==
    ASSUME MaxGen < EmptyChecks
    PROVE  Spec => [](pc = "done" /\ ~forced /\ ~expired => alive \cap Marked = {})
<1>1. IInv /\ (\A p \in Procs : gen[p] <= MaxGen) =>
        (pc = "done" /\ ~forced /\ ~expired => alive \cap Marked = {})
  <2> SUFFICES ASSUME IInv, \A p \in Procs : gen[p] <= MaxGen,
                      pc = "done", ~forced, ~expired,
                      NEW p \in alive \cap Marked
               PROVE  FALSE
    OBVIOUS
  <2>1. p \in Procs /\ gen[p] >= EmptyChecks /\ gen[p] <= MaxGen
    BY DEF IInv, EmptyChecksEarnt, TypeOK
  <2>2. gen[p] \in Nat /\ EmptyChecks \in Nat /\ MaxGen \in Nat
    BY <2>1, SettleAssumption DEF IInv, TypeOK
  <2> QED
    BY <2>1, <2>2
<1> QED
  BY <1>1, Invariance, BoundedGenerations, PTL
===========================================================================
