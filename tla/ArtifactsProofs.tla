-------------------------- MODULE ArtifactsProofs --------------------------
(* What commands may do to the runs they share, for any number of commands  *)
(* and of directories.                                                      *)
EXTENDS Artifacts, TLAPS

Pcs == {"idle", "load", "summary_temp", "summary", "report_temp", "report", "reload",
        "integrity", "list", "hash", "manifest", "read_base", "read_cand",
        "load_base", "load_cand", "list_base", "check_base", "check_cand",
        "comparison_temp", "comparison", "remove"} \cup Ended

Local == [pc : Pcs, kind : Kinds \cup {"none"}, dir : Dirs \cup {"none"},
          base : Dirs \cup {"none"}, own : Manifests, other : Manifests,
          baseline : Contents \cup {"none"}, candidate : Contents \cup {"none"},
          todo : SUBSET Paths, seen : Inventories,
          verdict : {"none", "accept", "reject"}]

Typed ==
    /\ origin \in [Dirs -> Origins] /\ whole \in [Dirs -> BOOLEAN]
    /\ files \in [Dirs -> Inventories] /\ manifest \in [Dirs -> Manifests]
    /\ cmd \in [Cmds -> Local] /\ overlapped \in BOOLEAN
    /\ \A c \in Cmds : Active(c) => cmd[c].dir \in Dirs /\ cmd[c].base \in Dirs
---------------------------------------------------------------------------
(* Inventories.                                                             *)
LEMMA Inventory ==
    ASSUME NEW f
    PROVE  f \in Inventories <=> /\ f = [p \in DOMAIN f |-> f[p]]
                                 /\ DOMAIN f \subseteq Paths
                                 /\ \A p \in DOMAIN f : f[p] \in Contents
  BY DEF Inventories, Contents

(* A directory may be empty.                                                *)
LEMMA EmptyInventory == Empty \in Inventories /\ DOMAIN Empty = {}
<1>1. DOMAIN Empty = {} /\ Empty = [p \in {} |-> Empty[p]]
  BY DEF Empty
<1>2. Empty \in [{} -> Contents]
  BY <1>1
<1>3. {} \in SUBSET Paths
  OBVIOUS
<1> QED
  BY <1>1, <1>2, <1>3 DEF Inventories, Contents

(* A file added to a directory or taken away.                               *)
LEMMA Edited ==
    ASSUME NEW f \in Inventories, NEW p \in Paths, NEW v \in Contents
    PROVE  /\ With(f, p, v) \in Inventories /\ DOMAIN With(f, p, v) = DOMAIN f \cup {p}
           /\ With(f, p, v)[p] = v
           /\ \A q \in DOMAIN f \ {p} : With(f, p, v)[q] = f[q]
           /\ Without(f, p) \in Inventories /\ DOMAIN Without(f, p) = DOMAIN f \ {p}
           /\ \A q \in DOMAIN f \ {p} : Without(f, p)[q] = f[q]
<1>1. DOMAIN f \subseteq Paths /\ \A q \in DOMAIN f : f[q] \in Contents
  BY Inventory
<1>2. /\ DOMAIN With(f, p, v) = DOMAIN f \cup {p} /\ With(f, p, v)[p] = v
      /\ \A q \in DOMAIN f \ {p} : With(f, p, v)[q] = f[q]
  BY DEF With
<1>3. /\ DOMAIN Without(f, p) = DOMAIN f \ {p}
      /\ \A q \in DOMAIN f \ {p} : Without(f, p)[q] = f[q]
  BY DEF Without, Restrict
<1>4. With(f, p, v) \in Inventories
  <2>1. With(f, p, v) = [q \in DOMAIN With(f, p, v) |-> With(f, p, v)[q]]
    BY DEF With
  <2> QED
    BY <1>1, <1>2, <2>1, Inventory
<1>5. Without(f, p) \in Inventories
  <2>1. Without(f, p) = [q \in DOMAIN Without(f, p) |-> Without(f, p)[q]]
    BY DEF Without, Restrict
  <2> QED
    BY <1>1, <1>3, <2>1, Inventory
<1> QED
  BY <1>2, <1>3, <1>4, <1>5
---------------------------------------------------------------------------
(* Steps.                                                                   *)
Others(c) == \A o \in Cmds \ {c} : cmd'[o] = cmd[o]

(* A command is not running afterwards.                                     *)
LEMMA Stopping ==
    ASSUME Typed, NEW c \in Cmds, NEW pc \in Ended,
           cmd' = [cmd EXCEPT ![c] = NotRunning(pc)]
    PROVE  /\ cmd' \in [Cmds -> Local] /\ Others(c)
           /\ cmd'[c] = NotRunning(pc) /\ cmd'[c].pc = pc /\ cmd'[c].verdict = "none"
<1>1. NotRunning(pc) \in Local
  <2>1. Empty \in Inventories /\ None \in Manifests
    BY EmptyInventory DEF Manifests
  <2> QED
    BY <2>1 DEF NotRunning, Local, Pcs
<1>2. NotRunning(pc).pc = pc /\ NotRunning(pc).verdict = "none"
  BY DEF NotRunning
<1> QED
  BY <1>1, <1>2 DEF Typed, Others

(* A command goes on.                                                       *)
LEMMA Advancing ==
    ASSUME Typed, NEW c \in Cmds, NEW pc \in Pcs, cmd' = [cmd EXCEPT ![c].pc = pc]
    PROVE  /\ cmd' \in [Cmds -> Local] /\ Others(c)
           /\ cmd'[c] = [cmd[c] EXCEPT !.pc = pc]
  BY DEF Typed, Others, Local

(* A temporary file is created.                                             *)
LEMMA TempStep ==
    ASSUME ArtifactsAssumption, Typed, NEW c \in Cmds, NEW from \in Pcs, NEW to \in Pcs \ Ended,
           Active(c), Temp(c, from, to)
    PROVE  Typed'
<1>1. /\ cmd' \in [Cmds -> Local] /\ Others(c) /\ cmd'[c] = [cmd[c] EXCEPT !.pc = to]
  BY Advancing DEF Temp
<1>2. cmd[c].dir \in Dirs /\ cmd[c].base \in Dirs
  BY DEF Typed
<1>3. files' \in [Dirs -> Inventories]
  <2>1. files[cmd[c].dir] \in Inventories /\ c \in Paths /\ c \in Contents
    BY <1>2 DEF Typed, Paths, Contents
  <2>2. With(files[cmd[c].dir], c, c) \in Inventories
    BY <2>1, Edited
  <2> QED
    BY <1>2, <2>2 DEF Typed, Temp
<1>4. cmd'[c].dir = cmd[c].dir /\ cmd'[c].base = cmd[c].base
  BY <1>1 DEF Typed, Local
<1> QED
  BY <1>1, <1>2, <1>3, <1>4 DEF Typed, Temp, Others, Active

(* The steps of a command that reads: what it knows afterwards.             *)
Learning(c, known) ==
    /\ cmd' = [cmd EXCEPT ![c] = known] /\ known \in Local
    /\ known.dir = cmd[c].dir /\ known.base = cmd[c].base
    /\ known.pc \notin Ended \cup {"idle"}
    /\ UNCHANGED <<origin, whole, files, manifest, overlapped>>

(* Afterwards it knows it.                                                  *)
LEMMA Learned ==
    ASSUME Typed, NEW c \in Cmds, NEW known, Active(c), Learning(c, known)
    PROVE  Typed' /\ Others(c) /\ cmd'[c] = known
<1>1. /\ cmd' \in [Cmds -> Local] /\ Others(c) /\ cmd'[c] = known
  BY DEF Typed, Learning, Others
<1>2. cmd[c].dir \in Dirs /\ cmd[c].base \in Dirs
  BY DEF Typed
<1> QED
  BY <1>1, <1>2 DEF Typed, Learning, Others, Active

Reloaded(c) == [cmd[c] EXCEPT !.pc = "integrity", !.own = manifest[cmd[c].dir]]
Judged(c) ==
    [cmd[c] EXCEPT !.pc = "list",
                   !.own.partial = @ \/ ~(Has(cmd[c].dir, "data") /\ whole[cmd[c].dir])]
Listed(c) ==
    [cmd[c] EXCEPT !.pc = "hash", !.seen = Empty, !.todo = DOMAIN files[cmd[c].dir]]
Hashed(c, p) ==
    [cmd[c] EXCEPT !.seen = With(@, p, files[cmd[c].dir][p]), !.todo = @ \ {p}]
BaselineRead(c) ==
    [cmd[c] EXCEPT !.pc = "read_cand", !.baseline = files[cmd[c].base]["summary"]]
CandidateRead(c) ==
    [cmd[c] EXCEPT !.pc = "load_base", !.candidate = files[cmd[c].dir]["summary"]]
BaselineLoaded(c) ==
    [cmd[c] EXCEPT !.pc = "load_cand", !.other = manifest[cmd[c].base]]
CandidateLoaded(c) ==
    [cmd[c] EXCEPT !.pc = "list_base", !.own = manifest[cmd[c].dir]]
Verifying(c, to) == [cmd[c] EXCEPT !.pc = to, !.todo = DOMAIN Verified(c, to)[2]]
OneVerified(c, p) == [cmd[c] EXCEPT !.todo = @ \ {p}]
Decided(c, v) == [cmd[c] EXCEPT !.pc = "comparison_temp", !.verdict = v]

(* The part of TypeOK that a step which reads depends on.                   *)
HasManifest ==
    \A c \in Cmds :
        /\ cmd[c].pc \in {"integrity", "list", "hash", "manifest", "list_base",
                          "check_base", "check_cand", "comparison_temp", "comparison"}
           => cmd[c].own.exists
        /\ cmd[c].pc \in {"load_cand", "list_base", "check_base", "check_cand"}
           => cmd[c].other.exists

(* A manifest that exists has all its fields.                               *)
LEMMA Existing ==
    ASSUME NEW m \in Manifests, m.exists
    PROVE  /\ m.finished \in BOOLEAN /\ m.partial \in BOOLEAN /\ m.files \in Inventories
           /\ m = Manifest(m.finished, m.partial, m.files)
<1>1. m # None
  BY DEF None
<1>2. m \in [exists : {TRUE}, finished : BOOLEAN, partial : BOOLEAN, files : Inventories]
  BY <1>1 DEF Manifests
<1> QED
  BY <1>2 DEF Manifest

(* A command at work has its directories.                                   *)
LEMMA InDirectory ==
    ASSUME Typed, NEW c \in Cmds, Active(c)
    PROVE  /\ cmd[c] \in Local /\ cmd[c].dir \in Dirs /\ cmd[c].base \in Dirs
           /\ files[cmd[c].dir] \in Inventories /\ files[cmd[c].base] \in Inventories
           /\ manifest[cmd[c].dir] \in Manifests /\ manifest[cmd[c].base] \in Manifests
           /\ DOMAIN files[cmd[c].dir] \subseteq Paths
           /\ \A p \in DOMAIN files[cmd[c].dir] : files[cmd[c].dir][p] \in Contents
           /\ \A p \in DOMAIN files[cmd[c].base] : files[cmd[c].base][p] \in Contents
<1>1. /\ cmd[c] \in Local /\ cmd[c].dir \in Dirs /\ cmd[c].base \in Dirs
      /\ files[cmd[c].dir] \in Inventories /\ files[cmd[c].base] \in Inventories
      /\ manifest[cmd[c].dir] \in Manifests /\ manifest[cmd[c].base] \in Manifests
  BY DEF Typed
<1> QED
  BY <1>1, Inventory

(* What analyze knows after it has read.                                    *)
LEMMA AnalyzeReads ==
    ASSUME Typed, NEW c \in Cmds
    PROVE  /\ Load(c) => Active(c) /\ Learning(c, [cmd[c] EXCEPT !.pc = "summary_temp"])
           /\ Reload(c) => Active(c) /\ Learning(c, Reloaded(c))
<1>1. ASSUME Load(c) PROVE Active(c) /\ Learning(c, [cmd[c] EXCEPT !.pc = "summary_temp"])
  <2>1. Active(c)
    BY <1>1 DEF Load, Active, Ended
  <2> QED
    BY <1>1, <2>1, InDirectory DEF Load, Learning, Local, Pcs, Ended
<1>2. ASSUME Reload(c) PROVE Active(c) /\ Learning(c, Reloaded(c))
  <2>1. Active(c)
    BY <1>2 DEF Reload, Active, Ended
  <2> QED
    <3>1. Reloaded(c) \in Local
      <4>1. "integrity" \in Pcs
        BY DEF Pcs
      <4>2. cmd[c] \in Local /\ manifest[cmd[c].dir] \in Manifests
        BY <2>1, InDirectory
      <4> QED
        BY <4>1, <4>2 DEF Reloaded, Local
    <3>2. Reloaded(c).dir = cmd[c].dir /\ Reloaded(c).base = cmd[c].base
      BY <2>1, InDirectory DEF Reloaded, Local
    <3>3. Reloaded(c).pc = "integrity"
      BY <2>1, InDirectory DEF Reloaded, Local
    <3>4. /\ cmd' = [cmd EXCEPT ![c] = Reloaded(c)]
          /\ UNCHANGED <<origin, whole, files, manifest, overlapped>>
      BY <1>2 DEF Reload, Reloaded
    <3> QED
      BY <2>1, <3>1, <3>2, <3>3, <3>4 DEF Learning, Ended
<1> QED
  BY <1>1, <1>2

(* What finalize_manifest knows after it has judged, listed and hashed.     *)
LEMMA FinalizeReads ==
    ASSUME Typed, HasManifest, NEW c \in Cmds
    PROVE  /\ Integrity(c) => Active(c) /\ Learning(c, Judged(c))
           /\ List(c) => Active(c) /\ Learning(c, Listed(c))
           /\ \A p \in Paths : HashOne(c, p) => Active(c) /\ Learning(c, Hashed(c, p))
<1>1. ASSUME Integrity(c) PROVE Active(c) /\ Learning(c, Judged(c))
  <2>1. Active(c) /\ cmd[c].own.exists
    BY <1>1 DEF Integrity, Active, Ended, HasManifest
  <2>2. cmd[c] \in Local
    BY <2>1, InDirectory
  <2>3. [cmd[c].own EXCEPT !.partial =
            @ \/ ~(Has(cmd[c].dir, "data") /\ whole[cmd[c].dir])] \in Manifests
    BY <2>1, <2>2, InDirectory DEF Local, Manifests, None
  <2>4. Judged(c) \in Local
    BY <2>2, <2>3 DEF Judged, Local, Pcs
  <2> QED
    <3>1. Judged(c).dir = cmd[c].dir /\ Judged(c).base = cmd[c].base
      BY <2>2 DEF Judged, Local
    <3>2. Judged(c).pc = "list"
      BY <2>2 DEF Judged, Local
    <3>3. /\ cmd' = [cmd EXCEPT ![c] = Judged(c)]
          /\ UNCHANGED <<origin, whole, files, manifest, overlapped>>
      BY <1>1 DEF Integrity, Judged
    <3> QED
      BY <2>1, <2>4, <3>1, <3>2, <3>3 DEF Learning, Ended
<1>2. ASSUME List(c) PROVE Active(c) /\ Learning(c, Listed(c))
  <2>1. Active(c)
    BY <1>2 DEF List, Active, Ended
  <2> QED
    <3>1. cmd[c] \in Local /\ DOMAIN files[cmd[c].dir] \in SUBSET Paths
      BY <2>1, InDirectory
    <3>2. Listed(c) \in Local
      BY <3>1, EmptyInventory DEF Listed, Local, Pcs
    <3>3. /\ Listed(c).dir = cmd[c].dir /\ Listed(c).base = cmd[c].base
          /\ Listed(c).pc = "hash"
      BY <3>1 DEF Listed, Local
    <3>4. /\ cmd' = [cmd EXCEPT ![c] = Listed(c)]
          /\ UNCHANGED <<origin, whole, files, manifest, overlapped>>
      BY <1>2 DEF List, Listed
    <3> QED
      BY <2>1, <3>2, <3>3, <3>4 DEF Learning, Ended
<1>3. ASSUME NEW p \in Paths, HashOne(c, p) PROVE Active(c) /\ Learning(c, Hashed(c, p))
  <2>1. Active(c)
    BY <1>3 DEF HashOne, Active, Ended
  <2>2. cmd[c].seen \in Inventories /\ files[cmd[c].dir][p] \in Contents
    BY <1>3, <2>1, InDirectory DEF HashOne, Has, Local
  <2>3. With(cmd[c].seen, p, files[cmd[c].dir][p]) \in Inventories
    BY <2>2, Edited
  <2> QED
    <3>1. Hashed(c, p) \in Local
      BY <2>1, <2>3, InDirectory DEF Hashed, Local
    <3>2. Hashed(c, p).dir = cmd[c].dir /\ Hashed(c, p).base = cmd[c].base
      BY <2>1, InDirectory DEF Hashed, Local
    <3>3. Hashed(c, p).pc = "hash"
      BY <1>3, <2>1, InDirectory DEF Hashed, HashOne, Local
    <3>4. /\ cmd' = [cmd EXCEPT ![c] = Hashed(c, p)]
          /\ UNCHANGED <<origin, whole, files, manifest, overlapped>>
      BY <1>3 DEF HashOne, Hashed
    <3> QED
      BY <2>1, <3>1, <3>2, <3>3, <3>4 DEF Learning, Ended
<1> QED
  BY <1>1, <1>2, <1>3

(* What compare knows after it has read and decided.                        *)
LEMMA CompareReads ==
    ASSUME Typed, NEW c \in Cmds
    PROVE  /\ ReadBaseline(c) => Active(c) /\ Learning(c, BaselineRead(c))
           /\ ReadCandidate(c) => Active(c) /\ Learning(c, CandidateRead(c))
           /\ LoadBaseline(c) => Active(c) /\ Learning(c, BaselineLoaded(c))
           /\ LoadCandidate(c) => Active(c) /\ Learning(c, CandidateLoaded(c))
           /\ Decide(c) => Active(c) /\ \E v \in {"accept", "reject"} :
                 /\ v = "accept" => Comparable(cmd[c].other, cmd[c].own)
                 /\ Learning(c, Decided(c, v))
<1>1. ASSUME ReadBaseline(c) PROVE Active(c) /\ Learning(c, BaselineRead(c))
  <2>1. Active(c)
    BY <1>1 DEF ReadBaseline, Active, Ended
  <2>2. /\ BaselineRead(c) \in Local
        /\ BaselineRead(c).dir = cmd[c].dir /\ BaselineRead(c).base = cmd[c].base
    <3>1. BaselineRead(c) \in Local
      <4>1. cmd[c] \in Local /\ files[cmd[c].base]["summary"] \in Contents
        BY <1>1, <2>1, InDirectory DEF ReadBaseline, Has
      <4> QED
        BY <4>1 DEF BaselineRead, Local, Pcs
    <3>2. BaselineRead(c).dir = cmd[c].dir /\ BaselineRead(c).base = cmd[c].base
      BY <2>1, InDirectory DEF BaselineRead, Local
    <3> QED
      BY <3>1, <3>2
  <2>3. BaselineRead(c).pc = "read_cand"
    BY <1>1, <2>1, InDirectory DEF ReadBaseline, BaselineRead, Local
  <2>4. /\ cmd' = [cmd EXCEPT ![c] = BaselineRead(c)]
        /\ UNCHANGED <<origin, whole, files, manifest, overlapped>>
    BY <1>1 DEF ReadBaseline, BaselineRead
  <2> QED
    BY <2>1, <2>2, <2>3, <2>4 DEF Learning, Ended
<1>2. ASSUME ReadCandidate(c) PROVE Active(c) /\ Learning(c, CandidateRead(c))
  <2>1. Active(c)
    BY <1>2 DEF ReadCandidate, Active, Ended
  <2>2. /\ CandidateRead(c) \in Local
        /\ CandidateRead(c).dir = cmd[c].dir /\ CandidateRead(c).base = cmd[c].base
    <3>1. "load_base" \in Pcs
      BY DEF Pcs
    <3>2. cmd[c] \in Local /\ files[cmd[c].dir] \in Inventories
      BY <2>1, InDirectory
    <3>3. "summary" \in DOMAIN files[cmd[c].dir]
      BY <1>2 DEF ReadCandidate, Has
    <3>4. files[cmd[c].dir]["summary"] \in Contents
      BY <3>2, <3>3, Inventory
    <3>5. CandidateRead(c) \in Local
      BY <3>1, <3>2, <3>4 DEF CandidateRead, Local
    <3> QED
      BY <3>2, <3>5 DEF CandidateRead, Local
  <2>3. CandidateRead(c).pc = "load_base"
    BY <1>2, <2>1, InDirectory DEF ReadCandidate, CandidateRead, Local
  <2>4. /\ cmd' = [cmd EXCEPT ![c] = CandidateRead(c)]
        /\ UNCHANGED <<origin, whole, files, manifest, overlapped>>
    BY <1>2 DEF ReadCandidate, CandidateRead
  <2> QED
    BY <2>1, <2>2, <2>3, <2>4 DEF Learning, Ended
<1>3. ASSUME LoadBaseline(c) PROVE Active(c) /\ Learning(c, BaselineLoaded(c))
  <2>1. Active(c)
    BY <1>3 DEF LoadBaseline, Active, Ended
  <2>2. /\ BaselineLoaded(c) \in Local
        /\ BaselineLoaded(c).dir = cmd[c].dir /\ BaselineLoaded(c).base = cmd[c].base
    <3>1. BaselineLoaded(c) \in Local
      <4>1. cmd[c] \in Local /\ manifest[cmd[c].base] \in Manifests
        BY <1>3, <2>1, InDirectory DEF LoadBaseline, Has
      <4> QED
        BY <4>1 DEF BaselineLoaded, Local, Pcs
    <3>2. BaselineLoaded(c).dir = cmd[c].dir /\ BaselineLoaded(c).base = cmd[c].base
      BY <2>1, InDirectory DEF BaselineLoaded, Local
    <3> QED
      BY <3>1, <3>2
  <2>3. BaselineLoaded(c).pc = "load_cand"
    BY <1>3, <2>1, InDirectory DEF LoadBaseline, BaselineLoaded, Local
  <2>4. /\ cmd' = [cmd EXCEPT ![c] = BaselineLoaded(c)]
        /\ UNCHANGED <<origin, whole, files, manifest, overlapped>>
    BY <1>3 DEF LoadBaseline, BaselineLoaded
  <2> QED
    BY <2>1, <2>2, <2>3, <2>4 DEF Learning, Ended
<1>4. ASSUME LoadCandidate(c) PROVE Active(c) /\ Learning(c, CandidateLoaded(c))
  <2>1. Active(c)
    BY <1>4 DEF LoadCandidate, Active, Ended
  <2>2. /\ CandidateLoaded(c) \in Local
        /\ CandidateLoaded(c).dir = cmd[c].dir /\ CandidateLoaded(c).base = cmd[c].base
    <3>1. CandidateLoaded(c) \in Local
      <4>1. cmd[c] \in Local /\ manifest[cmd[c].dir] \in Manifests
        BY <1>4, <2>1, InDirectory DEF LoadCandidate, Has
      <4> QED
        BY <4>1 DEF CandidateLoaded, Local, Pcs
    <3>2. CandidateLoaded(c).dir = cmd[c].dir /\ CandidateLoaded(c).base = cmd[c].base
      BY <2>1, InDirectory DEF CandidateLoaded, Local
    <3> QED
      BY <3>1, <3>2
  <2>3. CandidateLoaded(c).pc = "list_base"
    BY <1>4, <2>1, InDirectory DEF LoadCandidate, CandidateLoaded, Local
  <2>4. /\ cmd' = [cmd EXCEPT ![c] = CandidateLoaded(c)]
        /\ UNCHANGED <<origin, whole, files, manifest, overlapped>>
    BY <1>4 DEF LoadCandidate, CandidateLoaded
  <2> QED
    BY <2>1, <2>2, <2>3, <2>4 DEF Learning, Ended
<1>5. ASSUME Decide(c)
      PROVE  Active(c) /\ \E v \in {"accept", "reject"} :
                /\ v = "accept" => Comparable(cmd[c].other, cmd[c].own)
                /\ Learning(c, Decided(c, v))
  <2>1. Active(c)
    BY <1>5 DEF Decide, Active, Ended
  <2>2. PICK v \in {"accept", "reject"} :
           /\ v = "accept" => Comparable(cmd[c].other, cmd[c].own)
           /\ cmd' = [cmd EXCEPT ![c] = Decided(c, v)]
           /\ UNCHANGED <<origin, whole, files, manifest, overlapped>>
    BY <1>5 DEF Decide, Decided
  <2>3. /\ Decided(c, v) \in Local /\ Decided(c, v).pc = "comparison_temp"
        /\ Decided(c, v).dir = cmd[c].dir /\ Decided(c, v).base = cmd[c].base
    <3>1. "comparison_temp" \in Pcs
      BY DEF Pcs
    <3>2. cmd[c] \in Local
      BY <2>1, InDirectory
    <3>3. Decided(c, v) \in Local
      BY <3>1, <3>2 DEF Decided, Local
    <3> QED
      BY <3>2, <3>3 DEF Decided, Local
  <2> QED
    BY <2>1, <2>2, <2>3 DEF Learning, Ended
<1> QED
  BY <1>1, <1>2, <1>3, <1>4, <1>5

(* What verify_artifacts has left to verify.                                *)
LEMMA Verifies ==
    ASSUME Typed, HasManifest, NEW c \in Cmds
    PROVE  /\ \A to \in {"check_base", "check_cand"} :
                 VerifyList(c, IF to = "check_base" THEN "list_base" ELSE "check_base", to)
                 => Active(c) /\ Learning(c, Verifying(c, to))
           /\ \A p \in Paths, s \in {"check_base", "check_cand"} :
                 VerifyOne(c, s, p) => Active(c) /\ Learning(c, OneVerified(c, p))
<1>1. ASSUME NEW to \in {"check_base", "check_cand"},
             VerifyList(c, IF to = "check_base" THEN "list_base" ELSE "check_base", to)
      PROVE  Active(c) /\ Learning(c, Verifying(c, to))
  <2>1. Active(c) /\ cmd[c].own.exists /\ cmd[c].other.exists
    BY <1>1 DEF VerifyList, Active, Ended, HasManifest
  <2>2. cmd[c] \in Local
    BY <2>1, InDirectory
  <2>3. cmd[c].own.files \in Inventories /\ cmd[c].other.files \in Inventories
    BY <2>1, <2>2, Existing DEF Local
  <2>4. DOMAIN Verified(c, to)[2] \in SUBSET Paths
    BY <2>3, Inventory DEF Verified
  <2>5. /\ Verifying(c, to) \in Local /\ Verifying(c, to).pc = to
        /\ Verifying(c, to).dir = cmd[c].dir /\ Verifying(c, to).base = cmd[c].base
    <3>1. to \in Pcs
      BY DEF Pcs
    <3>2. Verifying(c, to) \in Local
      BY <2>2, <2>4, <3>1 DEF Verifying, Local
    <3> QED
      BY <2>2, <3>2 DEF Verifying, Local
  <2>6. /\ cmd' = [cmd EXCEPT ![c] = Verifying(c, to)]
        /\ UNCHANGED <<origin, whole, files, manifest, overlapped>>
    BY <1>1 DEF VerifyList, Verifying
  <2> QED
    BY <2>1, <2>5, <2>6 DEF Learning, Ended
<1>2. ASSUME NEW p \in Paths, NEW s \in {"check_base", "check_cand"}, VerifyOne(c, s, p)
      PROVE  Active(c) /\ Learning(c, OneVerified(c, p))
  <2>1. Active(c)
    BY <1>2 DEF VerifyOne, Active, Ended
  <2>2. /\ OneVerified(c, p) \in Local /\ OneVerified(c, p).pc = cmd[c].pc
        /\ OneVerified(c, p).dir = cmd[c].dir /\ OneVerified(c, p).base = cmd[c].base
    BY <2>1, InDirectory DEF OneVerified, Local
  <2>3. /\ cmd' = [cmd EXCEPT ![c] = OneVerified(c, p)]
        /\ UNCHANGED <<origin, whole, files, manifest, overlapped>>
    BY <1>2 DEF VerifyOne, OneVerified, Local
  <2> QED
    BY <2>1, <2>2, <2>3 DEF Learning, Active
<1> QED
  BY <1>1, <1>2

(* The steps that change a directory: atomic_write's, clean's and the last. *)
LEMMA PersistStep ==
    ASSUME ArtifactsAssumption, Typed, NEW c \in Cmds, NEW from \in Pcs, NEW to \in Pcs \ Ended,
           NEW name \in Names, Active(c), Persist(c, from, name, to)
    PROVE  Typed' /\ Others(c) /\ cmd'[c] = [cmd[c] EXCEPT !.pc = to]
<1>1. /\ cmd' \in [Cmds -> Local] /\ Others(c) /\ cmd'[c] = [cmd[c] EXCEPT !.pc = to]
  BY Advancing DEF Persist
<1>2. cmd[c].dir \in Dirs /\ cmd[c].base \in Dirs
  BY DEF Typed
<1>3. files' \in [Dirs -> Inventories]
  <2>1. files[cmd[c].dir] \in Inventories /\ c \in Paths /\ c \in Contents /\ name \in Paths
    BY <1>2 DEF Typed, Paths, Contents
  <2>2. Without(files[cmd[c].dir], c) \in Inventories
    BY <2>1, Edited
  <2>3. With(Without(files[cmd[c].dir], c), name, c) \in Inventories
    BY <2>1, <2>2, Edited
  <2> QED
    BY <1>2, <2>3 DEF Typed, Persist
<1>4. cmd'[c].dir = cmd[c].dir /\ cmd'[c].base = cmd[c].base
  BY <1>1 DEF Typed, Local
<1> QED
  BY <1>1, <1>2, <1>3, <1>4 DEF Typed, Persist, Others, Active

(* finalize_manifest ends: the manifest and the directory afterwards.       *)
LEMMA ManifestStep ==
    ASSUME Typed, HasManifest, NEW c \in Cmds, PersistManifest(c)
    PROVE  /\ Typed' /\ Others(c) /\ cmd'[c] = NotRunning("done")
           /\ Active(c) /\ cmd[c].own.exists
           /\ \A d \in Dirs \ {cmd[c].dir} : UNCHANGED <<manifest[d], files[d]>>
           /\ manifest'[cmd[c].dir] =
                 Manifest(cmd[c].own.finished, cmd[c].own.partial, cmd[c].seen)
           /\ files'[cmd[c].dir] = Without(files[cmd[c].dir], c)
<1>1. Active(c) /\ cmd[c].own.exists /\ cmd[c] \in Local
  BY DEF PersistManifest, Active, Ended, HasManifest, Typed
<1>2. cmd[c].dir \in Dirs /\ files[cmd[c].dir] \in Inventories
  BY <1>1, InDirectory
<1>3. /\ cmd' \in [Cmds -> Local] /\ Others(c) /\ cmd'[c] = NotRunning("done")
  BY Stopping DEF PersistManifest, Ended
<1>4. Manifest(cmd[c].own.finished, cmd[c].own.partial, cmd[c].seen) \in Manifests
  <2>1. cmd[c].own.finished \in BOOLEAN /\ cmd[c].own.partial \in BOOLEAN
    BY <1>1, Existing DEF Local
  <2>2. cmd[c].seen \in Inventories
    BY <1>1 DEF Local
  <2> QED
    BY <2>1, <2>2 DEF Manifest, Manifests
<1>5. Without(files[cmd[c].dir], c) \in Inventories
  <2>1. c \in Paths /\ c \in Contents
    BY DEF Paths, Contents
  <2> QED
    BY <1>2, <2>1, Edited
<1>6. manifest' \in [Dirs -> Manifests] /\ files' \in [Dirs -> Inventories]
  BY <1>2, <1>4, <1>5 DEF PersistManifest, Typed
<1>7. ~Active(c)'
  BY <1>3 DEF Active, NotRunning, Ended
<1>8. Typed'
  BY <1>3, <1>6, <1>7 DEF Typed, PersistManifest, Others, Active
<1> QED
  BY <1>1, <1>2, <1>3, <1>8 DEF PersistManifest, Typed

(* A command ends otherwise.                                                *)
LEMMA StopStep ==
    ASSUME Typed, NEW c \in Cmds, Removed(c) \/ Fail(c) \/ Crash(c)
    PROVE  /\ Typed' /\ Others(c) /\ Active(c)
           /\ \E pc \in Ended \ {"done"} : cmd'[c] = NotRunning(pc)
           /\ UNCHANGED <<origin, whole, manifest, overlapped>>
           /\ \/ UNCHANGED files
              \/ files' = [files EXCEPT ![cmd[c].dir] = Without(@, c)]
<1>1. Active(c) /\ UNCHANGED <<origin, whole, manifest, overlapped>>
  BY DEF Removed, Fail, Crash, Active, Ended
<1>2. PICK pc \in Ended \ {"done"} : cmd' = [cmd EXCEPT ![c] = NotRunning(pc)]
  BY DEF Removed, Fail, Crash, Ended
<1>3. cmd' \in [Cmds -> Local] /\ Others(c) /\ cmd'[c] = NotRunning(pc) /\ cmd'[c].pc = pc
  BY <1>2, Stopping
<1>4. \/ UNCHANGED files
      \/ files' = [files EXCEPT ![cmd[c].dir] = Without(@, c)]
  BY DEF Removed, Fail, Crash
<1>5. files' \in [Dirs -> Inventories]
  <2>1. c \in Paths /\ c \in Contents
    BY DEF Paths, Contents
  <2>2. Without(files[cmd[c].dir], c) \in Inventories
    BY <1>1, <2>1, InDirectory, Edited
  <2> QED
    BY <1>1, <1>4, <2>2, InDirectory DEF Typed
<1>6. Typed'
  BY <1>1, <1>3, <1>5 DEF Typed, Others, Active
<1> QED
  BY <1>1, <1>3, <1>4, <1>6

(* clean takes a file or the manifest.                                      *)
LEMMA RemoveStep ==
    ASSUME Typed, NEW c \in Cmds, (\E p \in Paths : RemoveFile(c, p)) \/ RemoveManifest(c)
    PROVE  /\ Typed' /\ cmd[c].pc = "remove" /\ UNCHANGED <<origin, whole, cmd, overlapped>>
           /\ \A d \in Dirs : UNCHANGED manifest[d] \/ manifest'[d] = None
           /\ \A d \in Dirs : \/ UNCHANGED files[d]
                              \/ \E p \in Paths : files'[d] = Without(files[d], p)
<1>1. /\ cmd[c].pc = "remove" /\ UNCHANGED <<origin, whole, cmd, overlapped>>
  BY DEF RemoveFile, RemoveManifest
<1>2. cmd[c].dir \in Dirs /\ files[cmd[c].dir] \in Inventories
  BY <1>1, InDirectory DEF Active, Ended
<1>3. CASE RemoveManifest(c)
  <2>1. manifest' \in [Dirs -> Manifests]
    BY <1>2, <1>3 DEF RemoveManifest, Typed, Manifests
  <2>2. \A d \in Dirs : UNCHANGED manifest[d] \/ manifest'[d] = None
    BY <1>2, <1>3 DEF RemoveManifest, Typed
  <2>3. UNCHANGED files
    BY <1>3 DEF RemoveManifest
  <2> QED
    BY <1>1, <2>1, <2>2, <2>3 DEF Typed, Active
<1>4. ASSUME NEW p \in Paths, RemoveFile(c, p)
      PROVE  /\ Typed' /\ UNCHANGED manifest
             /\ \A d \in Dirs : UNCHANGED files[d] \/ files'[d] = Without(files[d], p)
  <2>1. "launch" \in Contents /\ UNCHANGED manifest
    BY <1>4 DEF Contents, RemoveFile
  <2>2. Without(files[cmd[c].dir], p) \in Inventories
    BY <1>2, <2>1, Edited
  <2>3. files' \in [Dirs -> Inventories]
    BY <1>2, <1>4, <2>2 DEF RemoveFile, Typed
  <2>4. \A d \in Dirs : UNCHANGED files[d] \/ files'[d] = Without(files[d], p)
    BY <1>2, <1>4 DEF RemoveFile, Typed
  <2> QED
    BY <1>1, <2>1, <2>3, <2>4 DEF Typed, Active
<1> QED
  BY <1>1, <1>3, <1>4

Started(c, k, d, b) ==
    [cmd[c] EXCEPT !.pc = FirstStep[k], !.kind = k, !.dir = d, !.base = b]

(* A command begins.                                                        *)
LEMMA BeginStep ==
    ASSUME Typed, NEW c \in Cmds, Begin(c)
    PROVE  /\ Typed' /\ Others(c) /\ UNCHANGED <<origin, whole, files, manifest>>
           /\ overlapped' = (overlapped \/ \E other \in Cmds : Active(other))
           /\ cmd[c].pc = "idle" /\ cmd'[c].verdict = cmd[c].verdict
           /\ cmd'[c].todo = cmd[c].todo
           /\ cmd'[c].pc \in {"load", "read_base", "remove"}
<1>1. /\ cmd[c].pc = "idle" /\ cmd[c] \in Local
      /\ overlapped' = (overlapped \/ \E other \in Cmds : Active(other))
      /\ UNCHANGED <<origin, whole, files, manifest>>
  BY DEF Begin, Typed
<1>2. PICK k \in Kinds, d \in Dirs, b \in Dirs :
         cmd' = [cmd EXCEPT ![c] = Started(c, k, d, b)]
  BY DEF Begin, Started
<1>3. FirstStep[k] \in {"load", "read_base", "remove"}
  BY DEF FirstStep, Kinds
<1>4. Started(c, k, d, b) \in Local
  BY <1>1, <1>3 DEF Started, Local, Pcs
<1>5. /\ Started(c, k, d, b).pc = FirstStep[k]
      /\ Started(c, k, d, b).dir = d /\ Started(c, k, d, b).base = b
      /\ Started(c, k, d, b).verdict = cmd[c].verdict
      /\ Started(c, k, d, b).todo = cmd[c].todo
  BY <1>1 DEF Started, Local
<1>6. /\ cmd' \in [Cmds -> Local] /\ Others(c) /\ cmd'[c] = Started(c, k, d, b)
  BY <1>2, <1>4 DEF Typed, Others
<1>7. overlapped' \in BOOLEAN
  BY <1>1
<1>8. Typed'
  BY <1>1, <1>5, <1>6, <1>7 DEF Typed, Others, Active
<1> QED
  BY <1>1, <1>3, <1>5, <1>6, <1>8
---------------------------------------------------------------------------
(* What a command may do, by what it changes.                               *)
Knows(c, known) ==
    \/ known = [cmd[c] EXCEPT !.pc = "summary_temp"] /\ Load(c)
    \/ known = Reloaded(c) /\ Reload(c)
    \/ known = Judged(c) /\ Integrity(c)
    \/ known = Listed(c) /\ List(c)
    \/ \E p \in Paths : known = Hashed(c, p) /\ HashOne(c, p)
    \/ known = BaselineRead(c) /\ ReadBaseline(c)
    \/ known = CandidateRead(c) /\ ReadCandidate(c)
    \/ known = BaselineLoaded(c) /\ LoadBaseline(c)
    \/ known = CandidateLoaded(c) /\ LoadCandidate(c)
    \/ known = Verifying(c, "check_base") /\ VerifyList(c, "list_base", "check_base")
    \/ known = Verifying(c, "check_cand") /\ VerifyList(c, "check_base", "check_cand")
    \/ \E p \in Paths, s \in {"check_base", "check_cand"} :
          known = OneVerified(c, p) /\ VerifyOne(c, s, p)
    \/ \E v \in {"accept", "reject"} :
          /\ known = Decided(c, v) /\ Decide(c)
          /\ v = "accept" => Comparable(cmd[c].other, cmd[c].own)

Reading(c) == \E known : Active(c) /\ Learning(c, known) /\ Knows(c, known)

TempSteps == {<<"summary_temp", "summary">>, <<"report_temp", "report">>,
              <<"hash", "manifest">>, <<"comparison_temp", "comparison">>}
PersistSteps == {<<"summary", "report_temp">>, <<"summary", "reload">>,
                 <<"report", "reload">>, <<"comparison", "integrity">>}

Writing(c) ==
    /\ Active(c)
    /\ \/ \E s \in TempSteps : Temp(c, s[1], s[2])
       \/ \E s \in PersistSteps : Persist(c, s[1], s[1], s[2])

(* A step of a command is one of these.                                     *)
LEMMA StepKinds ==
    ASSUME Typed, HasManifest, NEW c \in Cmds,
           Begin(c) \/ Analyze(c) \/ Compare(c) \/ FinalizeManifest(c)
           \/ Clean(c) \/ Fail(c) \/ Crash(c)
    PROVE  \/ Begin(c) \/ Reading(c) \/ Writing(c) \/ PersistManifest(c)
           \/ (\E p \in Paths : RemoveFile(c, p)) \/ RemoveManifest(c)
           \/ Removed(c) \/ Fail(c) \/ Crash(c)
<1>1. CASE Analyze(c)
  <2>1. CASE Load(c) \/ Reload(c)
    BY <2>1, AnalyzeReads DEF Reading, Knows
  <2>2. CASE Temp(c, "summary_temp", "summary")
    BY <2>2 DEF Writing, TempSteps, Temp, Active, Ended
  <2>3. ASSUME NEW next \in {"report_temp", "reload"}, Persist(c, "summary", "summary", next)
        PROVE  Writing(c)
    <3>1. <<"summary", next>> \in PersistSteps /\ Active(c)
      BY <2>3 DEF PersistSteps, Persist, Active, Ended
    <3> QED
      BY <2>3, <3>1 DEF Writing
  <2>4. CASE Temp(c, "report_temp", "report")
    BY <2>4 DEF Writing, TempSteps, Temp, Active, Ended
  <2>5. CASE Persist(c, "report", "report", "reload")
    BY <2>5 DEF Writing, PersistSteps, Persist, Active, Ended
  <2> QED
    BY <1>1, <2>1, <2>2, <2>3, <2>4, <2>5 DEF Analyze
<1>2. CASE FinalizeManifest(c)
  <2>1. CASE Integrity(c) \/ List(c) \/ \E p \in Paths : HashOne(c, p)
    BY <2>1, FinalizeReads DEF Reading, Knows
  <2>2. CASE Temp(c, "hash", "manifest")
    BY <2>2 DEF Writing, TempSteps, Temp, Active, Ended
  <2> QED
    BY <1>2, <2>1, <2>2 DEF FinalizeManifest
<1>3. CASE Compare(c)
  <2>1. CASE ReadBaseline(c) \/ ReadCandidate(c) \/ LoadBaseline(c) \/ LoadCandidate(c)
    BY <2>1, CompareReads DEF Reading, Knows
  <2>2. CASE VerifyList(c, "list_base", "check_base")
    BY <2>2, Verifies DEF Reading, Knows
  <2>3. CASE VerifyList(c, "check_base", "check_cand")
    BY <2>3, Verifies DEF Reading, Knows
  <2>4. CASE \E p \in Paths, s \in {"check_base", "check_cand"} : VerifyOne(c, s, p)
    BY <2>4, Verifies DEF Reading, Knows
  <2>5. CASE Decide(c)
    BY <2>5, CompareReads DEF Reading, Knows
  <2>6. CASE Temp(c, "comparison_temp", "comparison")
    BY <2>6 DEF Writing, TempSteps, Temp, Active, Ended
  <2>7. CASE Persist(c, "comparison", "comparison", "integrity")
    BY <2>7 DEF Writing, PersistSteps, Persist, Active, Ended
  <2> QED
    BY <1>3, <2>1, <2>2, <2>3, <2>4, <2>5, <2>6, <2>7 DEF Compare
<1> QED
  BY <1>1, <1>2, <1>3 DEF Clean

(* A command that writes one of its files.                                  *)
LEMMA WriteStep ==
    ASSUME ArtifactsAssumption, Typed, NEW c \in Cmds, Writing(c)
    PROVE  /\ Typed' /\ Others(c) /\ UNCHANGED <<origin, whole, manifest, overlapped>>
           /\ \E s \in TempSteps \cup PersistSteps :
                 cmd[c].pc = s[1] /\ cmd'[c] = [cmd[c] EXCEPT !.pc = s[2]]
<1>1. ASSUME NEW s \in TempSteps, Temp(c, s[1], s[2])
      PROVE  /\ Typed' /\ Others(c) /\ UNCHANGED <<origin, whole, manifest, overlapped>>
             /\ cmd[c].pc = s[1] /\ cmd'[c] = [cmd[c] EXCEPT !.pc = s[2]]
  <2>1. s[1] \in Pcs /\ s[2] \in Pcs \ Ended
    BY DEF TempSteps, Pcs, Ended
  <2>2. Active(c) /\ cmd[c].pc = s[1] /\ UNCHANGED <<origin, whole, manifest, overlapped>>
    BY <1>1 DEF Writing, Temp
  <2>3. Typed'
    BY <1>1, <2>1, <2>2, TempStep
  <2>4. Others(c) /\ cmd'[c] = [cmd[c] EXCEPT !.pc = s[2]]
    BY <1>1, <2>1, Advancing DEF Temp
  <2> QED
    BY <2>2, <2>3, <2>4
<1>2. ASSUME NEW s \in PersistSteps, Persist(c, s[1], s[1], s[2])
      PROVE  /\ Typed' /\ Others(c) /\ UNCHANGED <<origin, whole, manifest, overlapped>>
             /\ cmd[c].pc = s[1] /\ cmd'[c] = [cmd[c] EXCEPT !.pc = s[2]]
  <2>1. s[1] \in Pcs /\ s[2] \in Pcs \ Ended /\ s[1] \in Names
    BY DEF PersistSteps, Pcs, Ended, Names
  <2>2. Active(c) /\ cmd[c].pc = s[1] /\ UNCHANGED <<origin, whole, manifest, overlapped>>
    BY <1>2 DEF Writing, Persist
  <2> QED
    BY <1>2, <2>1, <2>2, PersistStep
<1> QED
  BY <1>1, <1>2 DEF Writing
---------------------------------------------------------------------------
(* Manifests, on disk and in a command's memory, tell what the launch did.  *)

(* Of a launch that ended as o, whole or not (w), data being there or not.  *)
Honest(o, w, data, m) ==
    /\ m.exists /\ (m.finished <=> o # "launched")
    /\ o = "partial" => m.partial
    /\ "data" \in DOMAIN m.files /\ ~m.partial => w
    /\ m.partial /\ w => o = "partial" \/ ~data

HonestRun(d, m) == Honest(origin[d], whole[d], Has(d, "data"), m)

Acceptable(d) == origin[d] \in {"complete", "unsealed"} /\ whole[d]

OwnPcs == {"integrity", "list", "hash", "manifest", "list_base", "check_base",
           "check_cand", "comparison_temp", "comparison"}
OtherPcs == {"load_cand", "list_base", "check_base", "check_cand"}

HonestCommand(r) ==
    /\ r.pc \in OwnPcs => HonestRun(r.dir, r.own)
    /\ r.pc \in OtherPcs => HonestRun(r.base, r.other)
    /\ r.pc \in {"list", "hash", "manifest"} /\ ~r.own.partial => whole[r.dir]
    /\ r.verdict = "accept" => r.pc # "idle" /\ Acceptable(r.dir) /\ Acceptable(r.base)

AllHonest ==
    /\ \A d \in Dirs : manifest[d].exists => HonestRun(d, manifest[d])
    /\ \A c \in Cmds : HonestCommand(cmd[c])

(* A command that goes by a manifest has one.                               *)
LEMMA HonestHas == AllHonest => HasManifest
  BY DEF AllHonest, HasManifest, HonestCommand, HonestRun, Honest, OwnPcs, OtherPcs

(* Data never come back.                                                    *)
LEMMA DataGoes ==
    ASSUME ArtifactsAssumption, Typed, HasManifest, [Next]_vars
    PROVE  UNCHANGED <<origin, whole>> /\ \A d \in Dirs : Has(d, "data")' => Has(d, "data")
<1>0. SUFFICES ASSUME Next PROVE UNCHANGED <<origin, whole>>
                                 /\ \A d \in Dirs : Has(d, "data")' => Has(d, "data")
  BY DEF vars, Has
<1>1. PICK c \in Cmds : Begin(c) \/ Analyze(c) \/ Compare(c) \/ FinalizeManifest(c)
                        \/ Clean(c) \/ Fail(c) \/ Crash(c)
  BY <1>0 DEF Next
<1>2. ASSUME NEW d \in Dirs, NEW p \in Paths, files'[d] = Without(files[d], p)
      PROVE  Has(d, "data")' => Has(d, "data")
  <2>1. files[d] \in Inventories /\ "launch" \in Contents
    BY DEF Typed, Contents
  <2>2. DOMAIN Without(files[d], p) = DOMAIN files[d] \ {p}
    BY <2>1, Edited
  <2>3. DOMAIN files'[d] \subseteq DOMAIN files[d]
    BY <1>2, <2>2
  <2> QED
    BY <2>3 DEF Has
<1>3. c \in Paths /\ c \in Contents /\ c # "data"
  BY ArtifactsAssumption DEF ArtifactsAssumption, Paths, Contents, Names
<1>4. CASE Begin(c) \/ Reading(c)
  <2>1. UNCHANGED <<origin, whole, files>>
    BY <1>4, BeginStep DEF Reading, Learning
  <2> QED
    BY <2>1 DEF Has
<1>5. CASE Writing(c)
  <2>1. UNCHANGED <<origin, whole>> /\ cmd[c].dir \in Dirs
    BY <1>5, WriteStep, InDirectory DEF Writing
  <2>2. \A d \in Dirs \ {cmd[c].dir} : files'[d] = files[d]
    BY <1>5, <2>1 DEF Writing, Temp, Persist, Typed
  <2>3. files[cmd[c].dir] \in Inventories
    BY <2>1 DEF Typed
  <2>4. Without(files[cmd[c].dir], c) \in Inventories
    BY <1>3, <2>3, Edited
  <2>5. "data" \in DOMAIN files'[cmd[c].dir] => "data" \in DOMAIN files[cmd[c].dir]
    <3>1. ASSUME NEW s \in TempSteps, Temp(c, s[1], s[2])
          PROVE  "data" \in DOMAIN files'[cmd[c].dir] => "data" \in DOMAIN files[cmd[c].dir]
      <4>1. files'[cmd[c].dir] = With(files[cmd[c].dir], c, c)
        BY <2>1, <3>1 DEF Temp, Typed
      <4>2. DOMAIN With(files[cmd[c].dir], c, c) = DOMAIN files[cmd[c].dir] \cup {c}
        BY <1>3, <2>3, Edited
      <4> QED
        BY <1>3, <4>1, <4>2
    <3>2. ASSUME NEW s \in PersistSteps, Persist(c, s[1], s[1], s[2])
          PROVE  "data" \in DOMAIN files'[cmd[c].dir] => "data" \in DOMAIN files[cmd[c].dir]
      <4>1. files'[cmd[c].dir] = With(Without(files[cmd[c].dir], c), s[1], c)
        BY <2>1, <3>2 DEF Persist, Typed
      <4>2. s[1] \in Paths /\ s[1] # "data"
        BY DEF PersistSteps, Paths, Names
      <4>3. DOMAIN Without(files[cmd[c].dir], c) = DOMAIN files[cmd[c].dir] \ {c}
        BY <1>3, <2>3, Edited
      <4>4. DOMAIN With(Without(files[cmd[c].dir], c), s[1], c)
               = DOMAIN Without(files[cmd[c].dir], c) \cup {s[1]}
        BY DEF With
      <4> QED
        BY <4>1, <4>2, <4>3, <4>4
    <3> QED
      BY <1>5, <3>1, <3>2 DEF Writing
  <2> QED
    BY <2>1, <2>2, <2>5 DEF Has
<1>6. CASE PersistManifest(c)
  <2>1. /\ UNCHANGED <<origin, whole>>
        /\ \A d \in Dirs : files'[d] = files[d] \/ files'[d] = Without(files[d], c)
    BY <1>6, ManifestStep DEF PersistManifest
  <2> QED
    BY <1>2, <1>3, <2>1 DEF Has
<1>7. CASE (\E p \in Paths : RemoveFile(c, p)) \/ RemoveManifest(c)
  <2>1. /\ UNCHANGED <<origin, whole>>
        /\ \A d \in Dirs : files'[d] = files[d] \/ \E p \in Paths : files'[d] = Without(files[d], p)
    BY <1>7, RemoveStep
  <2> QED
    BY <1>2, <2>1 DEF Has
<1>8. CASE Removed(c) \/ Fail(c) \/ Crash(c)
  <2>1. /\ UNCHANGED <<origin, whole>> /\ Active(c)
        /\ UNCHANGED files \/ files' = [files EXCEPT ![cmd[c].dir] = Without(@, c)]
    BY <1>8, StopStep
  <2>2. \A d \in Dirs : files'[d] = files[d] \/ files'[d] = Without(files[d], c)
    BY <2>1, InDirectory DEF Typed
  <2> QED
    BY <1>2, <1>3, <2>1, <2>2 DEF Has
<1> QED
  BY <1>1, <1>4, <1>5, <1>6, <1>7, <1>8, StepKinds

(* What is honest stays so.                                                 *)
LEMMA Lasting ==
    ASSUME ArtifactsAssumption, Typed, HasManifest, [Next]_vars
    PROVE  /\ \A o \in Cmds : cmd'[o] = cmd[o] /\ HonestCommand(cmd[o])
                              => HonestCommand(cmd[o])'
           /\ \A d \in Dirs : UNCHANGED manifest[d] /\ HonestRun(d, manifest[d])
                              => HonestRun(d, manifest[d])'
<1>1. UNCHANGED <<origin, whole>> /\ \A d \in Dirs : Has(d, "data")' => Has(d, "data")
  BY DataGoes
<1>2. ASSUME NEW d \in Dirs, UNCHANGED manifest[d], HonestRun(d, manifest[d])
      PROVE  HonestRun(d, manifest[d])'
  <2>1. manifest'[d] = manifest[d]
    BY <1>2
  <2> QED
    BY <1>1, <1>2, <2>1 DEF HonestRun, Honest
<1>3. ASSUME NEW o \in Cmds, cmd'[o] = cmd[o], HonestCommand(cmd[o])
      PROVE  HonestCommand(cmd[o])'
  <2>1. cmd[o].pc \in OwnPcs \cup OtherPcs => cmd[o].dir \in Dirs /\ cmd[o].base \in Dirs
    BY DEF Typed, Active, Ended, OwnPcs, OtherPcs
  <2>2. ASSUME cmd[o].pc \in OwnPcs PROVE HonestRun(cmd[o].dir, cmd[o].own)'
    BY <1>1, <1>3, <2>1, <2>2 DEF HonestCommand, HonestRun, Honest
  <2>3. ASSUME cmd[o].pc \in OtherPcs PROVE HonestRun(cmd[o].base, cmd[o].other)'
    BY <1>1, <1>3, <2>1, <2>3 DEF HonestCommand, HonestRun, Honest
  <2> QED
    BY <1>1, <1>3, <2>2, <2>3 DEF HonestCommand, Acceptable
<1> QED
  BY <1>2, <1>3

(* What a command reads in an honest directory, and makes of it, is honest. *)
LEMMA ReadsHonestly ==
    ASSUME Typed, AllHonest, NEW c \in Cmds, Active(c), NEW known, Knows(c, known)
    PROVE  HonestCommand(known)
<1>1. /\ cmd[c] \in Local /\ cmd[c].dir \in Dirs /\ cmd[c].base \in Dirs
      /\ HonestCommand(cmd[c])
  BY InDirectory DEF AllHonest
<1>2. CASE known = [cmd[c] EXCEPT !.pc = "summary_temp"]
  BY <1>1, <1>2 DEF HonestCommand, Local, OwnPcs, OtherPcs
<1>3. CASE known = Reloaded(c) /\ Reload(c)
  <2>1. HonestRun(cmd[c].dir, manifest[cmd[c].dir])
    BY <1>1, <1>3 DEF Reload, AllHonest
  <2>2. /\ known.pc = "integrity" /\ known.own = manifest[cmd[c].dir]
        /\ known.dir = cmd[c].dir /\ known.base = cmd[c].base
        /\ known.verdict = cmd[c].verdict
    BY <1>1, <1>3 DEF Reloaded, Local
  <2> QED
    BY <1>1, <1>3, <2>1, <2>2 DEF HonestCommand, OtherPcs, Reload
<1>4. CASE known = Judged(c) /\ Integrity(c)
  <2> DEFINE d == cmd[c].dir
             m == cmd[c].own
  <2>1. HonestRun(d, m) /\ m \in Manifests /\ cmd[c].pc = "integrity"
    BY <1>1, <1>4 DEF Integrity, HonestCommand, OwnPcs, Local
  <2>2. m = Manifest(m.finished, m.partial, m.files) /\ m.partial \in BOOLEAN
    BY <2>1, Existing DEF HonestRun, Honest
  <2>3. /\ known.pc = "list" /\ known.dir = d /\ known.base = cmd[c].base
        /\ known.verdict = cmd[c].verdict
        /\ known.own = [m EXCEPT !.partial = @ \/ ~(Has(d, "data") /\ whole[d])]
    BY <1>1, <1>4 DEF Judged, Local
  <2>4. /\ known.own.exists = m.exists /\ known.own.finished = m.finished
        /\ known.own.files = m.files
        /\ known.own.partial = (m.partial \/ ~(Has(d, "data") /\ whole[d]))
    BY <2>2, <2>3 DEF Manifest
  <2>5. HonestRun(d, known.own)
    BY <1>1, <2>1, <2>2, <2>4 DEF HonestRun, Honest, Typed
  <2>6. ~known.own.partial => whole[d]
    BY <1>1, <2>2, <2>4 DEF Typed, Has
  <2>7. known.verdict = "accept" =>
           known.pc # "idle" /\ Acceptable(known.dir) /\ Acceptable(known.base)
    BY <1>1, <2>3 DEF HonestCommand
  <2>8. HonestRun(known.dir, known.own) /\ known.pc \notin OtherPcs
    BY <2>3, <2>5 DEF OtherPcs
  <2>9. ~known.own.partial => whole[known.dir]
    BY <2>3, <2>6
  <2> QED
    BY <2>7, <2>8, <2>9 DEF HonestCommand
<1>5. CASE known = Listed(c) /\ List(c)
  <2>1. /\ known.pc = "hash" /\ cmd[c].pc = "list" /\ known.dir = cmd[c].dir
        /\ known.own = cmd[c].own /\ known.base = cmd[c].base
        /\ known.verdict = cmd[c].verdict
    BY <1>1, <1>5 DEF Listed, List, Local
  <2> QED
    BY <1>1, <2>1 DEF HonestCommand, OwnPcs, OtherPcs
<1>6. CASE \/ \E p \in Paths : known = Hashed(c, p) /\ HashOne(c, p)
           \/ \E p \in Paths, s \in {"check_base", "check_cand"} :
                 known = OneVerified(c, p) /\ VerifyOne(c, s, p)
  <2>1. /\ known.pc = cmd[c].pc /\ known.dir = cmd[c].dir
        /\ known.own = cmd[c].own /\ known.other = cmd[c].other
        /\ known.base = cmd[c].base /\ known.verdict = cmd[c].verdict
    BY <1>1, <1>6 DEF Hashed, OneVerified, Local
  <2> QED
    BY <1>1, <2>1 DEF HonestCommand
<1>7. CASE \/ known = BaselineRead(c) /\ ReadBaseline(c)
           \/ known = CandidateRead(c) /\ ReadCandidate(c)
  <2>1. /\ known.pc \in {"read_cand", "load_base"} /\ known.dir = cmd[c].dir
        /\ known.base = cmd[c].base /\ known.verdict = cmd[c].verdict
    BY <1>1, <1>7 DEF BaselineRead, CandidateRead, Local
  <2> QED
    BY <1>1, <1>7, <2>1 DEF HonestCommand, OwnPcs, OtherPcs, ReadBaseline, ReadCandidate
<1>8. CASE known = BaselineLoaded(c) /\ LoadBaseline(c)
  <2>1. HonestRun(cmd[c].base, manifest[cmd[c].base])
    BY <1>1, <1>8 DEF LoadBaseline, AllHonest
  <2>2. /\ known.pc = "load_cand" /\ known.other = manifest[cmd[c].base]
        /\ known.dir = cmd[c].dir /\ known.base = cmd[c].base
        /\ known.verdict = cmd[c].verdict
    BY <1>1, <1>8 DEF BaselineLoaded, Local
  <2> QED
    BY <1>1, <1>8, <2>1, <2>2 DEF HonestCommand, OwnPcs, LoadBaseline
<1>9. CASE known = CandidateLoaded(c) /\ LoadCandidate(c)
  <2>1. HonestRun(cmd[c].dir, manifest[cmd[c].dir])
    BY <1>1, <1>9 DEF LoadCandidate, AllHonest
  <2>2. /\ known.pc = "list_base" /\ known.own = manifest[cmd[c].dir]
        /\ known.other = cmd[c].other
        /\ known.dir = cmd[c].dir /\ known.base = cmd[c].base
        /\ known.verdict = cmd[c].verdict
    BY <1>1, <1>9 DEF CandidateLoaded, Local
  <2> QED
    BY <1>1, <1>9, <2>1, <2>2 DEF HonestCommand, OtherPcs, LoadCandidate
<1>10. CASE \/ known = Verifying(c, "check_base") /\ VerifyList(c, "list_base", "check_base")
            \/ known = Verifying(c, "check_cand") /\ VerifyList(c, "check_base", "check_cand")
  <2>1. /\ known.pc \in {"check_base", "check_cand"} /\ known.dir = cmd[c].dir
        /\ known.own = cmd[c].own /\ known.other = cmd[c].other
        /\ known.base = cmd[c].base /\ known.verdict = cmd[c].verdict
    BY <1>1, <1>10 DEF Verifying, Local
  <2>2. cmd[c].pc \in {"list_base", "check_base"}
    BY <1>10 DEF VerifyList
  <2> QED
    BY <1>1, <2>1, <2>2 DEF HonestCommand, OwnPcs, OtherPcs
<1>11. ASSUME NEW v \in {"accept", "reject"}, known = Decided(c, v), Decide(c),
              v = "accept" => Comparable(cmd[c].other, cmd[c].own)
       PROVE  HonestCommand(known)
  <2>1. /\ known.pc = "comparison_temp" /\ known.dir = cmd[c].dir
        /\ known.own = cmd[c].own /\ known.base = cmd[c].base /\ known.verdict = v
    BY <1>1, <1>11 DEF Decided, Local
  <2>2. HonestRun(cmd[c].dir, cmd[c].own) /\ HonestRun(cmd[c].base, cmd[c].other)
    BY <1>1, <1>11 DEF Decide, HonestCommand, OwnPcs, OtherPcs
  <2>3. v = "accept" => Acceptable(cmd[c].dir) /\ Acceptable(cmd[c].base)
    BY <1>1, <1>11, <2>2 DEF Comparable, HonestRun, Honest, Acceptable, Typed, Origins
  <2> QED
    BY <2>1, <2>2, <2>3 DEF HonestCommand, OtherPcs
<1> QED
  BY <1>2, <1>3, <1>4, <1>5, <1>6, <1>7, <1>8, <1>9, <1>10, <1>11 DEF Knows

(* Every step leaves what manifests tell true.                              *)
LEMMA HonestStep ==
    ASSUME ArtifactsAssumption, Typed, AllHonest, [Next]_vars
    PROVE  AllHonest'
<1>0. HasManifest
  BY HonestHas
<1>1. CASE UNCHANGED vars
  BY <1>1 DEF AllHonest, HonestCommand, HonestRun, Acceptable, Has, vars
<1>2. CASE Next
  <2>1. PICK c \in Cmds : Begin(c) \/ Analyze(c) \/ Compare(c) \/ FinalizeManifest(c)
                          \/ Clean(c) \/ Fail(c) \/ Crash(c)
    BY <1>2 DEF Next
  <2>2. UNCHANGED <<origin, whole>> /\ \A d \in Dirs : Has(d, "data")' => Has(d, "data")
    BY <1>0, DataGoes
  <2>3. ASSUME Others(c), HonestCommand(cmd[c])' PROVE \A o \in Cmds : HonestCommand(cmd[o])'
    BY <1>0, <2>3, Lasting DEF Others, AllHonest
  <2>4. ASSUME UNCHANGED manifest
        PROVE  \A d \in Dirs : manifest'[d].exists => HonestRun(d, manifest[d])'
    BY <1>0, <2>4, Lasting DEF AllHonest
  <2>5. CASE Begin(c)
    <3>1. /\ Others(c) /\ UNCHANGED manifest /\ cmd[c].pc = "idle"
          /\ cmd'[c].verdict = cmd[c].verdict /\ cmd'[c].pc \in {"load", "read_base", "remove"}
      BY <2>5, BeginStep
    <3>2. cmd'[c].verdict # "accept"
      BY <3>1 DEF AllHonest, HonestCommand
    <3>3. HonestCommand(cmd[c])'
      BY <3>1, <3>2 DEF HonestCommand, OwnPcs, OtherPcs
    <3> QED
      BY <2>3, <2>4, <3>1, <3>3 DEF AllHonest
  <2>6. CASE Reading(c)
    <3>1. PICK known : Active(c) /\ Learning(c, known) /\ Knows(c, known)
      BY <2>6 DEF Reading
    <3>2. Others(c) /\ cmd'[c] = known /\ UNCHANGED <<origin, whole, files, manifest>>
      BY <3>1, Learned DEF Learning
    <3>3. HonestCommand(known)
      BY <3>1, ReadsHonestly
    <3>4. HonestCommand(cmd[c])'
      BY <3>2, <3>3 DEF HonestCommand, HonestRun, Acceptable, Has
    <3> QED
      BY <2>3, <2>4, <3>2, <3>4 DEF AllHonest
  <2>7. CASE Writing(c)
    <3>1. /\ Others(c) /\ UNCHANGED <<origin, whole, manifest, overlapped>>
      BY <2>7, WriteStep
    <3>2. PICK s \in TempSteps \cup PersistSteps :
             cmd[c].pc = s[1] /\ cmd'[c] = [cmd[c] EXCEPT !.pc = s[2]]
      BY <2>7, WriteStep
    <3>3. /\ cmd'[c].dir = cmd[c].dir /\ cmd'[c].base = cmd[c].base
          /\ cmd'[c].own = cmd[c].own /\ cmd'[c].verdict = cmd[c].verdict
          /\ cmd'[c].pc = s[2] /\ cmd[c].dir \in Dirs
      BY <2>7, <3>2, InDirectory DEF Writing, Local
    <3>4. /\ s[2] \in OwnPcs => s[1] \in OwnPcs
          /\ s[2] \notin OtherPcs /\ s[2] # "idle"
          /\ s[2] \in {"list", "hash", "manifest"} => s[1] = "hash"
      BY DEF TempSteps, PersistSteps, OwnPcs, OtherPcs
    <3>5. HonestCommand(cmd[c])
      BY DEF AllHonest
    <3>6. s[2] \in OwnPcs => HonestRun(cmd[c].dir, cmd[c].own)'
      BY <2>2, <3>2, <3>3, <3>4, <3>5 DEF HonestCommand, HonestRun, Honest
    <3>7. HonestCommand(cmd[c])'
      BY <2>2, <3>2, <3>3, <3>4, <3>5, <3>6 DEF HonestCommand, Acceptable
    <3> QED
      BY <2>3, <2>4, <3>1, <3>7 DEF AllHonest
  <2>8. CASE PersistManifest(c)
    <3>1. /\ Others(c) /\ cmd'[c] = NotRunning("done") /\ Active(c)
          /\ \A d \in Dirs \ {cmd[c].dir} : UNCHANGED manifest[d]
          /\ manifest'[cmd[c].dir] =
                 Manifest(cmd[c].own.finished, cmd[c].own.partial, cmd[c].seen)
      BY <1>0, <2>8, ManifestStep
    <3>2. HonestRun(cmd[c].dir, cmd[c].own) /\ (~cmd[c].own.partial => whole[cmd[c].dir])
          /\ cmd[c].dir \in Dirs
      BY <2>8, <3>1, InDirectory DEF PersistManifest, AllHonest, HonestCommand, OwnPcs
    <3>3. HonestRun(cmd[c].dir, manifest'[cmd[c].dir])
      BY <3>1, <3>2 DEF HonestRun, Honest, Manifest
    <3>4. \A d \in Dirs : manifest'[d].exists => HonestRun(d, manifest[d])'
      BY <1>0, <2>2, <3>1, <3>2, <3>3, Lasting DEF AllHonest, HonestRun, Honest
    <3>5. HonestCommand(cmd[c])'
      BY <3>1 DEF HonestCommand, NotRunning, OwnPcs, OtherPcs
    <3> QED
      BY <2>3, <3>1, <3>4, <3>5 DEF AllHonest
  <2>9. CASE (\E p \in Paths : RemoveFile(c, p)) \/ RemoveManifest(c)
    <3>1. /\ UNCHANGED cmd
          /\ \A d \in Dirs : UNCHANGED manifest[d] \/ manifest'[d] = None
      BY <2>9, RemoveStep
    <3>2. \A o \in Cmds : HonestCommand(cmd[o])'
      BY <1>0, <3>1, Lasting DEF AllHonest
    <3>3. \A d \in Dirs : manifest'[d].exists => HonestRun(d, manifest[d])'
      BY <1>0, <3>1, Lasting DEF AllHonest, None
    <3> QED
      BY <3>2, <3>3 DEF AllHonest
  <2>10. CASE Removed(c) \/ Fail(c) \/ Crash(c)
    <3>1. Others(c) /\ UNCHANGED manifest /\ \E pc \in Ended : cmd'[c] = NotRunning(pc)
      BY <2>10, StopStep
    <3>2. HonestCommand(cmd[c])'
      BY <3>1 DEF HonestCommand, NotRunning, OwnPcs, OtherPcs, Ended
    <3> QED
      BY <2>3, <2>4, <3>1, <3>2 DEF AllHonest
  <2> QED
    BY <1>0, <2>1, <2>5, <2>6, <2>7, <2>8, <2>9, <2>10, StepKinds
<1> QED
  BY <1>1, <1>2
---------------------------------------------------------------------------
(* How launches leave their runs.                                           *)
LEMMA Leaving ==
    ASSUME NEW o \in Origins, NEW w \in BOOLEAN, o = "complete" => w
    PROVE  /\ Left(o)[1] \in Inventories /\ Left(o)[2] \in Manifests
           /\ DOMAIN Left(o)[1] \subseteq Names
           /\ Honest(o, w, "data" \in DOMAIN Left(o)[1], Left(o)[2])
<1> DEFINE ran == [p \in {"data", "summary"} |-> "launch"]
           raw == [p \in {"data"} |-> "launch"]
<1>1. ran \in Inventories /\ raw \in Inventories /\ Empty \in Inventories
  <2>1. /\ {"data", "summary"} \in SUBSET Paths /\ {"data"} \in SUBSET Paths
        /\ "launch" \in Cmds \cup {"launch"}
    BY DEF Paths, Names
  <2>2. /\ ran \in [{"data", "summary"} -> Cmds \cup {"launch"}]
        /\ raw \in [{"data"} -> Cmds \cup {"launch"}]
    OBVIOUS
  <2> HIDE DEF ran, raw
  <2> QED
    BY <2>1, <2>2, EmptyInventory DEF Inventories
<1>2. DOMAIN ran = {"data", "summary"} /\ DOMAIN raw = {"data"} /\ DOMAIN Empty = {}
  BY EmptyInventory
<1> HIDE DEF ran, raw
<1>3. CASE o = "complete"
  <2>1. Left(o)[1] = ran /\ Left(o)[2] = Manifest(TRUE, FALSE, ran)
    BY <1>3 DEF Left, ran
  <2>2. Left(o)[2] \in Manifests
    BY <1>1, <2>1 DEF Manifest, Manifests
  <2>3. /\ Left(o)[2].exists /\ Left(o)[2].finished = TRUE
        /\ Left(o)[2].partial = FALSE /\ Left(o)[2].files = ran
    BY <2>1 DEF Manifest
  <2>4. Honest(o, w, "data" \in DOMAIN Left(o)[1], Left(o)[2])
    BY <1>2, <1>3, <2>3 DEF Honest
  <2> QED
    BY <1>1, <1>2, <2>1, <2>2, <2>4 DEF Names
<1>4. CASE o = "partial"
  <2>1. Left(o)[1] = ran /\ Left(o)[2] = Manifest(TRUE, TRUE, ran)
    BY <1>4 DEF Left, ran
  <2>2. Left(o)[2] \in Manifests
    BY <1>1, <2>1 DEF Manifest, Manifests
  <2>3. /\ Left(o)[2].exists /\ Left(o)[2].finished = TRUE
        /\ Left(o)[2].partial = TRUE /\ Left(o)[2].files = ran
    BY <2>1 DEF Manifest
  <2>4. Honest(o, w, "data" \in DOMAIN Left(o)[1], Left(o)[2])
    BY <1>2, <1>4, <2>3 DEF Honest
  <2> QED
    BY <1>1, <1>2, <2>1, <2>2, <2>4 DEF Names
<1>5. CASE o = "unsealed"
  <2>1. Left(o)[1] = ran /\ Left(o)[2] = Manifest(TRUE, FALSE, Empty)
    BY <1>5 DEF Left, ran
  <2>2. Left(o)[2] \in Manifests
    BY <1>1, <2>1 DEF Manifest, Manifests
  <2>3. /\ Left(o)[2].exists /\ Left(o)[2].finished = TRUE
        /\ Left(o)[2].partial = FALSE /\ Left(o)[2].files = Empty
    BY <2>1 DEF Manifest
  <2>4. Honest(o, w, "data" \in DOMAIN Left(o)[1], Left(o)[2])
    BY <1>2, <1>5, <2>3 DEF Honest
  <2> QED
    BY <1>1, <1>2, <2>1, <2>2, <2>4 DEF Names
<1>6. CASE o = "launched"
  <2>1. Left(o)[1] = raw /\ Left(o)[2] = Manifest(FALSE, FALSE, Empty)
    BY <1>6 DEF Left, raw
  <2>2. Left(o)[2] \in Manifests
    BY <1>1, <2>1 DEF Manifest, Manifests
  <2>3. /\ Left(o)[2].exists /\ Left(o)[2].finished = FALSE
        /\ Left(o)[2].partial = FALSE /\ Left(o)[2].files = Empty
    BY <2>1 DEF Manifest
  <2>4. Honest(o, w, "data" \in DOMAIN Left(o)[1], Left(o)[2])
    BY <1>2, <1>6, <2>3 DEF Honest
  <2> QED
    BY <1>1, <1>2, <2>1, <2>2, <2>4 DEF Names
<1> QED
  BY <1>3, <1>4, <1>5, <1>6 DEF Origins

(* Launches leave true manifests, and no command has begun.                 *)
LEMMA InitHonest ==
    ASSUME Init
    PROVE  Typed /\ AllHonest
<1>1. /\ origin \in [Dirs -> Origins] /\ whole \in [Dirs -> BOOLEAN]
      /\ \A d \in Dirs : origin[d] = "complete" => whole[d]
      /\ files = [d \in Dirs |-> Left(origin[d])[1]]
      /\ manifest = [d \in Dirs |-> Left(origin[d])[2]]
      /\ cmd = [c \in Cmds |-> NotRunning("idle")] /\ overlapped = FALSE
  BY DEF Init
<1>2. ASSUME NEW d \in Dirs
      PROVE  /\ files[d] \in Inventories /\ manifest[d] \in Manifests
             /\ HonestRun(d, manifest[d])
  <2>1. /\ origin[d] \in Origins /\ whole[d] \in BOOLEAN /\ (origin[d] = "complete" => whole[d])
        /\ files[d] = Left(origin[d])[1] /\ manifest[d] = Left(origin[d])[2]
    BY <1>1
  <2> QED
    BY <2>1, Leaving DEF HonestRun, Has
<1>3. NotRunning("idle") \in Local
  <2>1. Empty \in Inventories /\ None \in Manifests
    BY EmptyInventory DEF Manifests
  <2> QED
    BY <2>1 DEF NotRunning, Local, Pcs
<1>4. \A c \in Cmds : cmd[c] = NotRunning("idle") /\ ~Active(c)
  BY <1>1 DEF Active, NotRunning
<1>5. Typed
  <2>1. /\ files \in [Dirs -> Inventories] /\ manifest \in [Dirs -> Manifests]
    BY <1>1, <1>2
  <2>2. cmd \in [Cmds -> Local]
    BY <1>1, <1>3
  <2> QED
    BY <1>1, <1>4, <2>1, <2>2 DEF Typed
<1>6. \A c \in Cmds : HonestCommand(cmd[c])
  BY <1>4 DEF HonestCommand, NotRunning, OwnPcs, OtherPcs
<1> QED
  BY <1>2, <1>5, <1>6 DEF AllHonest

(* Every step keeps the types.                                              *)
LEMMA TypedStep ==
    ASSUME ArtifactsAssumption, Typed, AllHonest, [Next]_vars
    PROVE  Typed'
<1>1. CASE UNCHANGED vars
  BY <1>1 DEF Typed, Active, vars
<1>2. CASE Next
  <2>1. PICK c \in Cmds : Begin(c) \/ Analyze(c) \/ Compare(c) \/ FinalizeManifest(c)
                          \/ Clean(c) \/ Fail(c) \/ Crash(c)
    BY <1>2 DEF Next
  <2>2. CASE Begin(c)
    BY <2>2, BeginStep
  <2>3. CASE Reading(c)
    BY <2>3, Learned DEF Reading
  <2>4. CASE Writing(c)
    BY <2>4, WriteStep
  <2>5. CASE PersistManifest(c)
    BY <2>5, HonestHas, ManifestStep
  <2>6. CASE (\E p \in Paths : RemoveFile(c, p)) \/ RemoveManifest(c)
    BY <2>6, RemoveStep
  <2>7. CASE Removed(c) \/ Fail(c) \/ Crash(c)
    BY <2>7, StopStep
  <2> QED
    BY <2>1, <2>2, <2>3, <2>4, <2>5, <2>6, <2>7, HonestHas, StepKinds
<1> QED
  BY <1>1, <1>2

HonestInv == Typed /\ AllHonest

(* For any number of commands, at the same time or not: the invariant of    *)
(* manifests and of what commands remember of them.                         *)
THEOREM Honesty == Spec => []HonestInv
<1>1. Init => HonestInv
  BY InitHonest DEF HonestInv
<1>2. HonestInv /\ [Next]_vars => HonestInv'
  BY ArtifactsAssumption, TypedStep, HonestStep DEF HonestInv
<1> QED
  BY <1>1, <1>2, PTL DEF Spec

(* Directories, inventories and commands keep to their types; a command that*)
(* finalizes a run has read its manifest.                                   *)
THEOREM TypeCorrect == Spec => []TypeOK
<1>1. HonestInv => TypeOK
  <2> SUFFICES ASSUME HonestInv PROVE TypeOK
    OBVIOUS
  <2>1. ASSUME NEW d \in Dirs
        PROVE  /\ DOMAIN files[d] \subseteq Paths
               /\ \A p \in DOMAIN files[d] : files[d][p] \in Contents
               /\ manifest[d].exists => DOMAIN manifest[d].files \subseteq Paths
    <3>1. files[d] \in Inventories /\ manifest[d] \in Manifests
      BY DEF HonestInv, Typed
    <3> QED
      BY <3>1, Existing, Inventory
  <2>2. ASSUME NEW c \in Cmds
        PROVE  /\ cmd[c].todo \subseteq Paths /\ DOMAIN cmd[c].seen \subseteq Paths
               /\ cmd[c].verdict \in {"none", "accept", "reject"}
    <3>1. cmd[c] \in Local
      BY DEF HonestInv, Typed
    <3>2. /\ cmd[c].todo \in SUBSET Paths /\ cmd[c].seen \in Inventories
          /\ cmd[c].verdict \in {"none", "accept", "reject"}
      BY <3>1 DEF Local
    <3> QED
      BY <3>2, Inventory
  <2>3. \A c \in Cmds : cmd[c].pc \in {"integrity", "list", "hash", "manifest"}
                        => cmd[c].own.exists
    BY HonestHas DEF HonestInv, HasManifest
  <2> QED
    BY <2>1, <2>2, <2>3 DEF TypeOK
<1> QED
  BY <1>1, Honesty, PTL

(* compare accepts no partial run and none whose launch was killed before   *)
(* its manifest said that it finished, whatever commands have been at it;   *)
(* one killed between that and the sealed manifest it may accept.            *)
THEOREM Accepts_OnlyFinishedRuns == Spec => []AcceptsOnlyFinishedRuns
<1>1. HonestInv => AcceptsOnlyFinishedRuns
  BY DEF HonestInv, AllHonest, HonestCommand, Acceptable, AcceptsOnlyFinishedRuns
<1> QED
  BY <1>1, Honesty, PTL

(* finalize_manifest takes nothing back but where clean has taken the data. *)
THEOREM Manifest_OnlyWorsens == Spec => ManifestOnlyWorsens
<1>1. ASSUME HonestInv, HonestInv', [Next]_vars, NEW d \in Dirs,
             manifest[d].exists, manifest'[d].exists
      PROVE  /\ manifest'[d].finished => manifest[d].finished
             /\ manifest[d].partial /\ ~manifest'[d].partial =>
                   origin[d] # "partial" /\ whole[d] /\ ~Has(d, "data")
  <2>1. HonestRun(d, manifest[d]) /\ HonestRun(d, manifest[d])'
    BY <1>1 DEF HonestInv, AllHonest
  <2>2. UNCHANGED <<origin, whole>>
    BY <1>1, ArtifactsAssumption, HonestHas, DataGoes DEF HonestInv
  <2>3. manifest[d].partial /\ ~manifest'[d].partial => whole[d]
    <3>1. HasManifest /\ Typed
      BY <1>1, HonestHas DEF HonestInv
    <3>2. ASSUME manifest'[d] # manifest[d], ~manifest'[d].partial PROVE whole[d]
      <4>1. PICK c \in Cmds : PersistManifest(c)
        <5>1. PICK c \in Cmds : Begin(c) \/ Analyze(c) \/ Compare(c) \/ FinalizeManifest(c)
                                \/ Clean(c) \/ Fail(c) \/ Crash(c)
          BY <1>1, <3>2 DEF Next, vars
        <5>2. CASE Begin(c) \/ Reading(c) \/ Writing(c) \/ Removed(c) \/ Fail(c) \/ Crash(c)
          BY <3>1, <3>2, <5>2, ArtifactsAssumption, BeginStep, WriteStep, StopStep
             DEF Reading, Learning
        <5>3. CASE (\E p \in Paths : RemoveFile(c, p)) \/ RemoveManifest(c)
          BY <1>1, <3>1, <3>2, <5>3, RemoveStep DEF None
        <5> QED
          BY <3>1, <5>1, <5>2, <5>3, StepKinds
      <4>2. /\ d = cmd[c].dir
            /\ manifest'[d] = Manifest(cmd[c].own.finished, cmd[c].own.partial, cmd[c].seen)
        BY <3>1, <3>2, <4>1, ManifestStep
      <4>3. cmd[c].pc = "manifest" /\ ~cmd[c].own.partial
        BY <3>2, <4>1, <4>2 DEF PersistManifest, Manifest
      <4> QED
        BY <1>1, <4>2, <4>3 DEF HonestInv, AllHonest, HonestCommand
    <3> QED
      BY <3>2
  <2> QED
    BY <2>1, <2>2, <2>3 DEF HonestRun, Honest
<1>2. HonestInv /\ HonestInv' /\ [Next]_vars =>
         [\A d \in Dirs : manifest[d].exists /\ manifest'[d].exists =>
             /\ manifest'[d].finished => manifest[d].finished
             /\ manifest[d].partial /\ ~manifest'[d].partial =>
                   origin[d] # "partial" /\ whole[d] /\ ~Has(d, "data")]_vars
  BY <1>1
<1> QED
  BY <1>2, Honesty, PTL DEF Spec, ManifestOnlyWorsens
---------------------------------------------------------------------------
(* Commands one after the other.                                            *)

TempPcs == {"summary", "report", "comparison", "manifest"}

(* A temporary file is that of a command at work, or of one that was killed.*)
Temporary ==
    \A c \in Cmds, d \in Dirs : Has(d, c) =>
        cmd[c].pc = "crashed" \/ (cmd[c].pc \in TempPcs /\ cmd[c].dir = d)

Verifieds == {"list_base", "check_base", "check_cand"}

Agree(f, g, todo) == DOMAIN f = DOMAIN g /\ \A p \in DOMAIN g \ todo : f[p] = g[p]

(* What a command remembers is still there: what it has hashed, and the     *)
(* summaries and manifests that it has read, as far as verified.            *)
Remembers(c, r) ==
    /\ r.pc = "hash" => /\ DOMAIN files[r.dir] = DOMAIN r.seen \cup r.todo
                        /\ \A p \in DOMAIN r.seen : r.seen[p] = files[r.dir][p]
    /\ r.pc = "manifest" => Without(files[r.dir], c) = r.seen
    /\ r.pc \in Verifieds \cup {"read_cand", "load_base", "load_cand"} =>
          r.baseline = files[r.base]["summary"]
    /\ r.pc \in Verifieds \cup {"load_base", "load_cand"} =>
          r.candidate = files[r.dir]["summary"]
    /\ r.pc \in Verifieds \cup {"load_cand"} => r.other = manifest[r.base]
    /\ r.pc \in Verifieds => r.own = manifest[r.dir]
    /\ r.pc = "check_base" => Agree(files[r.base], r.other.files, r.todo)
    /\ r.pc = "check_cand" => /\ files[r.base] = r.other.files
                              /\ Agree(files[r.dir], r.own.files, r.todo)

OneAtATime ==
    ~overlapped =>
        /\ \A c, o \in Cmds : Active(c) /\ Active(o) => c = o
        /\ \A c \in Cmds : Remembers(c, cmd[c])

(* What each kind of step does to the directories.                          *)
LEMMA FilesOf ==
    ASSUME ArtifactsAssumption, Typed, NEW c \in Cmds
    PROVE  /\ \A s \in TempSteps : Active(c) /\ Temp(c, s[1], s[2]) =>
                 /\ \A d \in Dirs \ {cmd[c].dir} : files'[d] = files[d]
                 /\ files'[cmd[c].dir] = With(files[cmd[c].dir], c, c)
           /\ \A s \in PersistSteps : Active(c) /\ Persist(c, s[1], s[1], s[2]) =>
                 /\ \A d \in Dirs \ {cmd[c].dir} : files'[d] = files[d]
                 /\ DOMAIN files'[cmd[c].dir] = (DOMAIN files[cmd[c].dir] \ {c}) \cup {s[1]}
<1>1. ASSUME NEW s \in TempSteps, Active(c), Temp(c, s[1], s[2])
      PROVE  /\ \A d \in Dirs \ {cmd[c].dir} : files'[d] = files[d]
             /\ files'[cmd[c].dir] = With(files[cmd[c].dir], c, c)
  <2>1. cmd[c].dir \in Dirs
    BY <1>1, InDirectory
  <2> QED
    BY <1>1, <2>1 DEF Temp, Typed
<1>2. ASSUME NEW s \in PersistSteps, Active(c), Persist(c, s[1], s[1], s[2])
      PROVE  /\ \A d \in Dirs \ {cmd[c].dir} : files'[d] = files[d]
             /\ DOMAIN files'[cmd[c].dir] = (DOMAIN files[cmd[c].dir] \ {c}) \cup {s[1]}
  <2>1. cmd[c].dir \in Dirs
    BY <1>2, InDirectory
  <2>2. /\ \A d \in Dirs \ {cmd[c].dir} : files'[d] = files[d]
        /\ files'[cmd[c].dir] = With(Without(files[cmd[c].dir], c), s[1], c)
    BY <1>2, <2>1 DEF Persist, Typed
  <2>3. DOMAIN Without(files[cmd[c].dir], c) = DOMAIN files[cmd[c].dir] \ {c}
    BY DEF Without, Restrict
  <2>4. DOMAIN With(Without(files[cmd[c].dir], c), s[1], c)
           = DOMAIN Without(files[cmd[c].dir], c) \cup {s[1]}
    BY DEF With
  <2> QED
    BY <2>2, <2>3, <2>4
<1> QED
  BY <1>1, <1>2

(* Every temporary file has its command, or one that was killed.            *)
LEMMA TemporaryStep ==
    ASSUME ArtifactsAssumption, Typed, AllHonest, Temporary, [Next]_vars
    PROVE  Temporary'
<1>1. CASE UNCHANGED vars
  BY <1>1 DEF Temporary, Has, vars
<1>2. CASE Next
  <2>1. PICK c \in Cmds : Begin(c) \/ Analyze(c) \/ Compare(c) \/ FinalizeManifest(c)
                          \/ Clean(c) \/ Fail(c) \/ Crash(c)
    BY <1>2 DEF Next
  <2>2. \A d \in Dirs, p \in Paths : DOMAIN Without(files[d], p) = DOMAIN files[d] \ {p}
    BY DEF Without, Restrict
  <2>0. c \in Paths
    BY DEF Paths
  <2>3. ASSUME Others(c), \A d \in Dirs : DOMAIN files'[d] \subseteq DOMAIN files[d] \cup {c} \cup Names,
               NEW o \in Cmds \ {c}, NEW d \in Dirs, Has(d, o)'
        PROVE  (cmd[o].pc = "crashed" \/ (cmd[o].pc \in TempPcs /\ cmd[o].dir = d))'
    <3>1. o \notin Names
      BY ArtifactsAssumption DEF ArtifactsAssumption
    <3>2. Has(d, o) /\ cmd'[o] = cmd[o]
      BY <2>3, <3>1 DEF Has, Others
    <3> QED
      BY <3>2 DEF Temporary
  <2>4. CASE Begin(c)
    <3>1. Others(c) /\ UNCHANGED files /\ cmd[c].pc = "idle"
      BY <2>4, BeginStep
    <3>2. \A d \in Dirs : ~Has(d, c)'
      BY <3>1 DEF Has, Temporary, TempPcs
    <3> QED
      BY <2>3, <3>1, <3>2 DEF Temporary
  <2>5. CASE Reading(c)
    <3>1. PICK known : Active(c) /\ Learning(c, known) /\ Knows(c, known)
      BY <2>5 DEF Reading
    <3>2. Others(c) /\ UNCHANGED files
      BY <3>1, Learned DEF Learning
    <3>3. cmd[c].pc \notin TempPcs /\ cmd[c].pc # "crashed"
      BY <3>1 DEF Knows, TempPcs, Active, Ended, Load, Reload, Integrity, List, HashOne,
                  ReadBaseline, ReadCandidate, LoadBaseline, LoadCandidate, VerifyList,
                  VerifyOne, Decide
    <3>4. \A d \in Dirs : ~Has(d, c)'
      BY <3>2, <3>3 DEF Has, Temporary
    <3> QED
      BY <2>3, <3>2, <3>4 DEF Temporary
  <2>6. CASE Writing(c)
    <3>1. Others(c) /\ cmd[c].dir \in Dirs /\ cmd[c] \in Local /\ Active(c)
      BY <2>6, WriteStep, InDirectory DEF Writing
    <3>2. ASSUME NEW s \in TempSteps, Temp(c, s[1], s[2]) PROVE Temporary'
      <4>1. /\ \A d \in Dirs \ {cmd[c].dir} : files'[d] = files[d]
            /\ files'[cmd[c].dir] = With(files[cmd[c].dir], c, c)
        BY <3>1, <3>2, FilesOf
      <4>2. DOMAIN files'[cmd[c].dir] = DOMAIN files[cmd[c].dir] \cup {c}
        BY <4>1 DEF With
      <4>3. cmd[c].pc = s[1] /\ cmd'[c].pc = s[2] /\ cmd'[c].dir = cmd[c].dir
        BY <3>1, <3>2 DEF Temp, Typed, Local
      <4>4. s[1] \notin TempPcs /\ s[2] \in TempPcs /\ cmd[c].pc # "crashed"
        BY <3>1 DEF TempSteps, TempPcs, Active, Ended
      <4>5. \A d \in Dirs : Has(d, c)' => d = cmd[c].dir
        BY <4>1, <4>3, <4>4 DEF Temporary, Has
      <4> QED
        BY <2>3, <3>1, <4>1, <4>2, <4>3, <4>4, <4>5 DEF Temporary
    <3>3. ASSUME NEW s \in PersistSteps, Persist(c, s[1], s[1], s[2]) PROVE Temporary'
      <4>1. /\ \A d \in Dirs \ {cmd[c].dir} : files'[d] = files[d]
            /\ DOMAIN files'[cmd[c].dir] = (DOMAIN files[cmd[c].dir] \ {c}) \cup {s[1]}
        BY <3>1, <3>3, FilesOf
      <4>2. s[1] \in Names /\ s[1] # c
        BY ArtifactsAssumption DEF PersistSteps, Names, ArtifactsAssumption
      <4>3. cmd[c].pc # "crashed"
        BY <3>1 DEF Active, Ended
      <4>4. \A d \in Dirs : ~Has(d, c)'
        BY <4>1, <4>2, <4>3 DEF Temporary, Has
      <4> QED
        BY <2>3, <3>1, <4>1, <4>2, <4>4 DEF Temporary
    <3> QED
      BY <2>6, <3>2, <3>3 DEF Writing
  <2>7. CASE PersistManifest(c)
    <3>1. /\ Others(c) /\ Active(c)
          /\ \A d \in Dirs \ {cmd[c].dir} : files'[d] = files[d]
          /\ files'[cmd[c].dir] = Without(files[cmd[c].dir], c)
      BY <2>7, HonestHas, ManifestStep
    <3>0. cmd[c].dir \in Dirs /\ DOMAIN files'[cmd[c].dir] = DOMAIN files[cmd[c].dir] \ {c}
      BY <2>0, <2>2, <3>1, InDirectory
    <3>2. \A d \in Dirs : DOMAIN files'[d] \subseteq DOMAIN files[d]
      BY <3>0, <3>1
    <3>3. \A d \in Dirs : ~Has(d, c)'
      BY <3>0, <3>1 DEF Temporary, Has, Active, Ended
    <3> QED
      BY <2>3, <3>1, <3>2, <3>3 DEF Temporary
  <2>8. CASE (\E p \in Paths : RemoveFile(c, p)) \/ RemoveManifest(c)
    <3>1. UNCHANGED cmd /\ \A d \in Dirs : DOMAIN files'[d] \subseteq DOMAIN files[d]
      <4>1. /\ UNCHANGED cmd
            /\ \A d \in Dirs : \/ UNCHANGED files[d]
                               \/ \E p \in Paths : files'[d] = Without(files[d], p)
        BY <2>8, RemoveStep
      <4>2. ASSUME NEW d \in Dirs PROVE DOMAIN files'[d] \subseteq DOMAIN files[d]
        <5>1. CASE UNCHANGED files[d]
          BY <5>1
        <5>2. ASSUME NEW p \in Paths, files'[d] = Without(files[d], p)
              PROVE  DOMAIN files'[d] \subseteq DOMAIN files[d]
          BY <5>2 DEF Without, Restrict
        <5> QED
          BY <4>1, <5>1, <5>2
      <4> QED
        BY <4>1, <4>2
    <3> QED
      BY <3>1 DEF Temporary, Has
  <2>9. CASE Removed(c) \/ Fail(c)
    <3>1. /\ Others(c) /\ Active(c) /\ cmd[c].dir \in Dirs
          /\ UNCHANGED files \/ files' = [files EXCEPT ![cmd[c].dir] = Without(@, c)]
      BY <2>9, StopStep, InDirectory
    <3>0. DOMAIN Without(files[cmd[c].dir], c) = DOMAIN files[cmd[c].dir] \ {c}
      BY <2>0, <2>2, <3>1
    <3>2. \A d \in Dirs : DOMAIN files'[d] \subseteq DOMAIN files[d]
      BY <3>0, <3>1 DEF Typed
    <3>3. \A d \in Dirs : ~Has(d, c)'
      <4>1. CASE Removed(c)
        BY <3>1, <4>1 DEF Removed, Temporary, Has, TempPcs
      <4>2. CASE Fail(c)
        <5>1. /\ \A d \in Dirs \ {cmd[c].dir} : files'[d] = files[d]
              /\ files'[cmd[c].dir] = Without(files[cmd[c].dir], c)
          BY <3>1, <4>2 DEF Fail, Typed
        <5> QED
          BY <3>0, <3>1, <5>1 DEF Temporary, Has, Active, Ended
      <4> QED
        BY <2>9, <4>1, <4>2
    <3> QED
      BY <2>3, <3>1, <3>2, <3>3 DEF Temporary
  <2>10. CASE Crash(c)
    <3>1. Others(c) /\ UNCHANGED files /\ cmd'[c].pc = "crashed"
      BY <2>10, Stopping DEF Crash, Ended
    <3> QED
      BY <2>3, <3>1 DEF Temporary, Has
  <2> QED
    BY <2>1, <2>4, <2>5, <2>6, <2>7, <2>8, <2>9, <2>10, HonestHas, StepKinds
<1> QED
  BY <1>1, <1>2

(* What agrees in every file is the same directory.                         *)
LEMMA Equal ==
    ASSUME NEW f \in Inventories, NEW g \in Inventories, Agree(f, g, {})
    PROVE  f = g
<1>1. f = [p \in DOMAIN f |-> f[p]] /\ g = [p \in DOMAIN g |-> g[p]]
  BY Inventory
<1> QED
  BY <1>1 DEF Agree

(* What a command reads or hashes it remembers, and what it verifies agrees.*)
LEMMA ReadsRemember ==
    ASSUME Typed, AllHonest, NEW c \in Cmds, Active(c), Remembers(c, cmd[c]),
           NEW known, Knows(c, known)
    PROVE  Remembers(c, known)
<1> DEFINE r == cmd[c]
<1>1. /\ r \in Local /\ r.dir \in Dirs /\ r.base \in Dirs
      /\ files[r.dir] \in Inventories /\ files[r.base] \in Inventories
  BY InDirectory
<1>2. CASE \/ known = [cmd[c] EXCEPT !.pc = "summary_temp"]
           \/ known = Reloaded(c) \/ known = Judged(c)
           \/ \E v \in {"accept", "reject"} : known = Decided(c, v)
  <2>1. known.pc \in {"summary_temp", "integrity", "list", "comparison_temp"}
    BY <1>1, <1>2 DEF Reloaded, Judged, Decided, Local
  <2> QED
    BY <2>1 DEF Remembers, Verifieds
<1>3. CASE known = Listed(c) /\ List(c)
  <2>1. /\ known.pc = "hash" /\ known.dir = r.dir /\ known.seen = Empty
        /\ known.todo = DOMAIN files[r.dir]
    BY <1>1, <1>3 DEF Listed, Local
  <2> QED
    BY <2>1, EmptyInventory DEF Remembers, Verifieds
<1>4. ASSUME NEW p \in Paths, known = Hashed(c, p), HashOne(c, p) PROVE Remembers(c, known)
  <2>1. /\ known.pc = "hash" /\ known.dir = r.dir /\ known.todo = r.todo \ {p}
        /\ known.seen = With(r.seen, p, files[r.dir][p])
        /\ r.pc = "hash" /\ p \in DOMAIN files[r.dir]
    BY <1>1, <1>4 DEF Hashed, HashOne, Has, Local
  <2>2. /\ DOMAIN files[r.dir] = DOMAIN r.seen \cup r.todo
        /\ \A q \in DOMAIN r.seen : r.seen[q] = files[r.dir][q]
    BY <2>1 DEF Remembers
  <2>3. /\ DOMAIN known.seen = DOMAIN r.seen \cup {p}
        /\ \A q \in DOMAIN known.seen :
              known.seen[q] = IF q = p THEN files[r.dir][p] ELSE r.seen[q]
    BY <2>1 DEF With
  <2>4. /\ DOMAIN files[known.dir] = DOMAIN known.seen \cup known.todo
        /\ \A q \in DOMAIN known.seen : known.seen[q] = files[known.dir][q]
    BY <2>1, <2>2, <2>3
  <2> QED
    BY <2>1, <2>4 DEF Remembers, Verifieds
<1>5. CASE known = BaselineRead(c) /\ ReadBaseline(c)
  <2>1. /\ known.pc = "read_cand" /\ known.base = r.base
        /\ known.baseline = files[r.base]["summary"]
    BY <1>1, <1>5 DEF BaselineRead, Local
  <2> QED
    BY <2>1 DEF Remembers, Verifieds
<1>6. CASE known = CandidateRead(c) /\ ReadCandidate(c)
  <2>1. /\ known.pc = "load_base" /\ known.base = r.base /\ known.dir = r.dir
        /\ known.baseline = r.baseline /\ known.candidate = files[r.dir]["summary"]
        /\ r.pc = "read_cand"
    BY <1>1, <1>6 DEF CandidateRead, ReadCandidate, Local
  <2> QED
    BY <2>1 DEF Remembers, Verifieds
<1>7. CASE known = BaselineLoaded(c) /\ LoadBaseline(c)
  <2>1. /\ known.pc = "load_cand" /\ known.base = r.base /\ known.dir = r.dir
        /\ known.baseline = r.baseline /\ known.candidate = r.candidate
        /\ known.other = manifest[r.base] /\ r.pc = "load_base"
    BY <1>1, <1>7 DEF BaselineLoaded, LoadBaseline, Local
  <2> QED
    BY <2>1 DEF Remembers, Verifieds
<1>8. CASE known = CandidateLoaded(c) /\ LoadCandidate(c)
  <2>1. /\ known.pc = "list_base" /\ known.base = r.base /\ known.dir = r.dir
        /\ known.baseline = r.baseline /\ known.candidate = r.candidate
        /\ known.other = r.other /\ known.own = manifest[r.dir] /\ r.pc = "load_cand"
    BY <1>1, <1>8 DEF CandidateLoaded, LoadCandidate, Local
  <2> QED
    BY <2>1 DEF Remembers, Verifieds
<1>9. CASE known = Verifying(c, "check_base") /\ VerifyList(c, "list_base", "check_base")
  <2>1. /\ known.pc = "check_base" /\ known.base = r.base /\ known.dir = r.dir
        /\ known.baseline = r.baseline /\ known.candidate = r.candidate
        /\ known.other = r.other /\ known.own = r.own
        /\ known.todo = DOMAIN r.other.files
    BY <1>1, <1>9 DEF Verifying, Verified, Local
  <2>2. r.pc = "list_base" /\ DOMAIN files[r.base] = DOMAIN r.other.files
    BY <1>9 DEF VerifyList, Verified
  <2> QED
    BY <2>1, <2>2 DEF Remembers, Verifieds, Agree
<1>10. CASE known = Verifying(c, "check_cand") /\ VerifyList(c, "check_base", "check_cand")
  <2>1. /\ known.pc = "check_cand" /\ known.base = r.base /\ known.dir = r.dir
        /\ known.baseline = r.baseline /\ known.candidate = r.candidate
        /\ known.other = r.other /\ known.own = r.own
        /\ known.todo = DOMAIN r.own.files
    BY <1>1, <1>10 DEF Verifying, Verified, Local
  <2>2. r.pc = "check_base" /\ r.todo = {} /\ DOMAIN files[r.dir] = DOMAIN r.own.files
    BY <1>10 DEF VerifyList, Verified
  <2>3. r.other.files \in Inventories
    BY <1>1, <2>2, HonestHas, Existing DEF HasManifest, Local
  <2>4. files[r.base] = r.other.files
    BY <1>1, <2>2, <2>3, Equal DEF Remembers
  <2>5. Remembers(c, r) /\ r.pc \in Verifieds
    BY <2>2 DEF Verifieds
  <2>6. Agree(files[known.dir], known.own.files, known.todo)
    BY <2>1, <2>2 DEF Agree
  <2> QED
    BY <2>1, <2>4, <2>5, <2>6 DEF Remembers, Verifieds
<1>11. ASSUME NEW p \in Paths, NEW s \in {"check_base", "check_cand"},
              known = OneVerified(c, p), VerifyOne(c, s, p)
       PROVE  Remembers(c, known)
  <2>1. /\ known.pc = r.pc /\ known.base = r.base /\ known.dir = r.dir
        /\ known.baseline = r.baseline /\ known.candidate = r.candidate
        /\ known.other = r.other /\ known.own = r.own /\ known.todo = r.todo \ {p}
    BY <1>1, <1>11 DEF OneVerified, Local
  <2>2. CASE s = "check_base"
    <3>1. r.pc = "check_base" /\ files[r.base][p] = r.other.files[p]
      BY <1>11, <2>2 DEF VerifyOne, Verified
    <3>2. Agree(files[r.base], r.other.files, r.todo \ {p})
      BY <3>1 DEF Remembers, Agree
    <3> QED
      BY <2>1, <3>1, <3>2 DEF Remembers, Verifieds
  <2>3. CASE s = "check_cand"
    <3>1. r.pc = "check_cand" /\ files[r.dir][p] = r.own.files[p]
      BY <1>11, <2>3 DEF VerifyOne, Verified
    <3>2. Agree(files[r.dir], r.own.files, r.todo \ {p})
      BY <3>1 DEF Remembers, Agree
    <3> QED
      BY <2>1, <3>1, <3>2 DEF Remembers, Verifieds
  <2> QED
    BY <2>2, <2>3
<1> QED
  BY <1>2, <1>3, <1>4, <1>5, <1>6, <1>7, <1>8, <1>9, <1>10, <1>11 DEF Knows

(* While commands come one after the other, what one remembers stays.       *)
LEMMA OneAtATimeStep ==
    ASSUME ArtifactsAssumption, Typed, AllHonest, Temporary, OneAtATime, [Next]_vars
    PROVE  OneAtATime'
<1>1. CASE UNCHANGED vars
  BY <1>1 DEF OneAtATime, Remembers, Active, vars
<1>2. CASE Next
  <2> SUFFICES ASSUME ~overlapped'
               PROVE  /\ \A c, o \in Cmds : Active(c)' /\ Active(o)' => c = o
                      /\ \A c \in Cmds : Remembers(c, cmd[c])'
    BY DEF OneAtATime
  <2>1. PICK c \in Cmds : Begin(c) \/ Analyze(c) \/ Compare(c) \/ FinalizeManifest(c)
                          \/ Clean(c) \/ Fail(c) \/ Crash(c)
    BY <1>2 DEF Next
  <2>2. ASSUME ~overlapped, Others(c), Active(c) \/ \A o \in Cmds : ~Active(o)
        PROVE  /\ \A o \in Cmds \ {c} : ~Active(o)'
               /\ \A o \in Cmds \ {c} : Remembers(o, cmd[o])'
    <3>1. \A o \in Cmds \ {c} : ~Active(o) /\ cmd'[o] = cmd[o]
      BY <2>2 DEF OneAtATime, Others
    <3>2. \A o \in Cmds \ {c} : ~Active(o)'
      BY <3>1 DEF Active
    <3>3. \A o \in Cmds \ {c} : cmd'[o].pc \in Ended \cup {"idle"}
      BY <3>2 DEF Active
    <3> QED
      BY <3>2, <3>3 DEF Remembers, Ended, Verifieds
  <2>3. ASSUME ~overlapped, Others(c), Active(c) \/ \A o \in Cmds : ~Active(o),
               Remembers(c, cmd[c])'
        PROVE  /\ \A d, o \in Cmds : Active(d)' /\ Active(o)' => d = o
               /\ \A o \in Cmds : Remembers(o, cmd[o])'
    <3>1. /\ \A o \in Cmds \ {c} : ~Active(o)'
          /\ \A o \in Cmds \ {c} : Remembers(o, cmd[o])'
      BY <2>2, <2>3
    <3> QED
      BY <2>3, <3>1
  <2>4. CASE Begin(c)
    <3>1. ~overlapped /\ Others(c) /\ \A o \in Cmds : ~Active(o)
      BY <2>4, BeginStep
    <3>2. Remembers(c, cmd[c])'
      BY <2>4, BeginStep DEF Remembers, Verifieds
    <3> QED
      BY <2>3, <3>1, <3>2
  <2>5. CASE Reading(c)
    <3>1. PICK known : Active(c) /\ Learning(c, known) /\ Knows(c, known)
      BY <2>5 DEF Reading
    <3>2. /\ Others(c) /\ cmd'[c] = known /\ UNCHANGED <<files, manifest, overlapped>>
      BY <3>1, Learned DEF Learning
    <3>3. Remembers(c, known)
      BY <3>1, <3>2, ReadsRemember DEF OneAtATime
    <3>4. Remembers(c, cmd[c])'
      BY <3>2, <3>3 DEF Remembers
    <3> QED
      BY <2>3, <3>1, <3>2, <3>4
  <2>6. CASE Writing(c)
    <3>1. Others(c) /\ UNCHANGED overlapped /\ Active(c) /\ cmd[c].dir \in Dirs
          /\ cmd[c] \in Local /\ files[cmd[c].dir] \in Inventories
      BY <2>6, WriteStep, InDirectory DEF Writing
    <3>2. PICK s \in TempSteps \cup PersistSteps :
             cmd[c].pc = s[1] /\ cmd'[c] = [cmd[c] EXCEPT !.pc = s[2]]
      BY <2>6, WriteStep
    <3>3. /\ cmd'[c].pc = s[2] /\ cmd'[c].dir = cmd[c].dir /\ cmd'[c].seen = cmd[c].seen
      BY <3>1, <3>2 DEF Local
    <3>4. CASE s[2] # "manifest"
      <4>1. s[2] \in {"summary", "report", "comparison", "report_temp", "reload", "integrity"}
        BY <3>4 DEF TempSteps, PersistSteps
      <4>2. Remembers(c, cmd[c])'
        BY <3>3, <4>1 DEF Remembers, Verifieds
      <4> QED
        BY <2>3, <3>1, <4>2
    <3>5. CASE s[2] = "manifest"
      <4>1. cmd[c].pc = "hash"
        BY <3>2, <3>5 DEF TempSteps, PersistSteps
      <4>2. Temp(c, "hash", "manifest")
        BY <2>6, <4>1 DEF Writing, TempSteps, PersistSteps, Temp, Persist
      <4>3. files'[cmd[c].dir] = With(files[cmd[c].dir], c, c) /\ cmd[c].todo = {}
        BY <3>1, <4>2 DEF Temp, Typed
      <4>4. c \notin DOMAIN files[cmd[c].dir]
        BY <3>1, <4>1 DEF Temporary, Has, TempPcs
      <4>5. Without(With(files[cmd[c].dir], c, c), c) = files[cmd[c].dir]
        <5> DEFINE f == files[cmd[c].dir]
                   g == Without(With(f, c, c), c)
        <5>1. DOMAIN g = DOMAIN f /\ \A p \in DOMAIN f : g[p] = f[p]
          BY <4>4 DEF With, Without, Restrict
        <5>2. g = [p \in DOMAIN g |-> g[p]]
          BY DEF Without, Restrict
        <5>3. f = [p \in DOMAIN f |-> f[p]]
          BY <3>1, Inventory
        <5> HIDE DEF f, g
        <5>4. f = g
          BY <5>1, <5>2, <5>3
        <5> QED
          BY <5>4 DEF f, g
      <4>6. files[cmd[c].dir] = cmd[c].seen
        <5>1. Remembers(c, cmd[c])
          BY <3>1 DEF OneAtATime
        <5>2. Agree(files[cmd[c].dir], cmd[c].seen, {})
          BY <4>1, <4>3, <5>1 DEF Remembers, Agree
        <5>3. cmd[c].seen \in Inventories
          BY <3>1 DEF Local
        <5> QED
          BY <3>1, <5>2, <5>3, Equal
      <4>7. Remembers(c, cmd[c])'
        BY <3>3, <3>5, <4>3, <4>5, <4>6 DEF Remembers, Verifieds
      <4> QED
        BY <2>3, <3>1, <4>7
    <3> QED
      BY <3>4, <3>5
  <2>7. CASE PersistManifest(c)
    <3>1. Others(c) /\ Active(c) /\ cmd'[c] = NotRunning("done") /\ UNCHANGED overlapped
      BY <2>7, HonestHas, ManifestStep DEF PersistManifest
    <3>2. Remembers(c, cmd[c])'
      BY <3>1 DEF Remembers, NotRunning, Verifieds
    <3> QED
      BY <2>3, <3>1, <3>2
  <2>8. CASE (\E p \in Paths : RemoveFile(c, p)) \/ RemoveManifest(c)
    <3>1. cmd[c].pc = "remove" /\ UNCHANGED <<cmd, overlapped>>
      BY <2>8, RemoveStep
    <3>2. Active(c) /\ Others(c)
      BY <3>1 DEF Active, Ended, Others
    <3>3. Remembers(c, cmd[c])'
      BY <3>1 DEF Remembers, Verifieds
    <3> QED
      BY <2>3, <3>1, <3>2, <3>3
  <2>9. CASE Removed(c) \/ Fail(c) \/ Crash(c)
    <3>1. /\ Others(c) /\ Active(c) /\ UNCHANGED overlapped
          /\ \E pc \in Ended : cmd'[c] = NotRunning(pc)
      BY <2>9, StopStep
    <3>2. Remembers(c, cmd[c])'
      BY <3>1 DEF Remembers, NotRunning, Verifieds, Ended
    <3> QED
      BY <2>3, <3>1, <3>2
  <2> QED
    BY <2>1, <2>4, <2>5, <2>6, <2>7, <2>8, <2>9, HonestHas, StepKinds
<1> QED
  BY <1>1, <1>2

SealedInv == HonestInv /\ Temporary /\ OneAtATime

(* The invariant of commands that come one after the other.                 *)
THEOREM Sealing == Spec => []SealedInv
<1>1. ASSUME Init PROVE SealedInv
  <2>1. Typed /\ AllHonest
    BY <1>1, InitHonest
  <2>2. \A c \in Cmds : cmd[c].pc = "idle"
    BY <1>1 DEF Init, NotRunning
  <2>3. Temporary
    <3>1. ASSUME NEW c \in Cmds, NEW d \in Dirs PROVE ~Has(d, c)
      <4>1. files[d] = Left(origin[d])[1] /\ origin[d] \in Origins /\ whole[d] \in BOOLEAN
            /\ (origin[d] = "complete" => whole[d])
        BY <1>1 DEF Init
      <4>2. DOMAIN files[d] \subseteq Names
        BY <4>1, Leaving
      <4> QED
        BY <4>2, ArtifactsAssumption DEF ArtifactsAssumption, Has
    <3> QED
      BY <3>1 DEF Temporary
  <2>4. OneAtATime
    BY <2>2 DEF OneAtATime, Remembers, Verifieds, Active
  <2> QED
    BY <2>1, <2>3, <2>4 DEF SealedInv, HonestInv
<1>2. SealedInv /\ [Next]_vars => SealedInv'
  BY ArtifactsAssumption, TypedStep, HonestStep, TemporaryStep, OneAtATimeStep
     DEF SealedInv, HonestInv
<1> QED
  BY <1>1, <1>2, PTL DEF Spec

(* compare accepts what it remembers to have verified.                      *)
LEMMA AcceptsStep ==
    ASSUME ArtifactsAssumption, SealedInv, [Next]_vars, NEW c \in Cmds, Accepts(c), ~overlapped
    PROVE  /\ Exact(cmd[c].dir) /\ Exact(cmd[c].base)
           /\ cmd[c].candidate = files[cmd[c].dir]["summary"]
           /\ cmd[c].baseline = files[cmd[c].base]["summary"]
<1>0. Typed /\ AllHonest /\ HasManifest
  BY HonestHas DEF SealedInv, HonestInv
<1>1. cmd'[c].verdict = "accept" /\ cmd[c].verdict # "accept" /\ cmd'[c] # cmd[c]
  BY DEF Accepts
<1>2. PICK o \in Cmds : Begin(o) \/ Analyze(o) \/ Compare(o) \/ FinalizeManifest(o)
                        \/ Clean(o) \/ Fail(o) \/ Crash(o)
  BY <1>1 DEF Next, vars
<1>3. Reading(o) /\ o = c
  <2>1. CASE Begin(o)
    BY <1>0, <1>1, <2>1, BeginStep DEF Others
  <2>2. CASE Writing(o)
    <3>1. Others(o) /\ Active(o) /\ \E s \in TempSteps \cup PersistSteps :
             cmd'[o] = [cmd[o] EXCEPT !.pc = s[2]]
      BY <1>0, <2>2, ArtifactsAssumption, WriteStep DEF Writing
    <3>2. cmd'[o].verdict = cmd[o].verdict
      BY <1>0, <3>1, InDirectory DEF Local
    <3> QED
      BY <1>1, <3>1, <3>2 DEF Others
  <2>3. CASE PersistManifest(o)
    BY <1>0, <1>1, <2>3, ManifestStep DEF Others, NotRunning
  <2>4. CASE (\E p \in Paths : RemoveFile(o, p)) \/ RemoveManifest(o)
    BY <1>0, <1>1, <2>4, RemoveStep
  <2>5. CASE Removed(o) \/ Fail(o) \/ Crash(o)
    <3>1. PICK pc \in Ended \ {"done"} : Others(o) /\ cmd'[o] = NotRunning(pc)
      BY <1>0, <2>5, StopStep
    <3>2. cmd'[o].verdict = "none"
      BY <3>1 DEF NotRunning
    <3> QED
      BY <1>1, <3>1, <3>2 DEF Others
  <2>6. CASE Reading(o)
    BY <1>0, <1>1, <2>6, Learned DEF Reading, Others
  <2> QED
    BY <1>0, <1>2, <2>1, <2>2, <2>3, <2>4, <2>5, <2>6, StepKinds
<1>4. PICK known : Active(c) /\ Learning(c, known) /\ Knows(c, known)
  BY <1>3 DEF Reading
<1>5. cmd'[c] = known /\ cmd[c] \in Local /\ Remembers(c, cmd[c])
      /\ files[cmd[c].dir] \in Inventories
  BY <1>0, <1>4, Learned, InDirectory DEF SealedInv, OneAtATime
<1>6. \E v \in {"accept", "reject"} : known = Decided(c, v) /\ Decide(c)
  <2>1. ASSUME ~\E v \in {"accept", "reject"} : known = Decided(c, v) /\ Decide(c)
        PROVE  known.verdict = cmd[c].verdict
    BY <1>4, <1>5, <2>1 DEF Knows, Local, Reloaded, Judged, Listed, Hashed, BaselineRead,
       CandidateRead, BaselineLoaded, CandidateLoaded, Verifying, OneVerified
  <2> QED
    BY <1>1, <1>5, <2>1
<1>7. cmd[c].pc = "check_cand" /\ cmd[c].todo = {}
  BY <1>6 DEF Decide
<1>8. /\ cmd[c].own.exists /\ cmd[c].other.exists
      /\ cmd[c].own.files \in Inventories
  BY <1>0, <1>5, <1>7, Existing DEF HasManifest, Local
<1>9. files[cmd[c].dir] = cmd[c].own.files
  BY <1>5, <1>7, <1>8, Equal DEF Remembers
<1> QED
  BY <1>5, <1>7, <1>8, <1>9 DEF Remembers, Verifieds, Exact

(* compare accepts only what either manifest inventories exactly, if no two *)
(* commands have been active at once.                                       *)
THEOREM Accepts_SealedRuns == Spec => AcceptsSealedRuns
<1>1. SealedInv /\ [Next]_vars =>
         [\A c \in Cmds : Accepts(c) /\ ~overlapped =>
             /\ Exact(cmd[c].dir) /\ Exact(cmd[c].base)
             /\ cmd[c].candidate = files[cmd[c].dir]["summary"]
             /\ cmd[c].baseline = files[cmd[c].base]["summary"]]_vars
  BY ArtifactsAssumption, AcceptsStep
<1> QED
  BY <1>1, Sealing, PTL DEF Spec, AcceptsSealedRuns

(* analyze and compare end with what they remember to have hashed.          *)
LEMMA EndsStep ==
    ASSUME ArtifactsAssumption, SealedInv, [Next]_vars, NEW c \in Cmds,
           cmd'[c].pc = "done", Active(c), ~overlapped, NEW d \in {cmd[c].dir}
    PROVE  Exact(d)'
<1>0. Typed /\ AllHonest /\ HasManifest
  BY HonestHas DEF SealedInv, HonestInv
<1>1. cmd'[c] # cmd[c]
  BY DEF Active, Ended
<1>2. PICK o \in Cmds : Begin(o) \/ Analyze(o) \/ Compare(o) \/ FinalizeManifest(o)
                        \/ Clean(o) \/ Fail(o) \/ Crash(o)
  BY <1>1 DEF Next, vars
<1>3. PersistManifest(o) /\ o = c
  <2>1. CASE Begin(o)
    BY <1>0, <1>1, <2>1, BeginStep DEF Others
  <2>2. CASE Writing(o)
    <3>1. Others(o) /\ Active(o) /\ \E s \in TempSteps \cup PersistSteps :
             cmd'[o] = [cmd[o] EXCEPT !.pc = s[2]]
      BY <1>0, <2>2, ArtifactsAssumption, WriteStep DEF Writing
    <3>2. cmd'[o].pc # "done"
      BY <1>0, <3>1, InDirectory DEF Local, TempSteps, PersistSteps
    <3> QED
      BY <1>1, <3>1, <3>2 DEF Others
  <2>3. CASE PersistManifest(o)
    BY <1>0, <1>1, <2>3, ManifestStep DEF Others
  <2>4. CASE (\E p \in Paths : RemoveFile(o, p)) \/ RemoveManifest(o)
    BY <1>0, <1>1, <2>4, RemoveStep
  <2>5. CASE Removed(o) \/ Fail(o) \/ Crash(o)
    <3>1. PICK pc \in Ended \ {"done"} : Others(o) /\ cmd'[o] = NotRunning(pc)
      BY <1>0, <2>5, StopStep
    <3>2. cmd'[o].pc = pc
      BY <3>1 DEF NotRunning
    <3> QED
      BY <1>1, <3>1, <3>2 DEF Others
  <2>6. CASE Reading(o)
    <3>1. PICK known : Active(o) /\ Learning(o, known)
      BY <2>6 DEF Reading
    <3>2. Others(o) /\ cmd'[o] = known /\ known.pc # "done"
      BY <1>0, <3>1, Learned DEF Learning, Ended
    <3> QED
      BY <1>1, <3>2 DEF Others
  <2> QED
    BY <1>0, <1>2, <2>1, <2>2, <2>3, <2>4, <2>5, <2>6, StepKinds
<1>4. /\ manifest'[d] = Manifest(cmd[c].own.finished, cmd[c].own.partial, cmd[c].seen)
      /\ files'[d] = Without(files[d], c)
  BY <1>0, <1>3, ManifestStep
<1>5. Without(files[d], c) = cmd[c].seen
  BY <1>3 DEF PersistManifest, SealedInv, OneAtATime, Remembers
<1> QED
  BY <1>4, <1>5 DEF Exact, Manifest

(* analyze and compare end with an exact inventory, if no two commands have *)
(* been active at once.                                                     *)
THEOREM Refreshes_Inventory == Spec => RefreshesInventory
<1>1. SealedInv /\ [Next]_vars =>
         [\A c \in Cmds : cmd'[c].pc = "done" /\ Active(c) /\ ~overlapped
             => \A d \in {cmd[c].dir} : Exact(d)']_vars
  BY ArtifactsAssumption, EndsStep
<1> QED
  BY <1>1, Sealing, PTL DEF Spec, RefreshesInventory
===========================================================================
