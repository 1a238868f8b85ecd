----------------------------- MODULE Artifacts -----------------------------
(* What analyze, compare and clean do to run directories that launches have *)
(* left behind: each is a process of its own, reads and writes one file at  *)
(* a time, and may fail or be killed between any two of them.               *)
(*                                                                           *)
(* A file's content is who wrote it.  Telemetry and profiles are one file,  *)
(* "data"; a temporary file has the name of the command that created it.    *)
EXTENDS FiniteSets, Functions

CONSTANTS
    Dirs,           \* run directories
    Cmds,           \* commands that the user starts
    Concurrent      \* how many may begin once two have been active together

Names == {"data", "summary", "report", "comparison"}
Paths == Names \cup Cmds
Kinds == {"analyze", "compare", "clean"}

ASSUME ArtifactsAssumption ==
    /\ Names \cap Cmds = {} /\ "launch" \notin Cmds
    /\ Concurrent \in 0..Cardinality(Cmds)

VARIABLES
    origin,         \* how the launch of each run ended
    whole,          \* the run's data has all its collectors promise
    files,          \* content by path, manifest.json aside
    manifest,       \* manifest.json
    cmd,            \* the local state of each command
    overlapped      \* history: some command began while another was active

vars == <<origin, whole, files, manifest, cmd, overlapped>>

Empty == <<>>
None == [exists |-> FALSE]
Manifest(finished, partial, inventory) ==
    [exists |-> TRUE, finished |-> finished, partial |-> partial, files |-> inventory]

Inventories == UNION {[P -> Cmds \cup {"launch"}] : P \in SUBSET Paths}

(* From RunLifecycle: a run that was finalized, whole or not; one killed    *)
(* between the last two writes of its manifest; one killed before.          *)
Left(o) ==
    LET ran == [p \in {"data", "summary"} |-> "launch"]
    IN CASE o = "complete" -> <<ran, Manifest(TRUE, FALSE, ran)>>
         [] o = "partial"  -> <<ran, Manifest(TRUE, TRUE, ran)>>
         [] o = "unsealed" -> <<ran, Manifest(TRUE, FALSE, Empty)>>
         [] o = "launched" -> <<[p \in {"data"} |-> "launch"], Manifest(FALSE, FALSE, Empty)>>

Origins == {"complete", "partial", "unsealed", "launched"}

NotRunning(pc) ==
    [pc |-> pc, kind |-> "none", dir |-> "none", base |-> "none", own |-> None,
     other |-> None, baseline |-> "none", candidate |-> "none", todo |-> {},
     seen |-> Empty, verdict |-> "none"]

Init ==
    /\ origin \in [Dirs -> Origins]
    /\ whole \in [Dirs -> BOOLEAN]
    /\ \A d \in Dirs : origin[d] = "complete" => whole[d]
    /\ files = [d \in Dirs |-> Left(origin[d])[1]]
    /\ manifest = [d \in Dirs |-> Left(origin[d])[2]]
    /\ cmd = [c \in Cmds |-> NotRunning("idle")]
    /\ overlapped = FALSE
---------------------------------------------------------------------------
Ended == {"done", "cleaned", "failed", "crashed"}
Active(c) == cmd[c].pc \notin Ended \cup {"idle"}

Has(d, p) == p \in DOMAIN files[d]

(* collect_files sorts: temporary files, which begin with a dot, then names.*)
Sorted == <<"comparison", "report", "summary", "data">>
First(S) ==
    IF S \cap Cmds # {} THEN S \cap Cmds
    ELSE {Sorted[k] : k \in {j \in 1..4 : Sorted[j] \in S
                                        /\ \A i \in 1..j - 1 : Sorted[i] \notin S}}
Without(f, p) == Restrict(f, DOMAIN f \ {p})
With(f, p, v) == [q \in DOMAIN f \cup {p} |-> IF q = p THEN v ELSE f[q]]

FirstStep == [analyze |-> "load", compare |-> "read_base", clean |-> "remove"]

(* The user starts a command; compare changes the candidate only.  clean    *)
(* takes a directory that has a manifest.  Concurrent bounds the commands   *)
(* that take part once two have been active together.                       *)
Begin(c) ==
    /\ cmd[c].pc = "idle"
    /\ overlapped' = (overlapped \/ \E other \in Cmds : Active(other))
    /\ overlapped' => Cardinality({other \in Cmds : cmd[other].pc # "idle"}) < Concurrent
    /\ \E k \in Kinds, d, b \in Dirs :
          /\ k # "compare" => b = d
          /\ k = "clean" => manifest[d].exists
          /\ cmd' = [cmd EXCEPT ![c] = [cmd[c] EXCEPT !.pc = FirstStep[k],
                                        !.kind = k, !.dir = d, !.base = b]]
    /\ UNCHANGED <<origin, whole, files, manifest>>

(* atomic_write: a temporary file beside its target, renamed when complete; *)
(* not before whatever was to be hashed has been.                            *)
Temp(c, from, to) ==
    /\ cmd[c].pc = from /\ cmd[c].todo = {}
    /\ files' = [files EXCEPT ![cmd[c].dir] = With(@, c, c)]
    /\ cmd' = [cmd EXCEPT ![c].pc = to]
    /\ UNCHANGED <<origin, whole, manifest, overlapped>>

Persist(c, from, name, to) ==
    /\ cmd[c].pc = from /\ Has(cmd[c].dir, c)
    /\ files' = [files EXCEPT ![cmd[c].dir] = With(Without(@, c), name, c)]
    /\ cmd' = [cmd EXCEPT ![c].pc = to]
    /\ UNCHANGED <<origin, whole, manifest, overlapped>>
---------------------------------------------------------------------------
(* analyze::execute.                                                         *)
Load(c) ==
    /\ cmd[c].pc = "load" /\ manifest[cmd[c].dir].exists
    /\ cmd' = [cmd EXCEPT ![c].pc = "summary_temp"]
    /\ UNCHANGED <<origin, whole, files, manifest, overlapped>>

(* Mutant: a manifest that has vanished is taken for an empty one.          *)
Reload_Unchecked(c) ==
    /\ cmd[c].pc = "reload"
    /\ cmd' = [cmd EXCEPT ![c] = [cmd[c] EXCEPT !.pc = "integrity",
                                  !.own = manifest[cmd[c].dir]]]
    /\ UNCHANGED <<origin, whole, files, manifest, overlapped>>

Reload(c) ==
    /\ cmd[c].pc = "reload" /\ manifest[cmd[c].dir].exists
    /\ cmd' = [cmd EXCEPT ![c] = [cmd[c] EXCEPT !.pc = "integrity",
                                  !.own = manifest[cmd[c].dir]]]
    /\ UNCHANGED <<origin, whole, files, manifest, overlapped>>

(* reanalyze writes the summary and, unless --no-report, the report.        *)
Analyze(c) ==
    \/ Load(c)
    \/ Temp(c, "summary_temp", "summary")
    \/ \E next \in {"report_temp", "reload"} : Persist(c, "summary", "summary", next)
    \/ Temp(c, "report_temp", "report")
    \/ Persist(c, "report", "report", "reload")
    \/ Reload(c)
---------------------------------------------------------------------------
(* finalize_manifest, called by analyze and compare.                        *)

(* Mutant: partial is computed afresh.                                      *)
Integrity_Afresh(c) ==
    LET d == cmd[c].dir IN
    /\ cmd[c].pc = "integrity"
    /\ cmd' = [cmd EXCEPT ![c] = [cmd[c] EXCEPT !.pc = "list",
                                  !.own.partial = ~(Has(d, "data") /\ whole[d])]]
    /\ UNCHANGED <<origin, whole, files, manifest, overlapped>>

Integrity(c) ==
    LET d == cmd[c].dir IN
    /\ cmd[c].pc = "integrity"
    /\ cmd' = [cmd EXCEPT ![c] = [cmd[c] EXCEPT !.pc = "list",
                                  !.own.partial = @ \/ ~(Has(d, "data") /\ whole[d])]]
    /\ UNCHANGED <<origin, whole, files, manifest, overlapped>>

(* Mutant: files.clear() is missing and known files are not hashed again.   *)
List_Incremental(c) ==
    /\ cmd[c].pc = "list"
    /\ cmd' = [cmd EXCEPT ![c] = [cmd[c] EXCEPT !.pc = "hash",
                                  !.seen = cmd[c].own.files,
                                  !.todo = DOMAIN files[cmd[c].dir]
                                           \ DOMAIN cmd[c].own.files]]
    /\ UNCHANGED <<origin, whole, files, manifest, overlapped>>

List(c) ==
    /\ cmd[c].pc = "list"
    /\ cmd' = [cmd EXCEPT ![c] = [cmd[c] EXCEPT !.pc = "hash", !.seen = Empty,
                                  !.todo = DOMAIN files[cmd[c].dir]]]
    /\ UNCHANGED <<origin, whole, files, manifest, overlapped>>

HashOne(c, p) ==
    /\ cmd[c].pc = "hash" /\ p \in First(cmd[c].todo) /\ Has(cmd[c].dir, p)
    /\ cmd' = [cmd EXCEPT ![c] = [cmd[c] EXCEPT
                                  !.seen = With(@, p, files[cmd[c].dir][p]),
                                  !.todo = @ \ {p}]]
    /\ UNCHANGED <<origin, whole, files, manifest, overlapped>>

PersistManifest(c) ==
    LET d == cmd[c].dir IN
    /\ cmd[c].pc = "manifest" /\ Has(d, c)
    /\ manifest' = [manifest EXCEPT ![d] =
                       Manifest(cmd[c].own.finished, cmd[c].own.partial, cmd[c].seen)]
    /\ files' = [files EXCEPT ![d] = Without(@, c)]
    /\ cmd' = [cmd EXCEPT ![c] = NotRunning("done")]
    /\ UNCHANGED <<origin, whole, overlapped>>

FinalizeManifest(c) ==
    \/ Integrity(c) \/ List(c)
    \/ \E p \in Paths : HashOne(c, p)
    \/ Temp(c, "hash", "manifest")
    \/ PersistManifest(c)
---------------------------------------------------------------------------
(* compare::execute.                                                         *)
ReadBaseline(c) ==
    /\ cmd[c].pc = "read_base" /\ Has(cmd[c].base, "summary")
    /\ cmd' = [cmd EXCEPT ![c] = [cmd[c] EXCEPT !.pc = "read_cand",
                                  !.baseline = files[cmd[c].base]["summary"]]]
    /\ UNCHANGED <<origin, whole, files, manifest, overlapped>>

ReadCandidate(c) ==
    /\ cmd[c].pc = "read_cand" /\ Has(cmd[c].dir, "summary")
    /\ cmd' = [cmd EXCEPT ![c] = [cmd[c] EXCEPT !.pc = "load_base",
                                  !.candidate = files[cmd[c].dir]["summary"]]]
    /\ UNCHANGED <<origin, whole, files, manifest, overlapped>>

LoadBaseline(c) ==
    /\ cmd[c].pc = "load_base" /\ manifest[cmd[c].base].exists
    /\ cmd' = [cmd EXCEPT ![c] = [cmd[c] EXCEPT !.pc = "load_cand",
                                  !.other = manifest[cmd[c].base]]]
    /\ UNCHANGED <<origin, whole, files, manifest, overlapped>>

LoadCandidate(c) ==
    /\ cmd[c].pc = "load_cand" /\ manifest[cmd[c].dir].exists
    /\ cmd' = [cmd EXCEPT ![c] = [cmd[c] EXCEPT !.pc = "list_base",
                                  !.own = manifest[cmd[c].dir]]]
    /\ UNCHANGED <<origin, whole, files, manifest, overlapped>>

(* verify_artifacts, for either run: the names first, then each hash.       *)
Verified(c, pc) == IF pc = "check_base"
                   THEN <<cmd[c].base, cmd[c].other.files>>
                   ELSE <<cmd[c].dir, cmd[c].own.files>>

VerifyList(c, from, to) ==
    LET v == Verified(c, to) IN
    /\ cmd[c].pc = from /\ cmd[c].todo = {}
    /\ DOMAIN files[v[1]] = DOMAIN v[2]
    /\ cmd' = [cmd EXCEPT ![c] = [cmd[c] EXCEPT !.pc = to, !.todo = DOMAIN v[2]]]
    /\ UNCHANGED <<origin, whole, files, manifest, overlapped>>

(* Mutant: names are compared, hashes are not.                              *)
VerifyOne_NameOnly(c, from, p) ==
    /\ cmd[c].pc = from /\ p \in First(cmd[c].todo)
    /\ cmd' = [cmd EXCEPT ![c].todo = @ \ {p}]
    /\ UNCHANGED <<origin, whole, files, manifest, overlapped>>

VerifyOne(c, from, p) ==
    LET v == Verified(c, from) IN
    /\ cmd[c].pc = from /\ p \in First(cmd[c].todo)
    /\ Has(v[1], p) /\ files[v[1]][p] = v[2][p]
    /\ cmd' = [cmd EXCEPT ![c].todo = @ \ {p}]
    /\ UNCHANGED <<origin, whole, files, manifest, overlapped>>

(* Mutant: `finished_at` is not asked for.                                  *)
Comparable_Unfinished(m, n) == ~m.partial /\ ~n.partial

(* comparability_reasons and run_contract_reasons, as far as they depend on *)
(* how the runs ended.                                                       *)
Comparable(m, n) ==
    /\ m.finished /\ n.finished
    /\ ~m.partial /\ ~n.partial
    /\ "data" \in DOMAIN m.files /\ "data" \in DOMAIN n.files

(* A verdict either way is written to the candidate; runs are comparable    *)
(* for other reasons too.                                                    *)
Decide(c) ==
    /\ cmd[c].pc = "check_cand" /\ cmd[c].todo = {}
    /\ \E v \in {"accept", "reject"} :
          /\ v = "accept" => Comparable(cmd[c].other, cmd[c].own)
          /\ cmd' = [cmd EXCEPT ![c] = [cmd[c] EXCEPT !.pc = "comparison_temp",
                                        !.verdict = v]]
    /\ UNCHANGED <<origin, whole, files, manifest, overlapped>>

Compare(c) ==
    \/ ReadBaseline(c) \/ ReadCandidate(c) \/ LoadBaseline(c) \/ LoadCandidate(c)
    \/ VerifyList(c, "list_base", "check_base")
    \/ VerifyList(c, "check_base", "check_cand")
    \/ \E p \in Paths, s \in {"check_base", "check_cand"} : VerifyOne(c, s, p)
    \/ Decide(c)
    \/ Temp(c, "comparison_temp", "comparison")
    \/ Persist(c, "comparison", "comparison", "integrity")
---------------------------------------------------------------------------
(* clean: remove_dir_all unlinks in the order the directory happens to have. *)
RemoveFile(c, p) ==
    /\ cmd[c].pc = "remove" /\ Has(cmd[c].dir, p)
    /\ files' = [files EXCEPT ![cmd[c].dir] = Without(@, p)]
    /\ UNCHANGED <<origin, whole, manifest, cmd, overlapped>>

RemoveManifest(c) ==
    /\ cmd[c].pc = "remove" /\ manifest[cmd[c].dir].exists
    /\ manifest' = [manifest EXCEPT ![cmd[c].dir] = None]
    /\ UNCHANGED <<origin, whole, files, cmd, overlapped>>

Removed(c) ==
    /\ cmd[c].pc = "remove"
    /\ files[cmd[c].dir] = Empty /\ ~manifest[cmd[c].dir].exists
    /\ cmd' = [cmd EXCEPT ![c] = NotRunning("cleaned")]
    /\ UNCHANGED <<origin, whole, files, manifest, overlapped>>

Clean(c) == (\E p \in Paths : RemoveFile(c, p)) \/ RemoveManifest(c) \/ Removed(c)
---------------------------------------------------------------------------
(* A missing file or manifest, a hash that differs, a full disk: main       *)
(* reports 70, and NamedTempFile removes the temporary file.                *)
Fail(c) ==
    /\ Active(c)
    /\ cmd' = [cmd EXCEPT ![c] = NotRunning("failed")]
    /\ files' = [files EXCEPT ![cmd[c].dir] = Without(@, c)]
    /\ UNCHANGED <<origin, whole, manifest, overlapped>>

(* The command is killed; its temporary file stays.                         *)
Crash(c) ==
    /\ Active(c)
    /\ cmd' = [cmd EXCEPT ![c] = NotRunning("crashed")]
    /\ UNCHANGED <<origin, whole, files, manifest, overlapped>>

Next ==
    \E c \in Cmds :
        \/ Begin(c) \/ Analyze(c) \/ Compare(c) \/ FinalizeManifest(c)
        \/ Clean(c) \/ Fail(c) \/ Crash(c)

Spec == Init /\ [][Next]_vars
---------------------------------------------------------------------------
Manifests == [exists : {TRUE}, finished : BOOLEAN, partial : BOOLEAN,
              files : Inventories] \cup {None}

Contents == Cmds \cup {"launch"}

TypeOK ==
    /\ \A d \in Dirs :
          /\ DOMAIN files[d] \subseteq Paths
          /\ \A p \in DOMAIN files[d] : files[d][p] \in Contents
          /\ manifest[d].exists => DOMAIN manifest[d].files \subseteq Paths
    /\ \A c \in Cmds :
          /\ cmd[c].todo \subseteq Paths /\ DOMAIN cmd[c].seen \subseteq Paths
          /\ cmd[c].verdict \in {"none", "accept", "reject"}
          /\ cmd[c].pc \in {"integrity", "list", "hash", "manifest"}
             => cmd[c].own.exists

Exact(d) == manifest[d].exists /\ manifest[d].files = files[d]

Accepts(c) == cmd[c].verdict # "accept" /\ cmd'[c].verdict = "accept"

(* compare accepts two runs only when, at that moment, either manifest is   *)
(* the exact inventory of its directory and the summaries it compares are   *)
(* the ones inventoried - whatever commands ran, failed or died before, as  *)
(* long as no two ran at the same time.                                      *)
AcceptsSealedRuns ==
    [][\A c \in Cmds : Accepts(c) /\ ~overlapped =>
          /\ Exact(cmd[c].dir) /\ Exact(cmd[c].base)
          /\ cmd[c].candidate = files[cmd[c].dir]["summary"]
          /\ cmd[c].baseline = files[cmd[c].base]["summary"]]_vars

(* No sequence of commands, overlapping or not, makes compare accept a run  *)
(* that is partial or whose launch was killed before its manifest said that *)
(* it finished.  A launch killed only after that, before the last write of  *)
(* its manifest, may be accepted: analyze or compare makes its inventory.    *)
AcceptsOnlyFinishedRuns ==
    \A c \in Cmds : cmd[c].verdict = "accept" =>
        \A d \in {cmd[c].dir, cmd[c].base} :
            origin[d] \in {"complete", "unsealed"} /\ whole[d]

(* A run never becomes finished afterwards, and one that was found partial  *)
(* stays so - but for a run that was whole until clean took its data, where *)
(* a command that had looked before may still write back what it found.     *)
ManifestOnlyWorsens ==
    [][\A d \in Dirs : manifest[d].exists /\ manifest'[d].exists =>
          /\ manifest'[d].finished => manifest[d].finished
          /\ manifest[d].partial /\ ~manifest'[d].partial =>
                origin[d] # "partial" /\ whole[d] /\ ~Has(d, "data")]_vars

(* Every mutating command refreshes the exact file inventory: analyze and   *)
(* compare, when they end, leave a manifest that is the inventory of the    *)
(* directory, also in one in which earlier commands failed or were killed,  *)
(* as long as no two ran at the same time.                                   *)
RefreshesInventory ==
    [][\A c \in Cmds :
          cmd'[c].pc = "done" /\ Active(c) /\ ~overlapped
          => \A d \in {cmd[c].dir} : Exact(d)']_vars

(* README.md:175 of the repository: every mutating command refreshes the    *)
(* exact file inventory - so that once all have ended well, it is exact.    *)
InventoryExactAtRest ==
    (\A c \in Cmds : cmd[c].pc = "done") => \A d \in Dirs : Exact(d)
===========================================================================
