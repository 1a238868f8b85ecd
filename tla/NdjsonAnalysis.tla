--------------------------- MODULE NdjsonAnalysis ---------------------------
(* What analyze.rs makes of telemetry.ndjson and of the async event stream. *)
(*                                                                           *)
(* A file is the sequence of the writes that reached it: the record and how *)
(* the write ended - with its newline, just before it, inside the record or *)
(* inside a character of it.  Whatever does not end with a newline has the  *)
(* next write on its line.                                                   *)
EXTENDS Integers, FiniteSets, Sequences, FiniteSetsExt, Functions, Walks

CONSTANT ChainLimit         \* 16 in causal_chain

ASSUME NdjsonAssumption == ChainLimit \in Nat \ {0}

Unknown == <<>>     \* the type of a resource whose init is not there

Ends == {"newline", "bare", "cut", "utf8"}

Piece(record, end) == [record |-> record, end |-> end]

Alone(f, k) == k = 1 \/ f[k - 1].end = "newline"
OnLastLine(f, k) == \A j \in k..Len(f) - 1 : f[j].end # "newline"

(* A line with a torn record, or with two, is no JSON.                      *)
Parses(f, k) ==
    /\ Alone(f, k)
    /\ f[k].end = "newline" \/ (f[k].end = "bare" /\ k = Len(f))

(* read_ndjson_checked: any byte sequence that is no UTF-8 fails lines().   *)
(* The values are a function that has them in their places in the file.     *)
read_ndjson_checked(f) ==
    [ok |-> \A k \in DOMAIN f : /\ f[k].end # "utf8"
                                /\ Parses(f, k) \/ OnLastLine(f, k),
     values |-> [k \in {j \in DOMAIN f : Parses(f, j)} |-> f[k].record],
     truncated |-> \E k \in DOMAIN f : ~Parses(f, k)]

Which(v, event) == {k \in DOMAIN v : v[k].event = event}
By(v, ks) == {v[k].id : k \in ks}
---------------------------------------------------------------------------
(* telemetry_integrity and async_integrity, of files that could be read.    *)
telemetry_integrity(t) ==
    LET started == By(t.values, Which(t.values, "start"))
    IN started # {} /\ started = By(t.values, Which(t.values, "finish")) /\ ~t.truncated

async_integrity(e, t) ==
    LET expected == By(t.values, Which(t.values, "start"))
    IN expected # {} /\ By(e.values, Which(e.values, "async_summary")) = expected
       /\ ~e.truncated
---------------------------------------------------------------------------
(* analyze_telemetry, for one number of a sample: used heap or the count of *)
(* a kind of resource, or rss as long as there are no samples of v8scope's  *)
(* own (process.ndjson), which reanalyze puts in its place.  Isolates are   *)
(* added up.                                                                 *)
Samples(t, d) == {k \in Which(t, "sample") : t[k].id = d}

Sampled(t) == By(t, Which(t, "sample"))

(* Mutant: the file's last sample stands for all isolates.                  *)
analyze_telemetry_OneLast(t) ==
    [first |-> SumFunction([d \in Sampled(t) |-> t[Min(Samples(t, d))].used]),
     last |-> IF Sampled(t) = {} THEN 0 ELSE t[Max(Which(t, "sample"))].used,
     peak |-> SumFunction([d \in Sampled(t) |-> Max({t[k].used : k \in Samples(t, d)})])]

analyze_telemetry(t) ==
    [first |-> SumFunction([d \in Sampled(t) |-> t[Min(Samples(t, d))].used]),
     last |-> SumFunction([d \in Sampled(t) |-> t[Max(Samples(t, d))].used]),
     peak |-> SumFunction([d \in Sampled(t) |-> Max({t[k].used : k \in Samples(t, d)})])]
---------------------------------------------------------------------------
(* analyze_async.                                                            *)

(* Mutant: resources are told apart by their async_id alone.                *)
Key_AsyncId(id, async_id) == <<"any", async_id>>

Key(id, async_id) == <<id, async_id>>

OwnKey(r) == Key(r.id, r.async_id)

(* `resources` when the k-th record is processed: the record that inserted  *)
(* a key last, 0 when there is none.                                        *)
Inserted(v, k, key) ==
    Max({0} \cup {j \in Which(v, "init") : j < k /\ OwnKey(v[j]) = key})

(* The record that created the resource which triggered that of record j.   *)
Parent(v, k, j) ==
    IF j = 0 \/ v[j].trigger = 0 THEN 0 ELSE Inserted(v, k, Key(v[j].id, v[j].trigger))

(* From a callback's resource up its triggers, as far as they are known, to *)
(* the first that repeats or to the limit; oldest first.                    *)
causal_chain(v, k) ==
    LET parents == [j \in {0} \cup Which(v, "init") |-> Parent(v, k, j)]
        line == Walk(parents, Inserted(v, k, OwnKey(v[k])), ChainLimit + 1)
        Stops(n) == line[n] = 0 \/ n > ChainLimit \/ \E m \in 1..n - 1 : line[m] = line[n]
        length == Min({n \in 1..ChainLimit + 1 : Stops(n)}) - 1
    IN [n \in 1..length |-> v[line[length + 1 - n]].type]

TypeOf(v, k) ==
    LET j == Inserted(v, k, OwnKey(v[k])) IN IF j = 0 THEN Unknown ELSE v[j].type

(* A callback draws an edge from its trigger's type to its own.             *)
Edge(v, k) ==
    LET own == Inserted(v, k, OwnKey(v[k]))
        parent == Parent(v, k, own)
    IN IF parent = 0 THEN <<>> ELSE <<v[parent].type, v[own].type>>

Live(v) ==
    {OwnKey(v[k]) : k \in {j \in Which(v, "init") :
        \A l \in Which(v, "destroy") : l > j => OwnKey(v[l]) # OwnKey(v[j])}}

(* What a callback's record contributes to the summary.                     *)
Attributed(v, k) ==
    [type |-> TypeOf(v, k), edge |-> Edge(v, k), chain |-> causal_chain(v, k)]

(* Live resources are counted here only if no isolate has summarized.       *)
analyze_async(v) ==
    LET summaries == Which(v, "async_summary")
    IN [events |-> Cardinality(DOMAIN v \ summaries),
        callbacks |-> [k \in Which(v, "callback") |-> Attributed(v, k)],
        dropped |-> SumFunction([k \in summaries |-> v[k].dropped]),
        live |-> IF summaries = {} THEN Cardinality(Live(v))
                 ELSE SumFunction([k \in summaries |-> v[k].live])]
===========================================================================
