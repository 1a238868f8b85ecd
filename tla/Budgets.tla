------------------------------ MODULE Budgets ------------------------------
(* What compare.rs decides about two runs and a budget file.                *)
(*                                                                           *)
(* A run here is what its manifest and its summary say: mode is the capture *)
(* mode, collectors the set that was asked for, whole the set that is       *)
(* complete and has its artifacts, env what Node major, V8 major, system    *)
(* and architecture say (or Missing), metrics a number for each metric.  A  *)
(* limit of a budget is a set of one number, or empty.                       *)
EXTENDS Integers, FiniteSets

CONSTANT Metrics            \* the names compare knows

Missing == "missing"

(* validate_budget_names.                                                    *)
Valid(budgets) ==
    /\ DOMAIN budgets # {} /\ DOMAIN budgets \subseteq Metrics
    /\ \A name \in DOMAIN budgets :
          LET b == budgets[name]
          IN b.max \cup b.regression # {} /\ \A limit \in b.regression : limit >= 0

(* run_contract_reasons: there are none.                                     *)
KeepsContract(run) ==
    run.schema /\ run.sameId /\ run.collectors \subseteq run.whole

(* comparability_reasons: there are none.                                    *)
Alike(a, b) ==
    /\ a.finished /\ b.finished /\ ~a.partial /\ ~b.partial
    /\ a.mode = b.mode /\ a.collectors = b.collectors
    /\ a.env = b.env /\ a.env # Missing

(* metrics: without telemetry there are none.                               *)
Available(run) == IF "telemetry" \in run.collectors THEN DOMAIN run.metrics ELSE {}

(* metric_deltas.                                                            *)
Deltas(a, b) ==
    [name \in Available(a) \cap Available(b) |->
        [baseline |-> a.metrics[name], candidate |-> b.metrics[name]]]

(* percent > limit, where percent = delta / baseline * 100: a negative      *)
(* baseline turns the inequality round.                                      *)
PercentExceeds(d, limit) ==
    LET delta == (d.candidate - d.baseline) * 100
    IN IF d.baseline > 0 THEN delta > limit * d.baseline
                         ELSE delta < limit * d.baseline

(* apply_budgets, for one budget and its metric: the kinds of violation.    *)
Violations(d, budget) ==
    {kind \in {"absolute_max", "regression_percent", "regression_from_zero"} :
        \/ /\ kind = "absolute_max"
           /\ \E limit \in budget.max : d.candidate > limit
        \/ /\ kind = "regression_percent" /\ d.baseline # 0
           /\ \E limit \in budget.regression : PercentExceeds(d, limit)
        \/ /\ kind = "regression_from_zero" /\ d.baseline = 0
           /\ budget.regression # {} /\ d.candidate > d.baseline}

(* Mutant: a budget for a metric that neither run has is passed over.       *)
Comparable_Unbudgeted(a, b, budgets) ==
    Alike(a, b) /\ KeepsContract(a) /\ KeepsContract(b)

Comparable(a, b, budgets) ==
    /\ Alike(a, b) /\ KeepsContract(a) /\ KeepsContract(b)
    /\ DOMAIN budgets \subseteq DOMAIN Deltas(a, b)

(* execute: 70 when the budgets are invalid or the runs not comparable, 10  *)
(* when a budget is exceeded, else 0.                                        *)
ExitCode(a, b, budgets) ==
    LET deltas == Deltas(a, b)
    IN IF ~Valid(budgets) \/ ~Comparable(a, b, budgets) THEN 70
       ELSE IF \E name \in DOMAIN budgets \cap DOMAIN deltas :
                   Violations(deltas[name], budgets[name]) # {} THEN 10
       ELSE 0
---------------------------------------------------------------------------
(* What a budget means: the candidate b is at most its maximum, and the     *)
(* baseline a grew by no more than the regression's percentage.  Of a       *)
(* negative baseline, a heap that shrank, the code has it the other way:    *)
(* the candidate may be as large as it likes, and fails when it is smaller  *)
(* than the baseline by more than that percentage.                           *)
Within(a, b, budget) ==
    /\ \A limit \in budget.max : b <= limit
    /\ \A limit \in budget.regression :
          IF a >= 0 THEN b * 100 <= a * (100 + limit) ELSE b * 100 >= a * (100 + limit)

(* The gate is closed unless all is well.  Any code but 70 says that two    *)
(* finished, complete runs of one mode with the same collectors in the same *)
(* environment were compared, whose artifacts are there, and that both have *)
(* every metric a budget names; and it is 0 exactly when every budget was   *)
(* kept, in the sense of Within.                                             *)
GateHolds(a, b, budgets) ==
    LET code == ExitCode(a, b, budgets)
    IN code # 70 =>
         /\ \A run \in {a, b} : /\ run.finished /\ ~run.partial
                               /\ run.collectors \subseteq run.whole
                               /\ run.env # Missing
         /\ a.mode = b.mode /\ a.collectors = b.collectors /\ a.env = b.env
         /\ \A name \in DOMAIN budgets : name \in Available(a) \cap Available(b)
         /\ (code = 0) <=> \A name \in DOMAIN budgets :
                              Within(a.metrics[name], b.metrics[name], budgets[name])
=============================================================================
