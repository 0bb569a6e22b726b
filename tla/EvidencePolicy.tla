---------------------------- MODULE EvidencePolicy ----------------------------
(***************************************************************************)
(* The evidence packages/evidence/executor.py draws from a candidate's     *)
(* build and table, and what packages/policy/engine.py makes of it.  A     *)
(* table is a sequence of rows; all percentages are compared by cross      *)
(* multiplication, in units of a hundredth of a per cent.  The code        *)
(* compares floats; on a bound itself they may differ from this.           *)
(***************************************************************************)
EXTENDS Integers, Sequences, FiniteSets, SequencesExt

CONSTANTS
    Null,             \* SQL NULL
    Baseline,         \* audit.payments_fct_last_good
    ExpectedModels,   \* _EXPECTED_DBT_MODEL_SUFFIXES
    MinTests          \* _MIN_EXPECTED_DBT_CHECKS

\* A row has a payment's id and revenue; payment_id is the baseline's primary key.
IsTable(t) == t \in Seq({t[i] : i \in DOMAIN t})

ASSUME BaselineAssumption ==
    /\ IsTable(Baseline)
    /\ \A i, j \in DOMAIN Baseline : Baseline[i].id = Baseline[j].id => i = j

\* PolicyConfig: 0.50 %, 0.10 %, 99.90 %, 0.50 percentage points.
MAX_TOTAL_VARIANCE     == 50
MAX_ROW_COUNT_VARIANCE == 10
MIN_KEY_OVERLAP        == 9990
MAX_NULL_RATE_DELTA    == 50
Whole == 10000

(***************************************************************************)
(* dbt: what a project's tests say of the table it built.                  *)
(***************************************************************************)
TestPasses(test, table) ==
    CASE test = "unique"   -> \A i, j \in DOMAIN table : table[i].id = table[j].id => i = j
      [] test = "not_null" -> \A i \in DOMAIN table : table[i].revenue # Null
      [] OTHER             -> TRUE

\* Mutant of BuildPassed: which models were built is not looked at.
MutAnyModels(project, table) ==
    /\ Cardinality(project.tests) >= MinTests
    /\ \A test \in project.tests : TestPasses(test, table)

\* _run_dbt: every expected model and enough tests in run_results.json, and no
\* node that failed.
BuildPassed(project, table) ==
    /\ ExpectedModels \subseteq project.models
    /\ Cardinality(project.tests) >= MinTests
    /\ \A test \in project.tests : TestPasses(test, table)

(***************************************************************************)
(* _reconcile: the aggregates of a table, and the size of its join with    *)
(* the baseline on payment_id.                                             *)
(***************************************************************************)
Revenue(row) == IF row.revenue = Null THEN 0 ELSE row.revenue
Aggregates(table) ==
    [count |-> Len(table),
     total |-> FoldSeq(LAMBDA row, sum : Revenue(row) + sum, 0, table),
     nulls |-> Cardinality({i \in DOMAIN table : table[i].revenue = Null})]
JoinCount(table) ==
    Cardinality({p \in (DOMAIN table) \X (DOMAIN Baseline) :
                     table[p[1]].id = Baseline[p[2]].id})

Magnitude(n) == IF n < 0 THEN -n ELSE n

\* _percentage_delta: against a baseline of zero only zero is no variance.
DeltaWithin(current, baseline, max) ==
    IF baseline = 0 THEN current = 0
    ELSE Magnitude(current - baseline) * Whole <= max * Magnitude(baseline)

OverlapEnough(join) == Len(Baseline) = 0 \/ join * Whole >= MIN_KEY_OVERLAP * Len(Baseline)

\* The null rate of an empty table is 0.
NullRateWithin(current, baseline) ==
    LET rows(a) == IF a.count = 0 THEN 1 ELSE a.count
    IN  Magnitude(current.nulls * rows(baseline) - baseline.nulls * rows(current)) * Whole
            <= MAX_NULL_RATE_DELTA * rows(current) * rows(baseline)

\* PolicyEngine.evaluate with the default configuration.
PolicyAccepts(semantic, metrics, join, built, lineage_current) ==
    LET baseline == Aggregates(Baseline) IN
    /\ semantic = "MATCH"
    /\ DeltaWithin(metrics.total, baseline.total, MAX_TOTAL_VARIANCE)
    /\ DeltaWithin(metrics.count, baseline.count, MAX_ROW_COUNT_VARIANCE)
    /\ OverlapEnough(join)
    /\ NullRateWithin(metrics, baseline)
    /\ built
    /\ lineage_current

-------------------------------------------------------------------------------
\* What acceptance is for: no payment of the baseline is gone, none was added,
\* and the total is the baseline's within the tolerance.
Ids(table) == {table[i].id : i \in DOMAIN table}
KeepsPayments(table) ==
    /\ (Len(Baseline) - Cardinality(Ids(table) \cap Ids(Baseline))) * Whole
           <= (Whole - MIN_KEY_OVERLAP) * Len(Baseline)
    /\ DeltaWithin(Aggregates(table).total, Aggregates(Baseline).total, MAX_TOTAL_VARIANCE)
===============================================================================
