---------------------------- MODULE ModelService ----------------------------
(***************************************************************************)
(* The price-prediction service of Inżynieria_Uczenia_Maszynowego/Phase2:  *)
(* the process-wide ModelService singleton (get_model_service), its A/B    *)
(* choice of model (select_model), predict_price, and the three routes     *)
(* that write and read the predictions table: /predict, /set_price and    *)
(* /results (with calculate_metrics).  A request is one step: its          *)
(* queries, its commit, then the validation of its response against the   *)
(* response_model (a failed validation is a 500 sent AFTER the commit).   *)
(* The process starts (lifespan: init_db, get_model_service) and may be   *)
(* restarted, which loses the singleton; the table persists.  The model   *)
(* files on disk are written by scripts/train.py, here the environment.   *)
(* A model's output for a listing is any member of ModelOutputs; a         *)
(* prediction id is its position in the table.                            *)
(***************************************************************************)
EXTENDS Integers, Sequences, FiniteSets, FiniteSetsExt

CONSTANTS
    ModelOutputs,   \* float(model.predict(features)[0]), a few values
    ActualPrices,   \* SetPriceInput.actual_price (ge=0)
    MaxPredictions, \* bound on the rows /predict adds
    MaxInFlight     \* /set_price requests between their query and commit

Variants == {"baseline", "advanced"}
NoPrice == -1   \* actual_price is None (prices are ge=0)

VARIABLES
    files,  \* the model files present under models/
    svc,    \* _model_service: [made, baseline, advanced] (loaded or not)
    up,     \* the application has completed its startup
    table,  \* the predictions table: <<[model, pred, actual]>>
    res,    \* the last /results answer
    out,    \* the status code of the last request
    pending \* /set_price requests past their checks: [id, a]

vars == <<files, svc, up, table, res, out, pending>>

NoService == [made |-> FALSE, baseline |-> FALSE, advanced |-> FALSE]

----------------------------------------------------------------------------
(* calculate_metrics over the evaluated rows R (a set of indices): the    *)
(* means as <<numerator, denominator>>, r2 defined when ss_total > 0,     *)
(* i.e. when n * sum(a^2) > sum(a)^2.                                      *)
Abs(x) == IF x < 0 THEN -x ELSE x

calculate_metrics(R) ==
    LET n == Cardinality(R)
        p(i) == table[i].pred
        a(i) == table[i].actual
    IN  IF R = {}
        THEN [none |-> TRUE, mae |-> <<0, 1>>, rmse2 |-> <<0, 1>>, r2 |-> FALSE,
              mean_pred |-> <<0, 1>>, mean_act |-> <<0, 1>>]
        ELSE [none |-> FALSE,
              mae |-> <<MapThenSumSet(LAMBDA i : Abs(p(i) - a(i)), R), n>>,
              rmse2 |-> <<MapThenSumSet(LAMBDA i : (p(i) - a(i)) * (p(i) - a(i)), R), n>>,
              r2 |-> n * MapThenSumSet(LAMBDA i : a(i) * a(i), R) > MapThenSumSet(a, R) * MapThenSumSet(a, R),
              mean_pred |-> <<MapThenSumSet(p, R), n>>, mean_act |-> <<MapThenSumSet(a, R), n>>]

\* Mutation: the evaluated rows are taken from all predictions, not from
\* the variant's.
Evaluated_allrows(v) == {i \in DOMAIN table : table[i].actual # NoPrice}

\* baseline_evaluated / advanced_evaluated of get_ab_test_results.
Evaluated(v) == {i \in DOMAIN table : table[i].model = v /\ table[i].actual # NoPrice}

\* get_ab_test_results: the ABTestResults answer.
ABTestResults ==
    [total_predictions |-> Len(table),
     total_evaluated |-> Cardinality(Evaluated("baseline")) + Cardinality(Evaluated("advanced")),
     metrics |-> [v \in Variants |->
        [num_predictions |-> Cardinality({i \in DOMAIN table : table[i].model = v}),
         num_evaluated |-> Cardinality(Evaluated(v)),
         metrics |-> calculate_metrics(Evaluated(v))]]]

\* The response_model check: ModelMetrics' means are ge=0.
ResultsValid(r) ==
    \A v \in Variants : /\ r.metrics[v].metrics.mean_pred[1] >= 0
                        /\ r.metrics[v].metrics.mean_act[1] >= 0

----------------------------------------------------------------------------
\* Mutation: a missing model file is logged and the attribute left None.
load_models_tolerant(f) ==
    [made |-> TRUE, baseline |-> "baseline" \in f, advanced |-> "advanced" \in f]

\* ModelService(): load_models opens the baseline file, then the advanced
\* one; a missing file raises (FileNotFoundError) out of the constructor.
load_models(f) ==
    IF f = Variants THEN [made |-> TRUE, baseline |-> TRUE, advanced |-> TRUE]
    ELSE NoService

\* get_model_service: the cached instance, or a new one.
get_model_service(f) == IF svc.made THEN svc ELSE load_models(f)

\* select_model and predict_price for the coin v of random.random() < p:
\* the variant's model if it is loaded (else ValueError), its output
\* clamped at 0 (<<price>>, or <<>> for the ValueError).
predict_price_noclamp(s, v, raw) == IF s[v] THEN <<raw>> ELSE <<>>

predict_price(s, v, raw) == IF s[v] THEN <<Max({0, raw})>> ELSE <<>>

Init ==
    /\ files \in SUBSET Variants
    /\ svc = NoService
    /\ up = FALSE
    /\ table = <<>>
    /\ res = ABTestResults
    /\ out = 0
    /\ pending = {}

\* scripts/train.py writes a model file.
Train(v) ==
    /\ v \notin files
    /\ files' = files \cup {v}
    /\ UNCHANGED <<svc, up, table, res, out, pending>>

\* lifespan: init_db, then get_model_service; an exception stops the
\* startup (the process exits, the instance is not kept).
Startup ==
    /\ ~up
    /\ LET s == get_model_service(files)
       IN  IF s.made
           THEN svc' = s /\ up' = TRUE /\ out' = 200
           ELSE out' = 500 /\ UNCHANGED <<svc, up>>
    /\ UNCHANGED <<files, table, res, pending>>

\* The process is restarted: the module globals and the requests in
\* progress are lost.
Restart ==
    /\ up
    /\ up' = FALSE
    /\ svc' = NoService
    /\ pending' = {}
    /\ UNCHANGED <<files, table, res, out>>

\* /health: 200, with models_loaded telling whether both attributes are
\* set (what ServesBothVariants states of every started state).
Health ==
    /\ up
    /\ out' = 200
    /\ UNCHANGED <<files, svc, up, table, res, pending>>

\* /predict: 400 for an unknown host_is_superhost; else predict_price
\* (ValueError: 500), commit the row, then validate the answer
\* (predicted_price ge=0).
Predict(superhostOK, v, raw) ==
    /\ up
    /\ Len(table) < MaxPredictions
    /\ LET price == predict_price(get_model_service(files), v, raw)
       IN  CASE ~superhostOK -> out' = 400 /\ UNCHANGED table
             [] price = <<>> -> out' = 500 /\ UNCHANGED table
             [] OTHER -> /\ table' = Append(table, [model |-> v, pred |-> price[1], actual |-> NoPrice])
                         /\ out' = IF price[1] >= 0 THEN 200 ELSE 500
    /\ UNCHANGED <<files, svc, up, res, pending>>

\* /set_price, up to its assignment: the query by id (404), the check that
\* actual_price is None (400).  A sync route: FastAPI runs it in a worker
\* thread, so other requests go on until its commit.
SetPrice(id, a) ==
    /\ up
    /\ CASE id \notin DOMAIN table -> out' = 404 /\ UNCHANGED pending
         [] table[id].actual # NoPrice -> out' = 400 /\ UNCHANGED pending
         [] OTHER -> /\ Cardinality(pending) < MaxInFlight
                     /\ pending' = pending \cup {[id |-> id, a |-> a]}
                     /\ UNCHANGED out
    /\ UNCHANGED <<files, svc, up, table, res>>

\* The rest of /set_price: the assignment is flushed as an UPDATE by
\* primary key (no condition on actual_price) and committed, then the
\* answer is validated (predicted_price ge=0).
SetPriceCommit(r) ==
    /\ r \in pending
    /\ table' = [table EXCEPT ![r.id].actual = r.a]
    /\ out' = IF table[r.id].pred >= 0 THEN 200 ELSE 500
    /\ pending' = pending \ {r}
    /\ UNCHANGED <<files, svc, up, res>>

\* /results.
Results ==
    /\ up
    /\ res' = ABTestResults
    /\ out' = IF ResultsValid(ABTestResults) THEN 200 ELSE 500
    /\ UNCHANGED <<files, svc, up, table, pending>>

Next ==
    \/ \E v \in Variants : Train(v)
    \/ Startup \/ Restart \/ Health \/ Results
    \/ \E ok \in BOOLEAN, v \in Variants, raw \in ModelOutputs : Predict(ok, v, raw)
    \/ \E id \in 1..(MaxPredictions + 1), a \in ActualPrices : SetPrice(id, a)
    \/ \E r \in pending : SetPriceCommit(r)

Spec == Init /\ [][Next]_vars

----------------------------------------------------------------------------
\* Once the application has started, both models are loaded: /health says
\* so, and no /predict of either A/B variant fails with "No model is
\* loaded", across restarts and model files written late.
ServesBothVariants ==
    up => /\ get_model_service(files).baseline /\ get_model_service(files).advanced
          /\ \A v \in Variants, raw \in ModelOutputs :
                predict_price(get_model_service(files), v, raw) # <<>>

\* Every committed prediction can be reported: in every state /results
\* answers 200 and its counts agree with the table (each prediction counted
\* under its own variant, each evaluated one once), so no earlier /predict
\* or /set_price has left a row that breaks the response model for good.
ResultsReportTable ==
    LET r == ABTestResults
    IN  /\ ResultsValid(r)
        /\ r.total_predictions = r.metrics["baseline"].num_predictions
                                 + r.metrics["advanced"].num_predictions
        /\ \A v \in Variants : r.metrics[v].num_evaluated <= r.metrics[v].num_predictions
        /\ r.total_evaluated = Cardinality({i \in DOMAIN table : table[i].actual # NoPrice})

\* A price, once set, stays: set_actual_price answers "Actual price has
\* already been set for this prediction." (400) to every later request
\* for the same prediction, so no /set_price overwrites the price an
\* earlier one set and reported.
PriceSetOnceStep ==
    \A i \in DOMAIN table :
        table[i].actual # NoPrice => table'[i].actual = table[i].actual

\* The property: every step of the service satisfies PriceSetOnceStep.
PriceSetOnce == [][PriceSetOnceStep]_vars

=============================================================================
