------------------------------ MODULE Evidence ------------------------------
(***************************************************************************)
(* How Damascus turns measurements into decisions: agents' performance      *)
(* records into ranked opportunities (OpportunityAnalyzer), scores into an  *)
(* overall score (scoring.py), and the runs of a baseline and a candidate   *)
(* into a comparison and a recommendation (EvaluationEngine).  One pass is  *)
(* made, over inputs of every kind.                                        *)
(*                                                                         *)
(* A run's overall score is what its caller says it is: nothing in the code *)
(* ties it to the run's metrics, or to what scoring.py makes of scores.     *)
(*                                                                         *)
(* Numbers are integers: hundredths for one score of scoring.py; hundredths *)
(* of a percent for overall scores, priorities and the metrics of runs.     *)
(***************************************************************************)
EXTENDS Integers, SequencesExt

CONSTANTS
  Agents, Kinds,   \* agents, and the measurements that an execution may leave
  Window,          \* records that one analysis reads (500)
  MaxRecords,      \* bound: records
  Marks,           \* the MetricScores, each a score and its weight
  MaxMarks,        \* bound: of them in one list
  Metrics, Values, \* a benchmark's metrics and the values of a run for them
  Overalls,        \* the overall scores that callers give to runs
  Thresholds       \* improvement thresholds a caller asks for (0: none)

ASSUME EvidenceAssumption ==
  /\ Window \in Nat \ {0} /\ MaxRecords \in Nat
  /\ Kinds \subseteq BOOLEAN \X Int \X Int \X Int
  /\ Marks \subseteq [score : 0 .. 100, weight : Nat] /\ MaxMarks \in Nat
  /\ Values \subseteq Int /\ Overalls \subseteq Int /\ Thresholds \subseteq Int

VARIABLES
  stage,      \* what comes next in the pass
  records,    \* performance records, newest first
  found,      \* the opportunities, in the order reported
  overall,    \* the overall score made of a list of scores
  runs,       \* the metrics and the overall score of the baseline's and the candidate's run
  critical, threshold, noise,   \* how the evaluation is asked for
  advice      \* what it recommends

vars == <<stage, records, found, overall, runs, critical, threshold, noise, advice>>

-----------------------------------------------------------------------------
(* Opportunities.  of is the set of places that the records of an agent have *)
(* among those that are read.                                               *)

MinSamples == 3
Full == 10000   \* a priority or an overall score of 1.0
AtMost(x, y) == IF x <= y THEN x ELSE y

SumOf(seq) ==
  LET upTo[k \in 0 .. Len(seq)] == IF k = 0 THEN 0 ELSE upTo[k - 1] + seq[k]
  IN upTo[Len(seq)]

\* What the agent's records hold in a column, where it is positive.
Positive(recs, of, column) ==
  [i \in 1 .. Len(recs) |-> IF i \in of /\ recs[i][column] > 0 THEN recs[i][column] ELSE 0]
HowMany(values) == Cardinality({i \in DOMAIN values : values[i] > 0})

Failures(recs, of) == {i \in of : ~recs[i].success}

\* More than 3 of 10 executions failed.
RepeatedFailure(recs, of) == 10 * Cardinality(Failures(recs, of)) > 3 * Cardinality(of)

\* The scores that there are average less than a half.
LowQuality(recs, of) ==
  LET scores == Positive(recs, of, "quality")
  IN HowMany(scores) > 0 /\ SumOf(scores) < 50 * HowMany(scores)

\* One execution took twice the average, which is above a second.
HighLatency(recs, of) ==
  LET latencies == Positive(recs, of, "latency")
  IN /\ HowMany(latencies) > 0
     /\ \E i \in DOMAIN latencies : latencies[i] * HowMany(latencies) > 2 * SumOf(latencies)
     /\ SumOf(latencies) > 1000 * HowMany(latencies)

ExcessiveCost(recs, of) ==
  LET tokens == Positive(recs, of, "tokens")
  IN HowMany(tokens) > 0 /\ SumOf(tokens) > 10000 * HowMany(tokens)

Types == {"REPEATED_FAILURE", "LOW_QUALITY", "HIGH_LATENCY", "EXCESSIVE_COST"}

Detected(recs, of, type) ==
  CASE type = "REPEATED_FAILURE" -> RepeatedFailure(recs, of)
    [] type = "LOW_QUALITY" -> LowQuality(recs, of)
    [] type = "HIGH_LATENCY" -> HighLatency(recs, of)
    [] type = "EXCESSIVE_COST" -> ExcessiveCost(recs, of)

Priority(recs, of, type) ==
  LET scores == Positive(recs, of, "quality")
  IN CASE type = "REPEATED_FAILURE" ->
            AtMost(Full, (3 * Full * Cardinality(Failures(recs, of))) \div (2 * Cardinality(of)))
       [] type = "LOW_QUALITY" -> Full - (Full * SumOf(scores)) \div (50 * HowMany(scores))
       [] type = "HIGH_LATENCY" -> (4 * Full) \div 10
       [] type = "EXCESSIVE_COST" -> (3 * Full) \div 10

\* The detectors run in this order.
Turn(type) == CASE type = "REPEATED_FAILURE" -> 0 [] type = "LOW_QUALITY" -> 1
                [] type = "HIGH_LATENCY" -> 2 [] type = "EXCESSIVE_COST" -> 3

\* The newest records, by agent.
OfAgent(recs, agent) == {i \in 1 .. AtMost(Window, Len(recs)) : recs[i].agent = agent}
Newest(of) == CHOOSE i \in of : \A j \in of : i <= j

\* at is where the opportunity comes in the list that is to be sorted: the
\* agents come in the order of their newest records.
Candidate(recs, agent, type) ==
  LET of == OfAgent(recs, agent)
  IN [agent |-> agent, type |-> type, priority |-> Priority(recs, of, type), at |-> 4 * Newest(of) + Turn(type)]

AnalyzeSingleAgent(recs, agent) ==
  {Candidate(recs, agent, type) : type \in {t \in Types : Detected(recs, OfAgent(recs, agent), t)}}

\* Mutant: the sort is ascending.
LeastFirst(all) ==
  LET Place(x) == Cardinality({y \in all : y.priority < x.priority \/ (y.priority = x.priority /\ y.at <= x.at)})
  IN [k \in 1 .. Cardinality(all) |-> CHOOSE x \in all : Place(x) = k]

\* A stable sort, the highest priority first.
Ranked(all) ==
  LET Place(x) == Cardinality({y \in all : y.priority > x.priority \/ (y.priority = x.priority /\ y.at <= x.at)})
  IN [k \in 1 .. Cardinality(all) |-> CHOOSE x \in all : Place(x) = k]

AnalyzeAgentPerformance(recs) ==
  Ranked(UNION {AnalyzeSingleAgent(recs, agent) :
                agent \in {a \in Agents : Cardinality(OfAgent(recs, a)) >= MinSamples}})

-----------------------------------------------------------------------------
(* The overall score of a list of scores: their average by weight, rounded to *)
(* four places (a half up, where the code's floats decide).                  *)

Weights(marks) == SumOf([i \in DOMAIN marks |-> marks[i].weight])
Weighted(marks) == SumOf([i \in DOMAIN marks |-> marks[i].score * marks[i].weight])

\* Mutant: the sum is divided by the number of scores.
CountedScore(marks) ==
  IF Len(marks) = 0 THEN 0 ELSE (200 * Weighted(marks) + Len(marks)) \div (2 * Len(marks))

\* No list, or none with a weight, has an average.
CompositeScore(marks) ==
  IF Weights(marks) = 0 THEN 0 ELSE (200 * Weighted(marks) + Weights(marks)) \div (2 * Weights(marks))

-----------------------------------------------------------------------------
(* The comparison of two runs and its recommendation *)

\* A metric that a run lacks counts 0.
Value(run, m) == IF m \in DOMAIN run.metrics THEN run.metrics[m] ELSE 0
Compared(baseline, candidate) == DOMAIN baseline.metrics \cup DOMAIN candidate.metrics

\* compare_runs: of the overall scores, and metric by metric.
CompareRuns(baseline, candidate) ==
  [isImprovement |-> candidate.score > baseline.score,
   isRegression |-> candidate.score < baseline.score,
   deltas |-> [m \in Compared(baseline, candidate) |-> Value(candidate, m) - Value(baseline, m)]]

\* The delta in percent of the baseline's value is below minus limit, which is in
\* thousandths of a percent.  A baseline of 0 cannot fall; one below 0 turns the
\* sign, and falls by rising.
FellBy(limit, b, c) ==
  \/ b > 0 /\ 100000 * (b - c) > limit * b
  \/ b < 0 /\ 100000 * (c - b) > limit * (-b)

\* A regression is a fall of more than 5 %.  A severe one is a fall of more than
\* 10 % when rounded to two places of a percent.
Regressed(baseline, candidate) ==
  {m \in Compared(baseline, candidate) : FellBy(5000, Value(baseline, m), Value(candidate, m))}
Severely(baseline, candidate) ==
  {m \in Compared(baseline, candidate) : FellBy(10005, Value(baseline, m), Value(candidate, m))}

\* The default is 2 %, for a threshold of 0 too.
ThresholdOf(asked) == IF asked = 0 THEN 200 ELSE asked

\* Twice the difference of the scores.  That is a float: err is what it is off,
\* of half a unit of the last place.
Delta(baseline, candidate, err) == 2 * (candidate.score - baseline.score) + err

\* Mutant: a metric that only one run has is not compared.
EvaluateCommon(baseline, candidate, crit, asked, err) ==
  LET both == DOMAIN baseline.metrics \cap DOMAIN candidate.metrics
      regressions == Regressed(baseline, candidate) \cap both
  IN IF regressions \cap crit # {} \/ Severely(baseline, candidate) \cap both # {} THEN "REJECT"
     ELSE IF Delta(baseline, candidate, err) >= 2 * ThresholdOf(asked)
          THEN IF regressions = {} THEN "PROMOTE" ELSE "INCONCLUSIVE"
     ELSE IF Delta(baseline, candidate, err) > -2 * ThresholdOf(asked) THEN "INCONCLUSIVE" ELSE "REJECT"

\* Mutant: the size of the difference decides.
EvaluateBySize(baseline, candidate, crit, asked, err) ==
  LET regressions == Regressed(baseline, candidate)
      delta == Delta(baseline, candidate, err)
  IN IF regressions \cap crit # {} \/ Severely(baseline, candidate) # {} THEN "REJECT"
     ELSE IF delta >= 2 * ThresholdOf(asked) \/ delta <= -2 * ThresholdOf(asked)
          THEN IF regressions = {} THEN "PROMOTE" ELSE "INCONCLUSIVE"
     ELSE "INCONCLUSIVE"

\* No critical metric may regress, none severely; a better score with a metric
\* that regressed is left to a human.  Below a negative threshold nothing is
\* too small a difference to judge.
Evaluate(baseline, candidate, crit, asked, err) ==
  LET regressions == Regressed(baseline, candidate)
      delta == Delta(baseline, candidate, err)
      limit == 2 * ThresholdOf(asked)
  IN IF regressions \cap crit # {} \/ Severely(baseline, candidate) # {} THEN "REJECT"
     ELSE IF delta >= limit THEN IF regressions = {} THEN "PROMOTE" ELSE "INCONCLUSIVE"
     ELSE IF delta > -limit THEN "INCONCLUSIVE" ELSE "REJECT"

-----------------------------------------------------------------------------
Run == [metrics : UNION {[known -> Values] : known \in SUBSET Metrics}, score : Overalls]
NoRun == [metrics |-> [m \in {} |-> 0], score |-> 0]

Init ==
  /\ stage = "records" /\ records = <<>> /\ found = <<>>
  /\ overall = 0 /\ runs = [baseline |-> NoRun, candidate |-> NoRun]
  /\ critical = {} /\ threshold = 0 /\ noise = 0 /\ advice = "none"

\* performance_service.record
Record(agent, kind) ==
  /\ stage = "records" /\ Len(records) < MaxRecords
  /\ records' = <<[agent |-> agent, success |-> kind[1], quality |-> kind[2],
                   latency |-> kind[3], tokens |-> kind[4]]>> \o records
  /\ UNCHANGED <<stage, found, overall, runs, critical, threshold, noise, advice>>

\* persist_opportunities keeps what the analysis reports, in its order.
Analyze ==
  /\ stage = "records" /\ records # <<>>
  /\ found' = AnalyzeAgentPerformance(records)
  /\ stage' = "plan"
  /\ UNCHANGED <<records, overall, runs, critical, threshold, noise, advice>>

\* An experiment is planned on one of them; what led to it plays no more part.
Plan ==
  /\ stage = "plan" /\ found # <<>>
  /\ stage' = "score" /\ records' = <<>> /\ found' = <<>>
  /\ UNCHANGED <<overall, runs, critical, threshold, noise, advice>>

\* What the difference of two scores may be off.
Off == {-1, 0, 1}

\* aggregate_scores: any list of scores.
AggregateScores(marks) ==
  /\ stage = "score"
  /\ overall' = CompositeScore(marks)
  /\ stage' = "baseline"
  /\ UNCHANGED <<records, found, runs, critical, threshold, noise, advice>>

\* complete_run: any metrics and any overall score, which may be the aggregate
\* or not; the aggregate plays no more part.
Measure(which, run) ==
  /\ stage = which
  /\ runs' = [runs EXCEPT ![which] = run]
  /\ overall' = 0
  /\ stage' = IF which = "baseline" THEN "candidate" ELSE "evaluate"
  /\ UNCHANGED <<records, found, critical, threshold, noise, advice>>

\* EvaluationEngine.evaluate, of what the caller says of the two runs.
Judge(crit, asked, err) ==
  /\ stage = "evaluate"
  /\ critical' = crit /\ threshold' = asked /\ noise' = err
  /\ advice' = Evaluate(runs.baseline, runs.candidate, crit, asked, err)
  /\ stage' = "done"
  /\ UNCHANGED <<records, found, overall, runs>>

\* The evolution service asks for no threshold.
EvaluateVariant(crit, err) == Judge(crit, 0, err)

Next ==
  \/ \E agent \in Agents, kind \in Kinds : Record(agent, kind)
  \/ Analyze \/ Plan
  \/ \E n \in 0 .. MaxMarks : \E marks \in [1 .. n -> Marks] : AggregateScores(marks)
  \/ \E run \in Run : Measure("baseline", run) \/ Measure("candidate", run)
  \/ \E crit \in SUBSET Metrics, err \in Off :
       EvaluateVariant(crit, err) \/ \E asked \in Thresholds : Judge(crit, asked, err)

Spec == Init /\ [][Next]_vars

-----------------------------------------------------------------------------
(* Properties *)

Rank(recommendation) == CASE recommendation = "REJECT" -> 0 [] recommendation = "INCONCLUSIVE" -> 1
                          [] recommendation = "PROMOTE" -> 2

\* Every variable has its type; priorities and the overall scores that scoring.py
\* makes lie between 0 and 1, whatever the weights, none and 0 included.
TypeOK ==
  /\ stage \in {"records", "plan", "score", "baseline", "candidate", "evaluate", "done"}
  /\ Len(records) <= MaxRecords /\ \A i \in DOMAIN found : found[i].priority \in 0 .. Full
  /\ overall \in 0 .. Full /\ \A which \in DOMAIN runs : runs[which] \in Run \cup {NoRun}
  /\ critical \subseteq Metrics /\ threshold \in Thresholds \cup {0} /\ noise \in Off
  /\ advice \in {"none", "REJECT", "INCONCLUSIVE", "PROMOTE"}

\* An agent all of whose recent executions failed, enough of them to be judged,
\* is reported, and only agents that fail two times of three come before it,
\* however the others do for quality, latency and cost.
WorstFirst == stage = "plan" => \A agent \in Agents :
  LET of == OfAgent(records, agent)
  IN Cardinality(of) >= MinSamples /\ (\A i \in of : ~records[i].success) =>
       \E k \in DOMAIN found :
         /\ found[k].agent = agent /\ found[k].type = "REPEATED_FAILURE"
         /\ \A j \in 1 .. k - 1 :
              LET other == OfAgent(records, found[j].agent)
              IN /\ found[j].type = "REPEATED_FAILURE"
                 /\ 3 * Cardinality(Failures(records, other)) >= 2 * Cardinality(other)

\* What is promoted keeps every metric of the baseline that is above 0 at 95 % at
\* least, and so measures it: the metric deltas of compare_runs say so.  Asked
\* with a threshold that is not negative, compare_runs calls it an improvement.
NothingLostByPromotion == advice = "PROMOTE" =>
  LET direct == CompareRuns(runs.baseline, runs.candidate)
      metrics == runs.baseline.metrics
  IN /\ \A m \in DOMAIN metrics : metrics[m] > 0 =>
            m \in DOMAIN runs.candidate.metrics /\ 20 * direct.deltas[m] >= -metrics[m]
     /\ threshold >= 0 => direct.isImprovement /\ ~direct.isRegression

\* A run that is given no better score, and has no higher value for any metric
\* that the baseline scores on, one left out counting 0, is never judged better,
\* nor is one for which more metrics are critical.  What a metric left out does to
\* the score is the caller's affair: an average without a low score is higher.
WorseIsNeverBetter == stage = "done" => \A worse \in Run, crit \in SUBSET Metrics, err \in Off :
  /\ critical \subseteq crit
  /\ worse.score < runs.candidate.score \/ (worse.score = runs.candidate.score /\ err = noise)
  /\ \A m \in Metrics :
       /\ Value(runs.baseline, m) > 0 => Value(worse, m) <= Value(runs.candidate, m)
       /\ Value(runs.baseline, m) < 0 => Value(worse, m) = Value(runs.candidate, m)
  => Rank(Evaluate(runs.baseline, worse, crit, threshold, err)) <= Rank(advice)
=============================================================================
