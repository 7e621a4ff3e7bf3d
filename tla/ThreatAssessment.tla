--------------------------- MODULE ThreatAssessment ---------------------------
(***************************************************************************)
(* What the analyzer makes of a content: the rules that match, the guess   *)
(* of the model and the reputation of the indicators become signals, their *)
(* weighted mean a score, and the score a severity, a verdict and an       *)
(* alert.  Scores are out of 100; weights, confidences and multipliers are *)
(* counted in twentieths, so that every comparison is one of integers.     *)
(***************************************************************************)
EXTENDS Integers, FiniteSets, FiniteSetsExt

RuleWeight == [shell |-> 45, phishing |-> 35, sql |-> 30, dns |-> 20, blob |-> 15]

Reputations == {75, 85, 90, 92, 95, 98, 99, 100}   \* of the indicators known to be bad

\* What is in a text: the rules that it matches, whether it has one of the
\* model's suspicious words, one of its harmless words, a high entropy, and the
\* worst reputation of its indicators (0: none is known to be bad).
Observation == [rules : SUBSET DOMAIN RuleWeight, suspect : BOOLEAN,
                harmless : BOOLEAN, dense : BOOLEAN, worst : {0} \cup Reputations]

\* Where the content was found, as the submitter says.
Context == [criticality : {"low", "medium", "high", "critical"},
            public : BOOLEAN, development : BOOLEAN]

AtMost100(n) == IF n > 100 THEN 100 ELSE n

RuleScore(o) == AtMost100(MapThenSumSet(LAMBDA r : RuleWeight[r], o.rules))

ModelScore(o) ==
  LET risk == 10 + (IF o.suspect THEN 65 ELSE 0) + (IF o.dense THEN 20 ELSE 0)
      calm == IF risk - 10 < 5 THEN 5 ELSE risk - 10
  IN IF o.harmless /\ ~o.suspect THEN calm ELSE risk

\* Signals that are absent have no weight: they do not lower the mean.
Signals(o) ==
  {[source |-> "ml_model", raw |-> ModelScore(o), weight |-> 7,
    confidence |-> IF o.suspect THEN 19 ELSE 17]}
  \cup {[source |-> "rules", raw |-> RuleScore(o), weight |-> 7,
         confidence |-> 19] : n \in IF o.rules = {} THEN {} ELSE {1}}
  \cup {[source |-> "threat_intel", raw |-> o.worst, weight |-> 4,
         confidence |-> 18] : n \in IF o.worst < 50 THEN {} ELSE {1}}

Weight(o) == MapThenSumSet(LAMBDA s : s.weight, Signals(o))

Weighted(o) == MapThenSumSet(LAMBDA s : s.raw * s.weight * s.confidence, Signals(o))

\* In 8000ths.
Multiplier(c) ==
  (CASE c.criticality = "critical" -> 26
     [] c.criticality = "high" -> 23
     [] c.criticality = "medium" -> 20
     [] c.criticality = "low" -> 17)
  * (IF c.public THEN 23 ELSE 20) * (IF c.development THEN 18 ELSE 20)

\* The score of observation o in context c is at least t.
Reaches(o, c, t) == Weighted(o) * Multiplier(c) >= t * Weight(o) * 20 * 8000

Severity(o, c) ==
  IF Reaches(o, c, 80) THEN "critical"
  ELSE IF Reaches(o, c, 60) THEN "high"
  ELSE IF Reaches(o, c, 35) THEN "medium"
  ELSE IF Reaches(o, c, 15) THEN "low" ELSE "info"

\* The mean confidence of these signals is never below one half.
Verdict(o, c) ==
  IF Reaches(o, c, 60) THEN "malicious"
  ELSE IF Reaches(o, c, 15) THEN "suspicious" ELSE "benign"

\* The score reaches 40 once it is rounded to two decimals.
RoundsTo40(o, c) == Weighted(o) * Multiplier(c) >= 6399200 * Weight(o)

\* Whether the pipeline raises an alert.
Alerts(o, c) == RoundsTo40(o, c) \/ Severity(o, c) \in {"high", "critical"}

Finding(o, c) == [verdict |-> Verdict(o, c), severity |-> Severity(o, c),
                  alert |-> Alerts(o, c)]

==============================================================================
