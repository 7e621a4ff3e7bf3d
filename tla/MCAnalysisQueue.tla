--------------------------- MODULE MCAnalysisQueue ----------------------------
EXTENDS AnalysisQueue, TLC

CONSTANTS a1, a2, r1, r2, w1, w2, v1

Text(rules, suspect, worst) ==
  [rules |-> rules, suspect |-> suspect, harmless |-> FALSE, dense |-> FALSE,
   worst |-> worst]

MCDigests == {"long", "short"}

\* A long text whose attack lies behind its first 200 characters, a short one that
\* is suspicious in either context, and no text at all.
MCContents ==
  {[digest |-> "long",
    whole |-> Text({"shell", "sql"}, TRUE, 95), head |-> Text({}, FALSE, 0)],
   [digest |-> "short",
    whole |-> Text({"sql"}, FALSE, 95), head |-> Text({"sql"}, FALSE, 95)],
   [digest |-> NoDigest, whole |-> Text({}, FALSE, 0), head |-> Text({}, FALSE, 0)]}

MCContexts == {[criticality |-> "medium", public |-> FALSE, development |-> FALSE]}

MCAnalyses == {a1, a2}
MCKeys == {a1, a2}
MCDeskWords == {"acknowledged", "resolved"}
MCSubmissions == {r1, r2}
MCWorkers == {w1, w2}
MCWatchers == {v1}

==============================================================================
