---------------------------- MODULE AnalysisRecord ----------------------------
(***************************************************************************)
(* What an analysis promises to those who submit and read it, without      *)
(* queue, workers or streams: an identifier stands for one question, which *)
(* is answered at most once, with something that the analyzer finds in it; *)
(* the answer stands, the analysis is completed from then on, and an       *)
(* answer that asks for an alert comes with it.                            *)
(*                                                                         *)
(* Nothing is promised about an answer coming at all.                      *)
(***************************************************************************)
CONSTANTS
  Analyses,     \* identifiers
  Answers,      \* question -> the answers that it admits
  NoQuestion,
  NoAnswer

VARIABLES
  question,
  answer,
  completed,    \* the analyses that are said to be completed
  alerted       \* those that have an alert

rvars == <<question, answer, completed, alerted>>

Init ==
  /\ question = [a \in Analyses |-> NoQuestion]
  /\ answer = [a \in Analyses |-> NoAnswer]
  /\ completed = {}
  /\ alerted = {}

Ask(a) ==
  /\ question[a] = NoQuestion
  /\ \E q \in DOMAIN Answers : question' = [question EXCEPT ![a] = q]
  /\ UNCHANGED <<answer, completed, alerted>>

\* The question may be put and answered at once.
Answer(a) ==
  /\ a \notin completed
  /\ \E q \in DOMAIN Answers : \E f \in Answers[q] :
       /\ question[a] \in {NoQuestion, q}
       /\ question' = [question EXCEPT ![a] = q]
       /\ answer' = [answer EXCEPT ![a] = f]
       /\ alerted' = IF f.alert THEN alerted \cup {a} ELSE alerted
  /\ completed' = completed \cup {a}

\* Alerts are raised by others too, and never taken back.
Alert ==
  /\ alerted' \in SUBSET Analyses
  /\ alerted \subseteq alerted'
  /\ UNCHANGED <<question, answer, completed>>

Next == Alert \/ \E a \in Analyses : Ask(a) \/ Answer(a)

Spec == Init /\ [][Next]_rvars
==============================================================================
