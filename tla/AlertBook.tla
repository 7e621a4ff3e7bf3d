------------------------------- MODULE AlertBook -------------------------------
(***************************************************************************)
(* The alerts of an organization, one for a deduplication key, and the     *)
(* service that writes them: analysts raise and update them, the pipeline  *)
(* of the analyses raises them too, incidents escalate them.               *)
(***************************************************************************)
EXTENDS FiniteSets

CONSTANTS
  Keys,      \* deduplication keys; an alert is named by its key
  DeskWords  \* statuses that analysts write

ASSUME DeskAssumption ==
  DeskWords \subseteq {"open", "acknowledged", "false_positive", "escalated", "resolved"}

VARIABLE alert   \* the row of each key: its status, or "none"

AlertStatus == {"open", "acknowledged", "false_positive", "escalated", "resolved"}

Raised == {k \in Keys : alert[k] # "none"}

\* Raising an alert again finds the one that is still being looked at.
Deduplicated(k) == alert[k] \in {"open", "acknowledged"}

\* What create_alert is about to do, by what it reads: answer with the alert it
\* found, insert a row, or run into the unique key.
Raising(k) == IF Deduplicated(k) THEN "found" ELSE "insert"

\* At the commit, a row inserted under a key that is taken makes it fail.
Fits(k, how) == how = "insert" => alert[k] = "none"

AfterRaising(k, how, status) ==
  IF how = "insert" THEN [alert EXCEPT ![k] = status] ELSE alert

\* An analyst raises an alert under a key of choice, with a status of choice, or
\* updates the status of one: any to any other.
DeskWrites ==
  \E k \in Keys, s \in DeskWords :
    /\ alert[k] # s
    /\ alert' = [alert EXCEPT ![k] = s]

==============================================================================
