------------------------------ MODULE IncidentDesk ----------------------------
(***************************************************************************)
(* The incidents of an organization, the alerts linked to them, and the    *)
(* analysts who move incidents along a fixed map of stages.  A request     *)
(* reads committed rows, decides, and commits at its end; the UPDATE of an *)
(* incident names its identifier only, so it overwrites what was committed *)
(* since the stage was read.  What a request writes without having read is *)
(* one step.                                                               *)
(***************************************************************************)
EXTENDS AlertBook

CONSTANTS
  Incidents,   \* identifiers of incidents, each used once
  Foreign,     \* alerts of other organizations
  Requests     \* requests in flight together

ASSUME ForeignAssumption == Foreign \cap Keys = {}

VARIABLES
  incident,   \* rows of the incidents, with what their notes are about
  links,      \* rows that link an incident and an alert
  req,        \* what each request is doing
  touched,    \* history: alerts updated since they were last linked
  overrun     \* history: incidents moved from a stage they had left

vars == <<alert, incident, links, req, touched, overrun>>

-----------------------------------------------------------------------------
Stage == {"new", "triaged", "investigating", "containment", "mitigation",
          "resolved", "closed"}

\* Seeded fault: a resolved incident can be taken up again.
Reopening ==
  [new |-> {"triaged"}, triaged |-> {"investigating"},
   investigating |-> {"containment", "resolved"}, containment |-> {"mitigation"},
   mitigation |-> {"resolved"}, resolved |-> {"closed", "investigating"},
   closed |-> {}]

Transitions ==
  [new |-> {"triaged"}, triaged |-> {"investigating"},
   investigating |-> {"containment", "resolved"}, containment |-> {"mitigation"},
   mitigation |-> {"resolved"}, resolved |-> {"closed"}, closed |-> {}]

StagesRequiringNote == {"resolved", "closed"}

\* Of a note it is kept whether it justifies a stage that requires one.
Incident == [status : Stage, born : Stage,
             notes : SUBSET {"resolved", "closed", "remark"}]
NoIncident == [status |-> "none"]

Idle    == [at |-> "idle"]
Raise   == [at : {"raising"}, key : Keys, how : {"found", "insert"}, status : AlertStatus]
Link    == [at : {"linking"}, id : Incidents, key : Keys]
Move    == [at : {"moving"}, id : Incidents, seen : Stage, to : Stage, noted : BOOLEAN]

Init ==
  /\ alert = [k \in Keys |-> "none"]
  /\ incident = [i \in Incidents |-> NoIncident]
  /\ links = {}
  /\ req = [r \in Requests |-> Idle]
  /\ touched = {}
  /\ overrun = {}

Opened == {i \in Incidents : incident[i] # NoIncident}

\* The session of the request ends, by commit or by rollback.
Ends(r) == req' = [req EXCEPT ![r] = Idle]

-----------------------------------------------------------------------------
(* Alerts. *)

RaiseBegin(r) ==
  /\ req[r] = Idle
  /\ \E k \in Keys, s \in DeskWords :
       req' = [req EXCEPT ![r] =
                 [at |-> "raising", key |-> k, how |-> Raising(k), status |-> s]]
  /\ UNCHANGED <<alert, incident, links, touched, overrun>>

RaiseCommit(r) ==
  /\ req[r].at = "raising"
  /\ alert' = IF Fits(req[r].key, req[r].how)
                THEN AfterRaising(req[r].key, req[r].how, req[r].status) ELSE alert
  /\ Ends(r)
  /\ UNCHANGED <<incident, links, touched, overrun>>

\* Any status to any other.
UpdateAlert ==
  /\ \E k \in Raised, s \in DeskWords :
       /\ alert' = [alert EXCEPT ![k] = s]
       /\ touched' = touched \cup {k}
  /\ UNCHANGED <<incident, links, req, overrun>>

-----------------------------------------------------------------------------
(* Incidents. *)

\* Opened at any stage, with the alerts it is about: any that exist are linked, but
\* the update that escalates them finds those of the organization only.
CreateIncident ==
  \E i \in Incidents, s \in Stage, about \in SUBSET (Raised \cup Foreign) :
    /\ incident[i] = NoIncident
    /\ incident' = [incident EXCEPT ![i] = [status |-> s, born |-> s, notes |-> {}]]
    /\ links' = links \cup ({i} \X about)
    /\ alert' = [k \in Keys |-> IF k \in about THEN "escalated" ELSE alert[k]]
    /\ touched' = touched \ about
    /\ UNCHANGED <<req, overrun>>

\* A request for the stage that the incident is at changes nothing.
MoveBegin(r) ==
  /\ req[r] = Idle
  /\ \E i \in Opened :
       \E to \in Transitions[incident[i].status], noted \in BOOLEAN :
         /\ to \in StagesRequiringNote => noted
         /\ req' = [req EXCEPT ![r] =
              [at |-> "moving", id |-> i, seen |-> incident[i].status, to |-> to,
               noted |-> noted]]
  /\ UNCHANGED <<alert, incident, links, touched, overrun>>

NotesOf(r) ==
  IF req[r].noted
    THEN {IF req[r].to \in StagesRequiringNote THEN req[r].to ELSE "remark"}
    ELSE {}

Moved(x, r) ==
  [status |-> req[r].to, born |-> x.born, notes |-> x.notes \cup NotesOf(r)]

MoveCommit(r) ==
  /\ req[r].at = "moving"
  /\ LET i == req[r].id IN
     /\ incident' = [incident EXCEPT ![i] = Moved(@, r)]
     /\ overrun' = IF incident[i].status # req[r].seen THEN overrun \cup {i} ELSE overrun
  /\ Ends(r)
  /\ UNCHANGED <<alert, links, touched>>

AddNote ==
  /\ \E i \in Opened : incident' = [incident EXCEPT ![i].notes = @ \cup {"remark"}]
  /\ UNCHANGED <<alert, links, req, touched, overrun>>

\* An alert that is linked already is left as it is.
LinkBegin(r) ==
  /\ req[r] = Idle
  /\ \E i \in Opened, k \in Raised :
       /\ <<i, k>> \notin links
       /\ req' = [req EXCEPT ![r] = [at |-> "linking", id |-> i, key |-> k]]
  /\ UNCHANGED <<alert, incident, links, touched, overrun>>

\* Seeded fault: the alert keeps its status.
Unescalated(k) == alert

Escalated(k) == [alert EXCEPT ![k] = "escalated"]

\* The second of two requests that link the same pair runs into the unique
\* constraint.
LinkCommit(r) ==
  /\ req[r].at = "linking"
  /\ LET pair == <<req[r].id, req[r].key>> IN
     \/ /\ pair \notin links
        /\ links' = links \cup {pair}
        /\ alert' = Escalated(req[r].key)
        /\ touched' = touched \ {req[r].key}
     \/ /\ pair \in links
        /\ UNCHANGED <<links, alert, touched>>
  /\ Ends(r)
  /\ UNCHANGED <<incident, overrun>>

CutShort(r) ==
  /\ req[r] # Idle
  /\ Ends(r)
  /\ UNCHANGED <<alert, incident, links, touched, overrun>>

-----------------------------------------------------------------------------
Next ==
  \/ \E r \in Requests :
       \/ RaiseBegin(r) \/ RaiseCommit(r)
       \/ MoveBegin(r) \/ MoveCommit(r)
       \/ LinkBegin(r) \/ LinkCommit(r)
       \/ CutShort(r)
  \/ UpdateAlert
  \/ CreateIncident
  \/ AddNote

Spec == Init /\ [][Next]_vars

-----------------------------------------------------------------------------
(* Properties. *)

\* Every variable stays in its range.
TypeOK ==
  /\ alert \in [Keys -> AlertStatus \cup {"none"}]
  /\ incident \in [Incidents -> Incident \cup {NoIncident}]
  /\ links \subseteq Incidents \X (Keys \cup Foreign)
  /\ req \in [Requests -> {Idle} \cup Raise \cup Link \cup Move]
  /\ touched \subseteq Keys
  /\ overrun \subseteq Incidents

\* An alert that is linked to an incident of its organization is escalated, unless
\* an analyst has updated it since it was linked: no interleaving of links, new
\* incidents and alerts raised again leaves one that nobody sees (link_alert,
\* create_incident).  An alert of another organization is left out: an incident can
\* be opened about it, and it keeps its status.
LinkedEscalated ==
  \A p \in links :
    p[2] \notin Foreign =>
      alert[p[2]] # "none" /\ (alert[p[2]] = "escalated" \/ p[2] \in touched)

\* An incident is resolved or closed with a note that says why, unless it was
\* opened that way, whichever transitions overlapped (transition_status).
JustifiedClosure ==
  \A i \in Opened :
    incident[i].status \in {"resolved", "closed"} \ {incident[i].born} =>
      incident[i].status \in incident[i].notes

\* An incident that was closed stays closed, and one that was resolved stays so
\* until it is closed, unless a transition was committed that had been decided
\* from an earlier stage (INCIDENT_TRANSITIONS is checked against what was read).
SettledStays ==
  \A i \in Opened \ overrun :
    LET x == incident[i] IN
    /\ "closed" \in x.notes => x.status = "closed"
    /\ "resolved" \in x.notes => x.status \in {"resolved", "closed"}

==============================================================================
