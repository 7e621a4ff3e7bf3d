----------------------------- MODULE TenantProofs -----------------------------
(***************************************************************************)
(* What the analysts of an organization work with.                         *)
(*                                                                         *)
(* The properties of IncidentDesk for any incidents, alerts, requests and  *)
(* statuses that analysts write.  What a transition in flight has read and *)
(* checked (MovesChecked) is still true of the request when it commits,    *)
(* though it may no longer be true of the incident.                        *)
(*                                                                         *)
(* The safety properties of AnalysisQueue for any contents, submissions,   *)
(* workers and streams: what a pipeline in flight has found is still there *)
(* when it commits, whoever commits in between, and at most one of them is *)
(* about to answer an analysis.  It implements AnalysisRecord.             *)
(*                                                                         *)
(* The properties of TenantAccounts for any accounts, forms and tokens,    *)
(* and any number of overlapping requests.                                 *)
(***************************************************************************)
EXTENDS IncidentDesk, AnalysisQueue, TenantAccounts, FiniteSetTheorems, TLAPS

-----------------------------------------------------------------------------
(* The incident desk: the inductive invariant. *)

Doing == {Idle} \cup Raise \cup Link \cup Move

\* A transition in flight is one of the map, for an incident that exists, with a
\* note if its stage requires one.
MovesChecked ==
  \A r \in Requests :
    req[r].at = "moving" =>
      /\ incident[req[r].id] # NoIncident
      /\ req[r].to \in Transitions[req[r].seen]
      /\ req[r].to \in StagesRequiringNote => req[r].noted

IInv ==
  /\ TypeOK
  /\ MovesChecked
  /\ LinkedEscalated
  /\ JustifiedClosure
  /\ SettledStays

-----------------------------------------------------------------------------
(* What the parts of a record are. *)

LEMMA RequestKinds ==
  ASSUME TypeOK, NEW r \in Requests
  PROVE  /\ req[r].at = "raising" => req[r] \in Raise
         /\ req[r].at = "linking" => req[r] \in Link
         /\ req[r].at = "moving" => req[r] \in Move
BY DEF TypeOK, Idle, Raise, Link, Move

LEMMA OpenedAreIncidents ==
  ASSUME TypeOK, NEW i \in Incidents, incident[i] # NoIncident
  PROVE  incident[i] \in Incident
BY DEF TypeOK

LEMMA IncidentsAreOpened ==
  ASSUME NEW x \in Incident
  PROVE  x # NoIncident
BY DEF Incident, NoIncident, Stage

\* The words that analysts write are statuses.
LEMMA DeskWordsAreStatuses == DeskWords \subseteq AlertStatus /\ "none" \notin AlertStatus
BY DeskAssumption DEF AlertStatus

LEMMA NotesInRange ==
  ASSUME TypeOK, NEW r \in Requests, req[r].at = "moving"
  PROVE  NotesOf(r) \subseteq {"resolved", "closed", "remark"}
BY DEF NotesOf, StagesRequiringNote

LEMMA MovedIsIncident ==
  ASSUME TypeOK, NEW r \in Requests, req[r].at = "moving", NEW x \in Incident
  PROVE  Moved(x, r) \in Incident
<1>1. req[r].to \in Stage
  BY RequestKinds DEF Move
<1>2. x.born \in Stage /\ x.notes \cup NotesOf(r) \subseteq {"resolved", "closed", "remark"}
  BY NotesInRange DEF Incident
<1> QED
  BY <1>1, <1>2 DEF Moved, Incident

-----------------------------------------------------------------------------
(* Types. *)

LEMMA TypeStep == TypeOK /\ MovesChecked /\ [Next]_vars => TypeOK'
<1> SUFFICES ASSUME TypeOK, MovesChecked, [Next]_vars PROVE TypeOK'
  OBVIOUS
<1> USE DeskWordsAreStatuses
<1>1. ASSUME NEW r \in Requests, RaiseBegin(r) PROVE TypeOK'
  <2>1. req' \in [Requests -> Doing]
    BY <1>1 DEF TypeOK, RaiseBegin, Raising, Raise, Doing
  <2> QED
    BY <1>1, <2>1 DEF TypeOK, RaiseBegin, Doing
<1>2. ASSUME NEW r \in Requests, RaiseCommit(r) PROVE TypeOK'
  <2>1. req[r] \in Raise
    BY <1>2, RequestKinds DEF RaiseCommit
  <2>2. alert' \in [Keys -> AlertStatus \cup {"none"}]
    BY <1>2, <2>1 DEF TypeOK, RaiseCommit, AfterRaising, Raise
  <2> QED
    BY <1>2, <2>2 DEF TypeOK, RaiseCommit, Ends
<1>3. CASE UpdateAlert
  BY <1>3 DEF TypeOK, UpdateAlert, Raised
<1>4. CASE CreateIncident
  <2>1. PICK i \in Incidents, s \in Stage, about \in SUBSET (Raised \cup Foreign) :
          /\ incident' = [incident EXCEPT ![i] = [status |-> s, born |-> s, notes |-> {}]]
          /\ links' = links \cup ({i} \X about)
          /\ alert' = [k \in Keys |-> IF k \in about THEN "escalated" ELSE alert[k]]
          /\ touched' = touched \ about
          /\ UNCHANGED <<req, overrun>>
    BY <1>4 DEF CreateIncident
  <2>2. [status |-> s, born |-> s, notes |-> {}] \in Incident
    BY DEF Incident
  <2>3. incident' \in [Incidents -> Incident \cup {NoIncident}]
    BY <2>1, <2>2 DEF TypeOK
  <2>4. alert' \in [Keys -> AlertStatus \cup {"none"}]
    BY <2>1 DEF TypeOK, AlertStatus
  <2>5. links' \subseteq Incidents \X (Keys \cup Foreign)
    BY <2>1 DEF TypeOK, Raised
  <2> QED
    BY <2>1, <2>3, <2>4, <2>5 DEF TypeOK
<1>5. ASSUME NEW r \in Requests, MoveBegin(r) PROVE TypeOK'
  <2>1. PICK i \in Opened, to \in Stage, noted \in BOOLEAN :
          req' = [req EXCEPT ![r] =
            [at |-> "moving", id |-> i, seen |-> incident[i].status, to |-> to,
             noted |-> noted]]
    <3>1. PICK i \in Opened : \E to \in Transitions[incident[i].status], noted \in BOOLEAN :
            req' = [req EXCEPT ![r] =
              [at |-> "moving", id |-> i, seen |-> incident[i].status, to |-> to,
               noted |-> noted]]
      BY <1>5 DEF MoveBegin
    <3>2. incident[i].status \in Stage
      BY OpenedAreIncidents DEF Opened, Incident
    <3>3. Transitions[incident[i].status] \subseteq Stage
      BY <3>2 DEF Transitions, Stage
    <3> QED
      BY <3>1, <3>3
  <2>2. i \in Incidents /\ incident[i].status \in Stage
    BY OpenedAreIncidents DEF Opened, Incident
  <2>3. [at |-> "moving", id |-> i, seen |-> incident[i].status, to |-> to,
         noted |-> noted] \in Move
    BY <2>2 DEF Move
  <2> QED
    BY <1>5, <2>1, <2>3 DEF TypeOK, MoveBegin
<1>6. ASSUME NEW r \in Requests, MoveCommit(r) PROVE TypeOK'
  <2>1. req[r] \in Move
    BY <1>6, RequestKinds DEF MoveCommit
  <2>2. req[r].id \in Incidents
    BY <2>1 DEF Move
  <2>3. incident[req[r].id] \in Incident
    BY <1>6, <2>2, OpenedAreIncidents DEF MovesChecked, MoveCommit
  <2>4. Moved(incident[req[r].id], r) \in Incident
    BY <1>6, <2>3, MovedIsIncident DEF MoveCommit
  <2>5. incident' \in [Incidents -> Incident \cup {NoIncident}]
    BY <1>6, <2>4 DEF TypeOK, MoveCommit
  <2>6. overrun' \subseteq Incidents
    BY <1>6, <2>2 DEF TypeOK, MoveCommit
  <2> QED
    BY <1>6, <2>5, <2>6 DEF TypeOK, MoveCommit, Ends
<1>7. CASE AddNote
  <2>1. PICK i \in Opened : incident' = [incident EXCEPT ![i].notes = @ \cup {"remark"}]
    BY <1>7 DEF AddNote
  <2>2. incident[i] \in Incident
    BY OpenedAreIncidents DEF Opened
  <2>3. [incident[i] EXCEPT !.notes = @ \cup {"remark"}] \in Incident
    BY <2>2 DEF Incident
  <2>4. incident' \in [Incidents -> Incident \cup {NoIncident}]
    BY <2>1, <2>3 DEF TypeOK, Opened
  <2> QED
    BY <1>7, <2>4 DEF TypeOK, AddNote
<1>8. ASSUME NEW r \in Requests, LinkBegin(r) PROVE TypeOK'
  BY <1>8 DEF TypeOK, LinkBegin, Link, Opened, Raised
<1>9. ASSUME NEW r \in Requests, LinkCommit(r) PROVE TypeOK'
  <2>1. req[r].id \in Incidents /\ req[r].key \in Keys
    BY <1>9, RequestKinds DEF LinkCommit, Link
  <2> QED
    BY <1>9, <2>1 DEF TypeOK, LinkCommit, Escalated, Ends, AlertStatus
<1>10. ASSUME NEW r \in Requests, CutShort(r) PROVE TypeOK'
  BY <1>10 DEF TypeOK, CutShort, Ends
<1>11. CASE UNCHANGED vars
  BY <1>11 DEF TypeOK, vars
<1> QED
  BY <1>1, <1>2, <1>3, <1>4, <1>5, <1>6, <1>7, <1>8, <1>9, <1>10, <1>11 DEF Next
-----------------------------------------------------------------------------
(* The map of stages. *)

LEMMA StagesAfter ==
  ASSUME NEW s \in Stage, NEW to \in Transitions[s]
  PROVE  /\ s # "closed"
         /\ s = "resolved" => to = "closed"
BY DEF Transitions, Stage

-----------------------------------------------------------------------------
(* What each step does to the rows of the incidents. *)

\* A row that is there stays, with its origin and its notes.
Kept ==
  \A i \in Incidents :
    incident[i] # NoIncident =>
      /\ incident'[i] # NoIncident
      /\ incident'[i].born = incident[i].born
      /\ incident[i].notes \subseteq incident'[i].notes

\* Only a transition changes the stage of an incident that is there, to one that
\* was checked, with the note that it requires; if the incident has left the
\* stage that was read, it is overrun.
StagesMove ==
  \A i \in Incidents :
    incident[i] # NoIncident =>
      \/ /\ incident'[i].status = incident[i].status
         /\ incident'[i].notes \subseteq incident[i].notes \cup {"remark"}
      \/ \E r \in Requests :
           /\ req[r].at = "moving" /\ req[r].id = i
           /\ incident'[i] = Moved(incident[i], r)
           /\ incident[i].status # req[r].seen => i \in overrun'

\* An incident appears as it was opened, without notes.
Appear ==
  \A i \in Incidents :
    incident[i] = NoIncident /\ incident'[i] # NoIncident =>
      incident'[i].status = incident'[i].born /\ incident'[i].notes = {}

LEMMA RowsStep ==
  TypeOK /\ MovesChecked /\ [Next]_vars =>
    Kept /\ StagesMove /\ Appear /\ overrun \subseteq overrun'
<1> SUFFICES ASSUME TypeOK, MovesChecked, [Next]_vars
             PROVE  Kept /\ StagesMove /\ Appear /\ overrun \subseteq overrun'
  OBVIOUS
<1>1. CASE UNCHANGED <<incident, overrun>>
  BY <1>1 DEF Kept, StagesMove, Appear
<1>2. CASE CreateIncident
  <2>1. PICK i \in Incidents, s \in Stage :
          /\ incident[i] = NoIncident
          /\ incident' = [incident EXCEPT ![i] = [status |-> s, born |-> s, notes |-> {}]]
          /\ UNCHANGED overrun
    BY <1>2 DEF CreateIncident
  <2>2. \A j \in Incidents : j # i => incident'[j] = incident[j]
    BY <2>1 DEF TypeOK
  <2>3. incident'[i] = [status |-> s, born |-> s, notes |-> {}]
    BY <2>1 DEF TypeOK
  <2> QED
    BY <2>1, <2>2, <2>3 DEF Kept, StagesMove, Appear
<1>3. ASSUME NEW r \in Requests, MoveCommit(r)
      PROVE  Kept /\ StagesMove /\ Appear /\ overrun \subseteq overrun'
  <2> DEFINE i == req[r].id
  <2>1. req[r].at = "moving" /\ i \in Incidents /\ incident[i] # NoIncident
    BY <1>3, RequestKinds DEF MoveCommit, MovesChecked, Move
  <2>2. Moved(incident[i], r) # NoIncident
    BY <2>1, OpenedAreIncidents, MovedIsIncident, IncidentsAreOpened
  <2>3. \A j \in Incidents : j # i => incident'[j] = incident[j]
    BY <1>3 DEF MoveCommit, TypeOK
  <2>4. incident'[i] = Moved(incident[i], r)
    BY <1>3, <2>1 DEF MoveCommit, TypeOK
  <2>5. incident[i].status # req[r].seen => i \in overrun'
    BY <1>3 DEF MoveCommit
  <2>6. overrun \subseteq overrun'
    BY <1>3 DEF MoveCommit
  <2> HIDE DEF i
  <2>7. Kept
    BY <2>2, <2>3, <2>4 DEF Kept, Moved
  <2>8. i = req[r].id
    BY DEF i
  <2>9. StagesMove
    BY <2>1, <2>3, <2>4, <2>5, <2>8 DEF StagesMove
  <2>10. Appear
    BY <2>1, <2>3 DEF Appear
  <2> QED
    BY <2>6, <2>7, <2>9, <2>10
<1>4. CASE AddNote
  <2>1. PICK i \in Opened : incident' = [incident EXCEPT ![i].notes = @ \cup {"remark"}]
    BY <1>4 DEF AddNote
  <2>2. i \in Incidents /\ incident[i] \in Incident
    BY OpenedAreIncidents DEF Opened
  <2> DEFINE x == [incident[i] EXCEPT !.notes = @ \cup {"remark"}]
  <2>3. x \in Incident
    BY <2>2 DEF Incident
  <2>4. /\ x.status = incident[i].status /\ x.born = incident[i].born
        /\ x.notes = incident[i].notes \cup {"remark"}
    BY <2>2 DEF Incident
  <2>5. incident'[i] = x /\ \A j \in Incidents : j # i => incident'[j] = incident[j]
    BY <2>1, <2>2 DEF TypeOK
  <2>6. x # NoIncident /\ incident[i] # NoIncident
    BY <2>2, <2>3, IncidentsAreOpened
  <2>7. overrun' = overrun
    BY <1>4 DEF AddNote
  <2> HIDE DEF x
  <2> QED
    BY <2>4, <2>5, <2>6, <2>7 DEF Kept, StagesMove, Appear
<1>5. ASSUME NEW r \in Requests,
             \/ RaiseBegin(r) \/ RaiseCommit(r) \/ MoveBegin(r)
             \/ LinkBegin(r) \/ LinkCommit(r) \/ CutShort(r)
      PROVE  UNCHANGED <<incident, overrun>>
  BY <1>5 DEF RaiseBegin, RaiseCommit, MoveBegin, LinkBegin, LinkCommit, CutShort
<1>6. UpdateAlert => UNCHANGED <<incident, overrun>>
  BY DEF UpdateAlert
<1>7. UNCHANGED vars => UNCHANGED <<incident, overrun>>
  BY DEF vars
<1> QED
  BY <1>1, <1>2, <1>3, <1>4, <1>5, <1>6, <1>7 DEF Next

-----------------------------------------------------------------------------
(* The invariants, one by one. *)

LEMMA ChecksStep == TypeOK /\ MovesChecked /\ [Next]_vars => MovesChecked'
<1> SUFFICES ASSUME TypeOK, MovesChecked, [Next]_vars,
                    NEW r \in Requests, req'[r].at = "moving"
             PROVE  /\ incident'[req'[r].id] # NoIncident
                    /\ req'[r].to \in Transitions[req'[r].seen]
                    /\ req'[r].to \in StagesRequiringNote => req'[r].noted
  BY DEF MovesChecked
<1>1. Kept
  BY RowsStep
<1>2. CASE req'[r] = req[r]
  <2>1. req[r].id \in Incidents
    BY <1>2, RequestKinds DEF Move
  <2> QED
    BY <1>1, <1>2, <2>1 DEF MovesChecked, Kept
<1>3. CASE MoveBegin(r)
  <2>1. PICK i \in Opened : \E to \in Transitions[incident[i].status], noted \in BOOLEAN :
          /\ to \in StagesRequiringNote => noted
          /\ req' = [req EXCEPT ![r] =
               [at |-> "moving", id |-> i, seen |-> incident[i].status, to |-> to,
                noted |-> noted]]
    BY <1>3 DEF MoveBegin
  <2>2. incident' = incident
    BY <1>3 DEF MoveBegin
  <2> QED
    BY <2>1, <2>2 DEF TypeOK, Opened
<1>4. req'[r] = req[r] \/ MoveBegin(r)
  <2>1. ASSUME NEW q \in Requests,
               \/ RaiseBegin(q) \/ RaiseCommit(q) \/ MoveCommit(q)
               \/ LinkBegin(q) \/ LinkCommit(q) \/ CutShort(q)
        PROVE  req'[r] = req[r]
    <3>1. Ends(q) => req'[r] = req[r]
      BY DEF TypeOK, Ends, Idle
    <3>2. RaiseBegin(q) => req'[r] = req[r]
      BY DEF TypeOK, RaiseBegin
    <3>3. LinkBegin(q) => req'[r] = req[r]
      BY DEF TypeOK, LinkBegin
    <3> QED
      BY <2>1, <3>1, <3>2, <3>3 DEF RaiseCommit, MoveCommit, LinkCommit, CutShort
  <2>2. ASSUME NEW q \in Requests, MoveBegin(q), q # r PROVE req'[r] = req[r]
    BY <2>2 DEF TypeOK, MoveBegin
  <2>3. UpdateAlert \/ CreateIncident \/ AddNote \/ UNCHANGED vars => req' = req
    BY DEF UpdateAlert, CreateIncident, AddNote, vars
  <2> QED
    BY <2>1, <2>2, <2>3 DEF Next
<1> QED
  BY <1>2, <1>3, <1>4

LEMMA ClosureStep ==
  TypeOK /\ MovesChecked /\ JustifiedClosure /\ [Next]_vars => JustifiedClosure'
<1> SUFFICES ASSUME TypeOK, MovesChecked, JustifiedClosure, [Next]_vars,
                    NEW i \in Incidents, incident'[i] # NoIncident,
                    incident'[i].status \in {"resolved", "closed"},
                    incident'[i].status # incident'[i].born
             PROVE  incident'[i].status \in incident'[i].notes
  BY DEF JustifiedClosure, Opened
<1>1. Kept /\ StagesMove /\ Appear
  BY RowsStep
<1>2. incident[i] # NoIncident
  BY <1>1 DEF Appear
<1>3. CASE incident'[i].status = incident[i].status
  BY <1>1, <1>2, <1>3 DEF Kept, JustifiedClosure, Opened
<1>4. ASSUME NEW r \in Requests, req[r].at = "moving", req[r].id = i,
             incident'[i] = Moved(incident[i], r)
      PROVE  incident'[i].status \in incident'[i].notes
  BY <1>4 DEF Moved, NotesOf, MovesChecked, StagesRequiringNote
<1> QED
  BY <1>1, <1>2, <1>3, <1>4 DEF StagesMove

LEMMA SettledStep ==
  TypeOK /\ MovesChecked /\ SettledStays /\ [Next]_vars => SettledStays'
<1> SUFFICES ASSUME TypeOK, MovesChecked, SettledStays, [Next]_vars,
                    NEW i \in Incidents, incident'[i] # NoIncident, i \notin overrun'
             PROVE  /\ "closed" \in incident'[i].notes => incident'[i].status = "closed"
                    /\ "resolved" \in incident'[i].notes =>
                         incident'[i].status \in {"resolved", "closed"}
  BY DEF SettledStays, Opened
<1>1. StagesMove /\ Appear /\ i \notin overrun
  BY RowsStep
<1>2. CASE incident[i] = NoIncident
  BY <1>1, <1>2 DEF Appear
<1>3. ASSUME incident[i] # NoIncident
      PROVE  /\ "closed" \in incident[i].notes => incident[i].status = "closed"
             /\ "resolved" \in incident[i].notes =>
                  incident[i].status \in {"resolved", "closed"}
  BY <1>1, <1>3 DEF SettledStays, Opened
<1>4. CASE /\ incident[i] # NoIncident
           /\ incident'[i].status = incident[i].status
           /\ incident'[i].notes \subseteq incident[i].notes \cup {"remark"}
  BY <1>3, <1>4
<1>5. ASSUME incident[i] # NoIncident, NEW r \in Requests,
             req[r].at = "moving", req[r].id = i,
             incident'[i] = Moved(incident[i], r), incident[i].status = req[r].seen
      PROVE  /\ "closed" \in incident'[i].notes => incident'[i].status = "closed"
             /\ "resolved" \in incident'[i].notes =>
                  incident'[i].status \in {"resolved", "closed"}
  <2>1. req[r].to \in Transitions[incident[i].status] /\ incident[i].status \in Stage
    BY <1>5, OpenedAreIncidents DEF MovesChecked, Incident
  <2>2. /\ incident[i].status # "closed"
        /\ incident[i].status = "resolved" => req[r].to = "closed"
    BY <2>1, StagesAfter
  <2>3. /\ incident'[i].status = req[r].to
        /\ incident'[i].notes = incident[i].notes \cup NotesOf(r)
    BY <1>5 DEF Moved
  <2>4. NotesOf(r) \subseteq {req[r].to, "remark"}
    BY DEF NotesOf
  <2> QED
    BY <1>3, <1>5, <2>2, <2>3, <2>4
<1> QED
  BY <1>1, <1>2, <1>4, <1>5 DEF StagesMove

LEMMA LinksStep == TypeOK /\ LinkedEscalated /\ [Next]_vars => LinkedEscalated'
<1> SUFFICES ASSUME TypeOK, LinkedEscalated, [Next]_vars, NEW p \in links', p[2] \notin Foreign
             PROVE  /\ alert'[p[2]] # "none"
                    /\ alert'[p[2]] = "escalated" \/ p[2] \in touched'
  BY DEF LinkedEscalated
<1> DEFINE Fine == /\ alert'[p[2]] # "none"
                   /\ alert'[p[2]] = "escalated" \/ p[2] \in touched'
<1>1. ASSUME p \in links
      PROVE  /\ p[2] \in Keys /\ alert[p[2]] # "none"
             /\ alert[p[2]] = "escalated" \/ p[2] \in touched
  BY <1>1 DEF LinkedEscalated, TypeOK
<1>2. CASE UNCHANGED <<alert, links, touched>>
  BY <1>1, <1>2
<1>3. ASSUME NEW r \in Requests, RaiseCommit(r) PROVE Fine
  <2>1. p \in links /\ touched' = touched
    BY <1>3 DEF RaiseCommit
  <2>2. req[r].key \in Keys /\ req[r].how \in {"found", "insert"}
    BY <1>3, RequestKinds DEF RaiseCommit, Raise
  <2>3. alert'[p[2]] = alert[p[2]]
    BY <1>1, <1>3, <2>1, <2>2 DEF RaiseCommit, AfterRaising, Fits, TypeOK
  <2> QED
    BY <1>1, <2>1, <2>3
<1>4. CASE UpdateAlert
  <2>1. PICK k \in Raised, s \in DeskWords :
          alert' = [alert EXCEPT ![k] = s] /\ touched' = touched \cup {k}
    BY <1>4 DEF UpdateAlert
  <2>2. p \in links /\ s # "none"
    BY <1>4, DeskWordsAreStatuses DEF UpdateAlert
  <2> QED
    BY <1>1, <2>1, <2>2 DEF TypeOK
<1>5. CASE CreateIncident
  <2>1. PICK i \in Incidents, about \in SUBSET (Raised \cup Foreign) :
          /\ links' = links \cup ({i} \X about)
          /\ alert' = [k \in Keys |-> IF k \in about THEN "escalated" ELSE alert[k]]
          /\ touched' = touched \ about
    BY <1>5 DEF CreateIncident
  <2>2. CASE p \in links
    BY <1>1, <2>1, <2>2
  <2>3. CASE p \in {i} \X about
    BY <2>1, <2>3 DEF Raised
  <2> QED
    BY <2>1, <2>2, <2>3
<1>6. ASSUME NEW r \in Requests, LinkCommit(r) PROVE Fine
  <2>1. req[r].key \in Keys
    BY <1>6, RequestKinds DEF LinkCommit, Link
  <2>2. CASE UNCHANGED <<alert, links, touched>>
    BY <1>1, <2>2
  <2>3. CASE /\ links' = links \cup {<<req[r].id, req[r].key>>}
             /\ alert' = Escalated(req[r].key)
             /\ touched' = touched \ {req[r].key}
    BY <1>1, <2>1, <2>3 DEF Escalated, TypeOK
  <2> QED
    BY <1>6, <2>2, <2>3 DEF LinkCommit
<1>7. ASSUME NEW r \in Requests,
             \/ RaiseBegin(r) \/ MoveBegin(r) \/ MoveCommit(r)
             \/ LinkBegin(r) \/ CutShort(r)
      PROVE  UNCHANGED <<alert, links, touched>>
  BY <1>7 DEF RaiseBegin, MoveBegin, MoveCommit, LinkBegin, CutShort
<1>8. AddNote \/ UNCHANGED vars => UNCHANGED <<alert, links, touched>>
  BY DEF AddNote, vars
<1> QED
  BY <1>2, <1>3, <1>4, <1>5, <1>6, <1>7, <1>8 DEF Next

-----------------------------------------------------------------------------
LEMMA InitIInv == Init => IInv
BY DEF Init, IInv, TypeOK, MovesChecked, LinkedEscalated, JustifiedClosure,
       SettledStays, Opened, Idle, AlertStatus

LEMMA StepIInv == IInv /\ [Next]_vars => IInv'
BY TypeStep, ChecksStep, LinksStep, ClosureStep, SettledStep DEF IInv

\* The inductive invariant holds in every reachable state: overlapping requests
\* of incidents.py and alerts.py keep it.
THEOREM Invariance == Spec => []IInv
BY InitIInv, StepIInv, PTL DEF Spec

\* The desk is type correct.
THEOREM TypeCorrect == Spec => []TypeOK
<1>1. IInv => TypeOK
  BY DEF IInv
<1> QED
  BY <1>1, Invariance, PTL

\* However link_alert, create_incident, create_alert and update_alert interleave,
\* an alert that an incident of its organization is linked to is escalated or was
\* updated after it was linked.
THEOREM Escalation == Spec => []LinkedEscalated
<1>1. IInv => LinkedEscalated
  BY DEF IInv
<1> QED
  BY <1>1, Invariance, PTL

\* Whichever transitions overlap, an incident that was moved to resolved or closed
\* has the note that transition_status requires.
THEOREM Justified == Spec => []JustifiedClosure
<1>1. IInv => JustifiedClosure
  BY DEF IInv
<1> QED
  BY <1>1, Invariance, PTL

\* An incident that was resolved or closed leaves that stage only by a transition
\* that transition_status had checked against an earlier one.
THEOREM Settled == Spec => []SettledStays
<1>1. IInv => SettledStays
  BY DEF IInv
<1> QED
  BY <1>1, Invariance, PTL

-----------------------------------------------------------------------------
(* The queue of analyses: the inductive invariant. *)

\* What the analyzer may find: a malicious content asks for an alert.
Verdicts ==
  {f \in [verdict : {"malicious", "suspicious", "benign"},
          severity : {"critical", "high", "medium", "low", "info"}, alert : BOOLEAN] :
     f.verdict = "malicious" => f.alert}

\* What a pipeline is about to commit.
Outcomes ==
  {x \in [finding : Verdicts, how : {"found", "insert", "nothing"}] :
     x.finding.alert <=> x.how # "nothing"}

QueuedRow == {x \in Row : x.status = "queued"}

Submitting == [at : {"submitting"}, id : Analyses, row : QueuedRow]
Finishing  == [at : {"finishing"}, id : Analyses, row : QueuedRow, outcome : Outcomes]
Working    == [at : {"working"}, id : Analyses]
Worked     == [at : {"worked"}, id : Analyses, outcome : Outcomes]
Watching   == [at : {"looked", "heard", "subscribed", "polling", "gave up"},
               id : Analyses, late : BOOLEAN]

AnalysisTypeOK ==
  /\ row \in [Analyses -> Row \cup {NoRow}]
  /\ result \in [Analyses -> Verdicts \cup {NoFinding}]
  /\ alert \in [Keys -> AlertStatus \cup {"none"}]
  /\ queue \subseteq Analyses
  /\ submission \in [Submissions -> {AtRest} \cup Submitting \cup Finishing]
  /\ work \in [Workers -> {AtRest} \cup Working \cup Worked]
  /\ told \in [Analyses -> {"nothing", "completed", "failed"}]
  /\ watch \in [Watchers -> {Silent} \cup Watching]
  /\ lost \subseteq Analyses
  /\ twins \subseteq Contents

\* A submission in flight has an identifier of its own, whose row it will insert;
\* workers and streams have one whose row is there.
IdsApart ==
  /\ \A r \in Submissions : Submits(r) => row[submission[r].id] = NoRow
  /\ \A r, s \in Submissions :
       r # s /\ Submits(r) /\ Submits(s) => submission[r].id # submission[s].id
  /\ \A w \in Workers : work[w] # AtRest => row[work[w].id] # NoRow
  /\ \A v \in Watchers : watch[v] # Silent => row[watch[v].id] # NoRow

\* The alert that a pipeline has found is still there when it commits.
FoundAlertsStay ==
  /\ \A r \in Submissions :
       submission[r].at = "finishing" /\ submission[r].outcome.how = "found" =>
         alert[submission[r].id] # "none"
  /\ \A w \in Workers :
       work[w].at = "worked" /\ work[w].outcome.how = "found" =>
         alert[work[w].id] # "none"

\* At most one of queue, workers and the submission itself is about to complete an
\* analysis, which is not completed yet.
JobsOnce ==
  /\ \A a \in queue : row[a].status # "completed"
  /\ \A w \in Workers :
       work[w] # AtRest => work[w].id \notin queue /\ row[work[w].id].status # "completed"
  /\ \A w, u \in Workers :
       w # u /\ work[w] # AtRest /\ work[u] # AtRest => work[w].id # work[u].id
  /\ \A r \in Submissions :
       submission[r].at = "finishing" => submission[r].id \notin queue

\* What is about to be committed was found in the content of the analysis.
OutcomesFound ==
  /\ \A r \in Submissions :
       submission[r].at = "finishing" =>
         submission[r].outcome.finding
           = Found[submission[r].row.content.whole][submission[r].row.context]
  /\ \A w \in Workers :
       work[w].at = "worked" =>
         work[w].outcome.finding = Found[row[work[w].id].content.head][row[work[w].id].context]

\* A content in flight that has a row, or is in flight twice, was submitted twice at
\* the same time, or it cannot be found by its digest.
Excused(c) == c.digest = NoDigest \/ c \in twins

TwinsNoted ==
  /\ \A r \in Submissions, a \in Analyses :
       Submits(r) /\ row[a] # NoRow /\ row[a].content = submission[r].row.content =>
         Excused(row[a].content)
  /\ \A r, s \in Submissions :
       r # s /\ Submits(r) /\ Submits(s)
         /\ submission[r].row.content = submission[s].row.content =>
         submission[r].row.content \in twins

AnalysisInv ==
  /\ AnalysisTypeOK /\ IdsApart /\ FoundAlertsStay
  /\ JobsOnce /\ OutcomesFound
  /\ CompletedWhole
  /\ TwinsNoted /\ OneAnalysisPerContent
  /\ LastWordHeard

-----------------------------------------------------------------------------
(* The queue of analyses: what the pipeline makes of a content. *)

\* A content that is malicious always raises an alert, in any context: the rounding
\* of the score and the multipliers do not come between the two thresholds
\* (run_pipeline asks for an alert by score and severity, never by the verdict).
THEOREM MaliciousAlerts ==
  ASSUME NEW o, NEW c, Verdict(o, c) = "malicious"
  PROVE  Alerts(o, c)
BY DEF Verdict, Alerts, Severity

LEMMA FindingsAreVerdicts ==
  ASSUME NEW o, NEW c
  PROVE  Finding(o, c) \in Verdicts
<1>1. Alerts(o, c) \in BOOLEAN
  BY DEF Alerts
<1>2. /\ Verdict(o, c) \in {"malicious", "suspicious", "benign"}
      /\ Severity(o, c) \in {"critical", "high", "medium", "low", "info"}
  BY DEF Verdict, Severity
<1> QED
  BY <1>1, <1>2, MaliciousAlerts DEF Finding, Verdicts

LEMMA OutcomeTypes ==
  ASSUME NEW a, NEW o \in Observed, NEW c \in Contexts
  PROVE  /\ OutcomeOf(a, o, c) \in Outcomes
         /\ OutcomeOf(a, o, c).how = "found" => alert[a] # "none"
<1>1. Found[o][c] \in Verdicts
  <2>1. Found[o][c] = Finding(o, c)
    BY DEF Found
  <2> QED
    BY <2>1, FindingsAreVerdicts
<1>2. ASSUME NEW f \in Verdicts, NEW how \in {"found", "insert", "nothing"},
             f.alert <=> how # "nothing"
      PROVE  [finding |-> f, how |-> how] \in Outcomes
  BY <1>2 DEF Outcomes
<1>3. Raising(a) \in {"found", "insert"} /\ (Raising(a) = "found" => alert[a] # "none")
  BY DEF Raising, Deduplicated
<1>4. (IF Found[o][c].alert THEN Raising(a) ELSE "nothing") \in {"found", "insert", "nothing"}
  BY <1>3
<1>5. Found[o][c].alert <=> (IF Found[o][c].alert THEN Raising(a) ELSE "nothing") # "nothing"
  BY <1>3
<1> QED
  BY <1>1, <1>2, <1>3, <1>4, <1>5 DEF OutcomeOf

LEMMA SubmissionKinds ==
  ASSUME AnalysisTypeOK, NEW r \in Submissions
  PROVE  /\ Submits(r) => submission[r] # AtRest /\ submission[r].id \in Analyses
                          /\ submission[r].row \in QueuedRow
         /\ submission[r].at = "submitting" => submission[r] \in Submitting
         /\ submission[r].at = "finishing" => submission[r] \in Finishing
BY DEF AnalysisTypeOK, Submits, AtRest, Submitting, Finishing

LEMMA WorkKinds ==
  ASSUME AnalysisTypeOK, NEW w \in Workers
  PROVE  /\ work[w] # AtRest => work[w].id \in Analyses
         /\ work[w].at = "working" => work[w] \in Working /\ work[w] # AtRest
         /\ work[w].at = "worked" => work[w] \in Worked /\ work[w] # AtRest
BY DEF AnalysisTypeOK, AtRest, Working, Worked

LEMMA WatchKinds ==
  ASSUME AnalysisTypeOK, NEW v \in Watchers
  PROVE  /\ watch[v] # Silent => watch[v] \in Watching
         /\ watch[v].at # "silent" => watch[v] # Silent
BY DEF AnalysisTypeOK, Silent

LEMMA RowKinds ==
  ASSUME AnalysisTypeOK, NEW a \in Analyses
  PROVE  /\ row[a] # NoRow => row[a] \in Row
         /\ row[a].status = "completed" => row[a] # NoRow
BY DEF AnalysisTypeOK, NoRow

LEMMA RowsAreNotNone == \A x \in Row : x # NoRow
BY DEF Row, NoRow

LEMMA VerdictsAreNotNone == \A f \in Verdicts : f # NoFinding
BY DEF Verdicts, NoFinding

\* A row once completed keeps its content and context.
LEMMA CompletedRow ==
  ASSUME NEW x \in Row
  PROVE  LET y == [x EXCEPT !.status = "completed"] IN
         /\ y \in Row /\ y.status = "completed"
         /\ y.content = x.content /\ y.context = x.context
         /\ x.status = "completed" \/ x \in QueuedRow
BY DEF Row, QueuedRow

\* What is left of a content, and the whole of it, is something that the analyzer
\* has been asked about.
LEMMA ContentsObserved ==
  ASSUME NEW x \in Row
  PROVE  x.content.whole \in Observed /\ x.content.head \in Observed /\ x.context \in Contexts
BY DEF Row, Observed

LEMMA CommitTypes ==
  ASSUME AnalysisTypeOK, NEW a \in Analyses, NEW x \in Outcomes, Commits(a, x)
  PROVE  /\ result' \in [Analyses -> Verdicts \cup {NoFinding}]
         /\ alert' \in [Keys -> AlertStatus \cup {"none"}]
<1>1. x.finding \in Verdicts
  BY DEF Outcomes
<1>2. "open" \in AlertStatus
  BY DEF AlertStatus
<1> QED
  BY <1>1, <1>2 DEF Commits, AfterRaising, AnalysisTypeOK

LEMMA PublishTypes ==
  ASSUME AnalysisTypeOK, NEW a \in Analyses, NEW word \in {"completed", "failed"},
         Publish(a, word)
  PROVE  /\ told' \in [Analyses -> {"nothing", "completed", "failed"}]
         /\ watch' \in [Watchers -> {Silent} \cup Watching]
<1>1. told' \in [Analyses -> {"nothing", "completed", "failed"}]
  BY DEF Publish, AnalysisTypeOK
<1>2. ASSUME NEW v \in Watchers PROVE watch'[v] \in {Silent} \cup Watching
  <2>1. ASSUME NEW x \in Watching PROVE [x EXCEPT !.at = "heard"] \in Watching
    BY DEF Watching
  <2> QED
    BY <2>1, WatchKinds DEF Publish, AnalysisTypeOK
<1> QED
  BY <1>1, <1>2 DEF Publish

-----------------------------------------------------------------------------
(* The queue of analyses: types. *)

LEMMA AnalysisTypeStep ==
  AnalysisTypeOK /\ IdsApart /\ [AnalysisNext]_analysisVars => AnalysisTypeOK'
<1> SUFFICES ASSUME AnalysisTypeOK, IdsApart, [AnalysisNext]_analysisVars
             PROVE  AnalysisTypeOK'
  OBVIOUS
<1> USE DEF AnalysisTypeOK
<1>1. ASSUME NEW r \in Submissions, SubmitBegin(r) PROVE AnalysisTypeOK'
  <2>1. PICK a \in Analyses, new \in QueuedRow :
          /\ twins' \in {twins, twins \cup {new.content}}
          /\ \/ /\ queue' = queue \cup {a}
                /\ submission' = [submission EXCEPT ![r] =
                                    [at |-> "submitting", id |-> a, row |-> new]]
                /\ told' = told
             \/ /\ queue' = queue
                /\ submission' = [submission EXCEPT ![r] =
                     [at |-> "finishing", id |-> a, row |-> new,
                      outcome |-> OutcomeOf(a, new.content.whole, new.context)]]
                /\ told' = [told EXCEPT ![a] = "completed"]
    BY <1>1 DEF SubmitBegin, QueuedRow
  <2>2. new \in Row /\ new.content \in Contents
    BY DEF QueuedRow, Row
  <2>3. OutcomeOf(a, new.content.whole, new.context) \in Outcomes
    BY <2>2, ContentsObserved, OutcomeTypes
  <2>4. ASSUME NEW x \in Outcomes
        PROVE  [at |-> "finishing", id |-> a, row |-> new, outcome |-> x] \in Finishing
    BY DEF Finishing
  <2>5. [at |-> "submitting", id |-> a, row |-> new] \in Submitting
    BY DEF Submitting
  <2>6. submission' \in [Submissions -> {AtRest} \cup Submitting \cup Finishing]
    BY <2>1, <2>3, <2>4, <2>5
  <2>7. twins' \subseteq Contents
    BY <2>1, <2>2
  <2>8. queue' \subseteq Analyses /\ told' \in [Analyses -> {"nothing", "completed", "failed"}]
    BY <2>1
  <2> QED
    BY <2>6, <2>7, <2>8, <1>1 DEF SubmitBegin, db
<1>2. ASSUME NEW r \in Submissions, SubmitCommit(r) PROVE AnalysisTypeOK'
  BY <1>2, SubmissionKinds DEF SubmitCommit, Submits, QueuedRow
<1>3. ASSUME NEW r \in Submissions, SubmitFinished(r) PROVE AnalysisTypeOK'
  <2>1. submission[r] \in Finishing
    BY <1>3, SubmissionKinds DEF SubmitFinished
  <2>2. /\ submission[r].id \in Analyses /\ submission[r].outcome \in Outcomes
        /\ submission[r].row \in Row
    BY <2>1 DEF Finishing, QueuedRow
  <2>3. [submission[r].row EXCEPT !.status = "completed"] \in Row
    BY <2>2, CompletedRow
  <2>4. CASE Commits(submission[r].id, submission[r].outcome)
    BY <1>3, <2>2, <2>3, <2>4, CommitTypes DEF SubmitFinished, db
  <2>5. CASE UNCHANGED db
    BY <1>3, <2>2, <2>3, <2>5 DEF SubmitFinished, db
  <2> QED
    BY <2>4, <2>5, <1>3 DEF SubmitFinished
<1>4. ASSUME NEW r \in Submissions, SubmitCutShort(r) PROVE AnalysisTypeOK'
  BY <1>4, SubmissionKinds DEF SubmitCutShort, db
<1>5. ASSUME NEW w \in Workers, Take(w) PROVE AnalysisTypeOK'
  <2>1. PICK a \in queue :
          /\ queue' = queue \ {a}
          /\ \/ work' = work /\ lost' = lost \cup {a}
             \/ work' = [work EXCEPT ![w] = [at |-> "working", id |-> a]] /\ lost' = lost
    BY <1>5 DEF Take
  <2>2. [at |-> "working", id |-> a] \in Working
    BY DEF Working
  <2>3. work' \in [Workers -> {AtRest} \cup Working \cup Worked]
    BY <2>1, <2>2
  <2> QED
    BY <2>1, <2>3, <1>5 DEF Take, db
<1>6. ASSUME NEW w \in Workers, Analyse(w) PROVE AnalysisTypeOK'
  <2> DEFINE a == work[w].id
             x == OutcomeOf(a, row[a].content.head, row[a].context)
  <2>1. a \in Analyses /\ row[a] \in Row
    BY <1>6, WorkKinds, RowKinds DEF Analyse, IdsApart
  <2>2. x \in Outcomes
    BY <2>1, ContentsObserved, OutcomeTypes
  <2>3. ASSUME NEW y \in Outcomes PROVE [at |-> "worked", id |-> a, outcome |-> y] \in Worked
    BY <2>1 DEF Worked
  <2>4. [at |-> "worked", id |-> a, outcome |-> x] \in Worked
    BY <2>2, <2>3
  <2>5. \/ work' = [work EXCEPT ![w] = [at |-> "worked", id |-> a, outcome |-> x]]
           /\ Publish(a, "completed") /\ lost' = lost
        \/ work' = [work EXCEPT ![w] = AtRest] /\ Publish(a, "failed")
           /\ lost' = lost \cup {a}
    BY <1>6 DEF Analyse
  <2> HIDE DEF a, x
  <2>6. work' \in [Workers -> {AtRest} \cup Working \cup Worked] /\ lost' \subseteq Analyses
    BY <2>1, <2>4, <2>5
  <2>7. /\ told' \in [Analyses -> {"nothing", "completed", "failed"}]
        /\ watch' \in [Watchers -> {Silent} \cup Watching]
    BY <2>1, <2>5, PublishTypes
  <2> QED
    BY <2>6, <2>7, <1>6 DEF Analyse, db
<1>7. ASSUME NEW w \in Workers, Finish(w) PROVE AnalysisTypeOK'
  <2>1. work[w] \in Worked /\ row[work[w].id] \in Row
    BY <1>7, WorkKinds, RowKinds DEF Finish, IdsApart
  <2>2. work[w].id \in Analyses /\ work[w].outcome \in Outcomes
    BY <2>1 DEF Worked
  <2>3. [row[work[w].id] EXCEPT !.status = "completed"] \in Row
    BY <2>1, CompletedRow
  <2>4. CASE Commits(work[w].id, work[w].outcome)
    BY <1>7, <2>2, <2>3, <2>4, CommitTypes DEF Finish, db
  <2>5. CASE UNCHANGED db
    BY <1>7, <2>2, <2>3, <2>5 DEF Finish, db
  <2> QED
    BY <2>4, <2>5, <1>7 DEF Finish
<1>8. ASSUME NEW w \in Workers, Crash(w) PROVE AnalysisTypeOK'
  BY <1>8, WorkKinds DEF Crash, db
<1>9. ASSUME NEW v \in Watchers, Look(v) PROVE AnalysisTypeOK'
  <2>1. PICK a \in Analyses, at \in {"heard", "looked"} :
          watch' = [watch EXCEPT ![v] = [at |-> at, id |-> a, late |-> FALSE]]
    BY <1>9 DEF Look
  <2>2. [at |-> at, id |-> a, late |-> FALSE] \in Watching
    BY DEF Watching
  <2> QED
    BY <2>1, <2>2, <1>9 DEF Look, db
<1>10. ASSUME NEW v \in Watchers, Listen(v) \/ GiveUp(v) PROVE AnalysisTypeOK'
  <2>1. watch[v] \in Watching
    BY <1>10, WatchKinds DEF Listen, GiveUp
  <2>2. ASSUME NEW x \in Watching, NEW at \in {"subscribed", "polling", "gave up"},
               NEW late \in BOOLEAN
        PROVE  /\ [x EXCEPT !.at = at] \in Watching
               /\ [[x EXCEPT !.at = at] EXCEPT !.late = late] \in Watching
    BY DEF Watching
  <2>3. watch' \in [Watchers -> {Silent} \cup Watching]
    <3>1. CASE GiveUp(v)
      BY <3>1, <2>1, <2>2 DEF GiveUp
    <3>2. CASE Listen(v)
      <4>1. PICK how \in {"subscribed", "polling"} :
              watch' = [watch EXCEPT ![v].at = how,
                                     ![v].late = told[watch[v].id] # "nothing"]
        BY <3>2 DEF Listen
      <4>2. watch' = [watch EXCEPT ![v] =
               [[watch[v] EXCEPT !.at = how] EXCEPT !.late = told[watch[v].id] # "nothing"]]
        BY <4>1
      <4> QED
        BY <4>2, <2>1, <2>2
    <3> QED
      BY <3>1, <3>2, <1>10
  <2> QED
    BY <2>3, <1>10 DEF Listen, GiveUp, db
<1>11. CASE AnalystWrites
  BY <1>11, DeskWordsAreStatuses DEF AnalystWrites, DeskWrites
<1>12. CASE UNCHANGED analysisVars
  BY <1>12 DEF analysisVars, db
<1> QED
  BY <1>1, <1>2, <1>3, <1>4, <1>5, <1>6, <1>7, <1>8, <1>9, <1>10, <1>11, <1>12
     DEF AnalysisNext

-----------------------------------------------------------------------------
(* The queue of analyses: nothing that has been committed is taken back. *)

\* The row of an analysis keeps its content and context, and stays completed.
LEMMA RowsStay ==
  ASSUME AnalysisTypeOK, IdsApart, [AnalysisNext]_analysisVars, NEW a \in Analyses,
         row[a] # NoRow
  PROVE  /\ row'[a] # NoRow
         /\ row'[a].content = row[a].content /\ row'[a].context = row[a].context
         /\ row[a].status = "completed" => row'[a].status = "completed"
<1> DEFINE Stays == /\ row'[a] # NoRow
                    /\ row'[a].content = row[a].content /\ row'[a].context = row[a].context
                    /\ row[a].status = "completed" => row'[a].status = "completed"
<1>0. UNCHANGED row => Stays
  OBVIOUS
<1>r. row[a] \in Row
  BY RowKinds
<1>1. ASSUME NEW r \in Submissions, SubmitCommit(r) PROVE Stays
  <2>1. submission[r].id # a
    BY <1>1 DEF SubmitCommit, Submits, IdsApart
  <2> QED
    BY <2>1, <1>0, <1>1 DEF SubmitCommit, AnalysisTypeOK
<1>2. ASSUME NEW r \in Submissions, SubmitFinished(r) PROVE Stays
  <2>1. submission[r].id # a
    BY <1>2 DEF SubmitFinished, Submits, IdsApart
  <2> QED
    BY <2>1, <1>0, <1>2 DEF SubmitFinished, AnalysisTypeOK, db
<1>3. ASSUME NEW w \in Workers, Finish(w) PROVE Stays
  <2>1. \/ row' = [row EXCEPT ![work[w].id] = [row[work[w].id] EXCEPT !.status = "completed"]]
        \/ UNCHANGED row
    BY <1>3 DEF Finish, db
  <2>2. ASSUME row' = [row EXCEPT ![work[w].id] = [row[work[w].id] EXCEPT !.status = "completed"]],
               work[w].id = a
        PROVE  row'[a] = [row[a] EXCEPT !.status = "completed"]
    BY <2>2 DEF AnalysisTypeOK
  <2>3. ASSUME row' = [row EXCEPT ![work[w].id] = [row[work[w].id] EXCEPT !.status = "completed"]],
               work[w].id # a
        PROVE  row'[a] = row[a]
    BY <2>3 DEF AnalysisTypeOK
  <2> QED
    BY <2>1, <2>2, <2>3, <1>r, CompletedRow, RowsAreNotNone
<1>4. ASSUME NEW r \in Submissions, SubmitBegin(r) \/ SubmitCutShort(r) PROVE Stays
  BY <1>4, <1>0 DEF SubmitBegin, SubmitCutShort, db
<1>5. ASSUME NEW w \in Workers, Take(w) \/ Analyse(w) \/ Crash(w) PROVE Stays
  BY <1>5, <1>0 DEF Take, Analyse, Crash, db
<1>6. ASSUME NEW v \in Watchers, Look(v) \/ Listen(v) \/ GiveUp(v) PROVE Stays
  BY <1>6, <1>0 DEF Look, Listen, GiveUp, db
<1>7. CASE AnalystWrites
  BY <1>7, <1>0 DEF AnalystWrites
<1>8. CASE UNCHANGED analysisVars
  BY <1>8, <1>0 DEF analysisVars, db
<1> QED
  BY <1>1, <1>2, <1>3, <1>4, <1>5, <1>6, <1>7, <1>8 DEF AnalysisNext

\* An alert that was raised stays in the book.
LEMMA AlertsStay ==
  ASSUME AnalysisTypeOK, [AnalysisNext]_analysisVars, NEW k \in Keys, alert[k] # "none"
  PROVE  alert'[k] # "none"
<1>0. UNCHANGED alert => alert'[k] # "none"
  OBVIOUS
<1>c. ASSUME NEW a, NEW x, Commits(a, x) PROVE alert'[k] # "none"
  BY <1>c DEF Commits, AfterRaising, AnalysisTypeOK
<1>1. ASSUME NEW r \in Submissions, SubmitFinished(r) PROVE alert'[k] # "none"
  BY <1>1, <1>0, <1>c DEF SubmitFinished, db
<1>2. ASSUME NEW w \in Workers, Finish(w) PROVE alert'[k] # "none"
  BY <1>2, <1>0, <1>c DEF Finish, db
<1>3. ASSUME NEW r \in Submissions, SubmitBegin(r) \/ SubmitCommit(r) \/ SubmitCutShort(r)
      PROVE  alert'[k] # "none"
  BY <1>3, <1>0 DEF SubmitBegin, SubmitCommit, SubmitCutShort, db
<1>4. ASSUME NEW w \in Workers, Take(w) \/ Analyse(w) \/ Crash(w) PROVE alert'[k] # "none"
  BY <1>4, <1>0 DEF Take, Analyse, Crash, db
<1>5. ASSUME NEW v \in Watchers, Look(v) \/ Listen(v) \/ GiveUp(v) PROVE alert'[k] # "none"
  BY <1>5, <1>0 DEF Look, Listen, GiveUp, db
<1>6. CASE AnalystWrites
  BY <1>6, DeskWordsAreStatuses DEF AnalystWrites, DeskWrites, AnalysisTypeOK
<1>7. CASE UNCHANGED analysisVars
  BY <1>7, <1>0 DEF analysisVars, db
<1> QED
  BY <1>1, <1>2, <1>3, <1>4, <1>5, <1>6, <1>7 DEF AnalysisNext

-----------------------------------------------------------------------------
(* The queue of analyses: who is about which analysis. *)

\* What is in flight after a step was in flight before, unless it is the submission
\* that begins, under an identifier that nobody has.
LEMMA SubmissionsAfter ==
  ASSUME AnalysisTypeOK, [AnalysisNext]_analysisVars, NEW r \in Submissions, Submits(r)'
  PROVE  \/ Submits(r) /\ submission'[r] = submission[r]
         \/ /\ SubmitBegin(r) /\ Unused(submission'[r].id)
            /\ submission'[r].id \in Analyses
            /\ ~Answered(submission'[r].row.content)
            /\ \A s \in Submissions :
                 Submits(s) /\ submission[s].row.content = submission'[r].row.content =>
                   submission'[r].row.content \in twins'
<1>0. submission'[r] = submission[r] => Submits(r) /\ submission'[r] = submission[r]
  BY DEF Submits
<1>1. ASSUME NEW q \in Submissions, SubmitBegin(q)
      PROVE  \/ submission'[r] = submission[r]
             \/ /\ SubmitBegin(r) /\ Unused(submission'[r].id)
                /\ submission'[r].id \in Analyses
                /\ ~Answered(submission'[r].row.content)
                /\ \A s \in Submissions :
                     Submits(s) /\ submission[s].row.content = submission'[r].row.content =>
                       submission'[r].row.content \in twins'
  <2>1. CASE q # r
    BY <1>1, <2>1 DEF SubmitBegin, AnalysisTypeOK
  <2>2. CASE q = r
    <3>1. PICK a \in Analyses, new \in Row :
            /\ Unused(a) /\ ~Answered(new.content)
            /\ twins' = IF \E s \in Submissions :
                             Submits(s) /\ submission[s].row.content = new.content
                          THEN twins \cup {new.content} ELSE twins
            /\ \/ submission' = [submission EXCEPT ![r] =
                                   [at |-> "submitting", id |-> a, row |-> new]]
               \/ submission' = [submission EXCEPT ![r] =
                    [at |-> "finishing", id |-> a, row |-> new,
                     outcome |-> OutcomeOf(a, new.content.whole, new.context)]]
      BY <1>1, <2>2 DEF SubmitBegin
    <3>2. submission'[r].id = a /\ submission'[r].row = new
      BY <3>1 DEF AnalysisTypeOK
    <3> QED
      BY <1>1, <2>2, <3>1, <3>2
  <2> QED
    BY <2>1, <2>2
<1>2. ASSUME NEW q \in Submissions,
             SubmitCommit(q) \/ SubmitFinished(q) \/ SubmitCutShort(q)
      PROVE  submission'[r] = submission[r]
  <2>1. submission' = [submission EXCEPT ![q] = AtRest]
    BY <1>2 DEF SubmitCommit, SubmitFinished, SubmitCutShort
  <2>2. q # r
    BY <2>1 DEF Submits, AtRest, AnalysisTypeOK
  <2> QED
    BY <2>1, <2>2 DEF AnalysisTypeOK
<1>3. ASSUME NEW w \in Workers, Take(w) \/ Analyse(w) \/ Finish(w) \/ Crash(w)
      PROVE  submission'[r] = submission[r]
  BY <1>3 DEF Take, Analyse, Finish, Crash
<1>4. ASSUME NEW v \in Watchers, Look(v) \/ Listen(v) \/ GiveUp(v)
      PROVE  submission'[r] = submission[r]
  BY <1>4 DEF Look, Listen, GiveUp
<1>5. CASE AnalystWrites
  BY <1>5, <1>0 DEF AnalystWrites
<1>6. CASE UNCHANGED analysisVars
  BY <1>6, <1>0 DEF analysisVars
<1> QED
  BY <1>0, <1>1, <1>2, <1>3, <1>4, <1>5, <1>6 DEF AnalysisNext

\* A row that appears is that of a submission that ends.
LEMMA RowsAfter ==
  ASSUME AnalysisTypeOK, IdsApart, [AnalysisNext]_analysisVars, NEW a \in Analyses,
         row[a] = NoRow, row'[a] # NoRow
  PROVE  \E r \in Submissions :
           /\ Submits(r) /\ submission[r].id = a
           /\ submission'[r] = AtRest
           /\ row'[a].content = submission[r].row.content
           /\ twins' = twins
           /\ \A b \in Analyses : b # a => row'[b] = row[b]
<1>1. ASSUME NEW r \in Submissions, SubmitCommit(r) \/ SubmitFinished(r)
      PROVE  /\ Submits(r) /\ submission[r].id = a /\ submission'[r] = AtRest
             /\ row'[a].content = submission[r].row.content /\ twins' = twins
             /\ \A b \in Analyses : b # a => row'[b] = row[b]
  <2>1. /\ Submits(r) /\ submission'[r] = AtRest /\ twins' = twins
        /\ submission[r].id \in Analyses /\ submission[r].row \in QueuedRow
    BY <1>1, SubmissionKinds DEF SubmitCommit, SubmitFinished, Submits, AnalysisTypeOK
  <2>2. PICK x \in {submission[r].row, [submission[r].row EXCEPT !.status = "completed"]} :
          row' = [row EXCEPT ![submission[r].id] = x] \/ row' = row
    BY <1>1 DEF SubmitCommit, SubmitFinished, db
  <2>3. row' = [row EXCEPT ![submission[r].id] = x]
    BY <2>2
  <2>4. [submission[r].row EXCEPT !.status = "completed"].content = submission[r].row.content
    BY <2>1, CompletedRow DEF QueuedRow
  <2>5. x.content = submission[r].row.content
    BY <2>2, <2>4
  <2> QED
    BY <2>1, <2>3, <2>5 DEF AnalysisTypeOK
<1>2. ASSUME NEW w \in Workers, Finish(w) PROVE FALSE
  <2>1. work[w].id # a
    BY <1>2, WorkKinds DEF Finish, IdsApart
  <2> QED
    BY <1>2, <2>1 DEF Finish, AnalysisTypeOK, db
<1>3. ASSUME NEW r \in Submissions, SubmitBegin(r) \/ SubmitCutShort(r) PROVE FALSE
  BY <1>3 DEF SubmitBegin, SubmitCutShort, db
<1>4. ASSUME NEW w \in Workers, Take(w) \/ Analyse(w) \/ Crash(w) PROVE FALSE
  BY <1>4 DEF Take, Analyse, Crash, db
<1>5. ASSUME NEW v \in Watchers, Look(v) \/ Listen(v) \/ GiveUp(v) PROVE FALSE
  BY <1>5 DEF Look, Listen, GiveUp, db
<1>6. CASE AnalystWrites
  BY <1>6 DEF AnalystWrites
<1>7. CASE UNCHANGED analysisVars
  BY <1>7 DEF analysisVars, db
<1> QED
  BY <1>1, <1>2, <1>3, <1>4, <1>5, <1>6, <1>7 DEF AnalysisNext

\* A worker is about what it was about, or has just taken an analysis with a row.
LEMMA WorkAfter ==
  ASSUME AnalysisTypeOK, [AnalysisNext]_analysisVars, NEW w \in Workers, work'[w] # AtRest
  PROVE  \/ work[w] # AtRest /\ work'[w].id = work[w].id
         \/ work'[w].id \in Analyses /\ row[work'[w].id] # NoRow
<1>0. work'[w] = work[w] => work[w] # AtRest /\ work'[w].id = work[w].id
  OBVIOUS
<1>1. ASSUME NEW u \in Workers, Take(u) \/ Analyse(u) \/ Finish(u) \/ Crash(u)
      PROVE  \/ work'[w] = work[w]
             \/ work[w] # AtRest /\ work'[w].id = work[w].id
             \/ work'[w].id \in Analyses /\ row[work'[w].id] # NoRow
  <2>1. CASE Take(u)
    BY <2>1 DEF Take, AnalysisTypeOK
  <2>2. CASE Analyse(u)
    BY <2>2, WorkKinds DEF Analyse, AnalysisTypeOK
  <2>3. CASE Finish(u) \/ Crash(u)
    BY <2>3 DEF Finish, Crash, AnalysisTypeOK
  <2> QED
    BY <2>1, <2>2, <2>3, <1>1
<1>2. ASSUME NEW r \in Submissions,
             SubmitBegin(r) \/ SubmitCommit(r) \/ SubmitFinished(r) \/ SubmitCutShort(r)
      PROVE  work'[w] = work[w]
  BY <1>2 DEF SubmitBegin, SubmitCommit, SubmitFinished, SubmitCutShort
<1>3. ASSUME NEW v \in Watchers, Look(v) \/ Listen(v) \/ GiveUp(v)
      PROVE  work'[w] = work[w]
  BY <1>3 DEF Look, Listen, GiveUp
<1>4. CASE AnalystWrites
  BY <1>4, <1>0 DEF AnalystWrites
<1>5. CASE UNCHANGED analysisVars
  BY <1>5, <1>0 DEF analysisVars
<1> QED
  BY <1>0, <1>1, <1>2, <1>3, <1>4, <1>5 DEF AnalysisNext

LEMMA WatchAfter ==
  ASSUME AnalysisTypeOK, [AnalysisNext]_analysisVars, NEW v \in Watchers, watch'[v] # Silent
  PROVE  \/ watch[v] # Silent /\ watch'[v].id = watch[v].id
         \/ watch'[v].id \in Analyses /\ row[watch'[v].id] # NoRow
<1>0. watch'[v] = watch[v] => watch[v] # Silent /\ watch'[v].id = watch[v].id
  OBVIOUS
<1>1. ASSUME NEW a, NEW word, Publish(a, word)
      PROVE  watch[v] # Silent /\ watch'[v].id = watch[v].id
  <2>1. watch'[v] \in {watch[v], [watch[v] EXCEPT !.at = "heard"]}
    BY <1>1 DEF Publish
  <2>2. watch[v].at = "subscribed" => watch[v] # Silent
    BY DEF Silent
  <2>3. watch[v].at # "subscribed" => watch'[v] = watch[v]
    BY <1>1 DEF Publish
  <2> QED
    BY <1>0, <2>1, <2>2, <2>3, WatchKinds DEF Watching
<1>2. ASSUME NEW w \in Workers, Analyse(w)
      PROVE  watch[v] # Silent /\ watch'[v].id = watch[v].id
  BY <1>2, <1>1 DEF Analyse
<1>3. ASSUME NEW u \in Watchers, Look(u) \/ Listen(u) \/ GiveUp(u)
      PROVE  \/ watch[v] # Silent /\ watch'[v].id = watch[v].id
             \/ watch'[v].id \in Analyses /\ row[watch'[v].id] # NoRow
  <2>1. CASE u # v
    BY <2>1, <1>3, <1>0 DEF Look, Listen, GiveUp, AnalysisTypeOK
  <2>2. CASE Look(v)
    BY <2>2 DEF Look, AnalysisTypeOK
  <2>3. CASE Listen(v) \/ GiveUp(v)
    <3>1. watch[v] \in Watching /\ watch[v] # Silent
      BY <2>3, WatchKinds DEF Listen, GiveUp
    <3>2. \E how \in {"subscribed", "polling", "gave up"}, late \in BOOLEAN :
            watch'[v] \in {[watch[v] EXCEPT !.at = how],
                           [[watch[v] EXCEPT !.at = how] EXCEPT !.late = late]}
      BY <2>3 DEF Listen, GiveUp, AnalysisTypeOK
    <3> QED
      BY <3>1, <3>2 DEF Watching
  <2> QED
    BY <1>3, <2>1, <2>2, <2>3
<1>4. ASSUME NEW r \in Submissions,
             SubmitBegin(r) \/ SubmitCommit(r) \/ SubmitFinished(r) \/ SubmitCutShort(r)
      PROVE  watch'[v] = watch[v]
  BY <1>4 DEF SubmitBegin, SubmitCommit, SubmitFinished, SubmitCutShort
<1>5. ASSUME NEW w \in Workers, Take(w) \/ Finish(w) \/ Crash(w)
      PROVE  watch'[v] = watch[v]
  BY <1>5 DEF Take, Finish, Crash
<1>6. CASE AnalystWrites
  BY <1>6, <1>0 DEF AnalystWrites
<1>7. CASE UNCHANGED analysisVars
  BY <1>7, <1>0 DEF analysisVars
<1> QED
  BY <1>0, <1>2, <1>3, <1>4, <1>5, <1>6, <1>7 DEF AnalysisNext

LEMMA IdsStep ==
  AnalysisTypeOK /\ IdsApart /\ [AnalysisNext]_analysisVars => IdsApart'
<1> SUFFICES ASSUME AnalysisTypeOK, IdsApart, [AnalysisNext]_analysisVars PROVE IdsApart'
  OBVIOUS
<1>1. ASSUME NEW r \in Submissions, NEW s \in Submissions, r # s, Submits(r)', Submits(s)'
      PROVE  submission'[r].id # submission'[s].id
  <2>1. CASE Submits(r) /\ submission'[r] = submission[r]
        /\ Submits(s) /\ submission'[s] = submission[s]
    BY <2>1, <1>1 DEF IdsApart
  <2>2. CASE SubmitBegin(r) /\ Unused(submission'[r].id)
    <3>1. submission'[s] = submission[s] /\ Submits(s)
      BY <2>2, <1>1 DEF SubmitBegin, AnalysisTypeOK, Submits
    <3> QED
      BY <3>1, <2>2 DEF Unused
  <2>3. CASE SubmitBegin(s) /\ Unused(submission'[s].id)
    <3>1. submission'[r] = submission[r] /\ Submits(r)
      BY <2>3, <1>1 DEF SubmitBegin, AnalysisTypeOK, Submits
    <3> QED
      BY <3>1, <2>3 DEF Unused
  <2> QED
    BY <1>1, <2>1, <2>2, <2>3, SubmissionsAfter
<1>2. ASSUME NEW r \in Submissions, Submits(r)'
      PROVE  row'[submission'[r].id] = NoRow
  <2>1. submission'[r].id \in Analyses /\ row[submission'[r].id] = NoRow
    BY <1>2, SubmissionsAfter, SubmissionKinds DEF IdsApart, Unused
  <2>2. ASSUME row'[submission'[r].id] # NoRow PROVE FALSE
    <3>1. PICK q \in Submissions : /\ Submits(q) /\ submission[q].id = submission'[r].id
                                   /\ submission'[q] = AtRest
      BY <2>1, <2>2, RowsAfter
    <3>2. q # r
      BY <3>1, <1>2 DEF Submits, AtRest
    <3>3. CASE Submits(r) /\ submission'[r] = submission[r]
      BY <3>1, <3>2, <3>3 DEF IdsApart
    <3>4. CASE Unused(submission'[r].id)
      BY <3>1, <3>4 DEF Unused
    <3> QED
      BY <3>3, <3>4, <1>2, SubmissionsAfter
  <2> QED
    BY <2>2
<1>3. ASSUME NEW w \in Workers, work'[w] # AtRest PROVE row'[work'[w].id] # NoRow
  BY <1>3, WorkAfter, RowsStay, WorkKinds DEF IdsApart
<1>4. ASSUME NEW v \in Watchers, watch'[v] # Silent PROVE row'[watch'[v].id] # NoRow
  <2>1. watch'[v].id \in Analyses /\ row[watch'[v].id] # NoRow
    BY <1>4, WatchAfter, WatchKinds DEF IdsApart, Watching
  <2> QED
    BY <2>1, RowsStay
<1> QED
  BY <1>1, <1>2, <1>3, <1>4 DEF IdsApart

\* A pipeline that is about to commit was about to before, or has just run on what is
\* there.
LEMMA FinishingAfter ==
  ASSUME AnalysisTypeOK, [AnalysisNext]_analysisVars, NEW r \in Submissions,
         submission'[r].at = "finishing"
  PROVE  \/ /\ submission[r].at = "finishing" /\ submission'[r] = submission[r]
            /\ Submits(r)
         \/ /\ submission'[r].id \in Analyses /\ submission'[r].row \in Row
            /\ submission'[r].outcome = OutcomeOf(submission'[r].id,
                 submission'[r].row.content.whole, submission'[r].row.context)
            /\ UNCHANGED db
<1>1. Submits(r)'
  BY DEF Submits
<1>2. CASE Submits(r) /\ submission'[r] = submission[r]
  BY <1>2
<1>3. CASE SubmitBegin(r)
  <2>1. PICK a \in Analyses, new \in Row :
          \/ submission' = [submission EXCEPT ![r] =
                              [at |-> "submitting", id |-> a, row |-> new]]
          \/ submission' = [submission EXCEPT ![r] =
               [at |-> "finishing", id |-> a, row |-> new,
                outcome |-> OutcomeOf(a, new.content.whole, new.context)]]
    BY <1>3 DEF SubmitBegin
  <2>2. /\ submission'[r].id = a /\ submission'[r].row = new
        /\ submission'[r].outcome = OutcomeOf(a, new.content.whole, new.context)
    BY <2>1 DEF AnalysisTypeOK
  <2> QED
    BY <2>2, <1>3 DEF SubmitBegin
<1> QED
  BY <1>1, <1>2, <1>3, SubmissionsAfter

LEMMA WorkedAfter ==
  ASSUME AnalysisTypeOK, IdsApart, [AnalysisNext]_analysisVars, NEW w \in Workers,
         work'[w].at = "worked"
  PROVE  \/ work[w].at = "worked" /\ work'[w] = work[w]
         \/ /\ work[w].at = "working" /\ work'[w].id = work[w].id
            /\ work[w].id \in Analyses /\ row[work[w].id] \in Row
            /\ work'[w].outcome = OutcomeOf(work[w].id, row[work[w].id].content.head,
                                            row[work[w].id].context)
            /\ UNCHANGED db
<1>0. work'[w] = work[w] => work[w].at = "worked" /\ work'[w] = work[w]
  OBVIOUS
<1>1. ASSUME NEW u \in Workers, Take(u) \/ Finish(u) \/ Crash(u) PROVE work'[w] = work[w]
  BY <1>1 DEF Take, Finish, Crash, AnalysisTypeOK, AtRest
<1>2. ASSUME NEW u \in Workers, Analyse(u), u # w PROVE work'[w] = work[w]
  BY <1>2 DEF Analyse, AnalysisTypeOK
<1>3. CASE Analyse(w)
  <2> DEFINE a == work[w].id
             x == OutcomeOf(a, row[a].content.head, row[a].context)
  <2>1. a \in Analyses /\ row[a] \in Row /\ work[w].at = "working"
    BY <1>3, WorkKinds, RowKinds DEF Analyse, IdsApart, Working
  <2>2. \/ work' = [work EXCEPT ![w] = [at |-> "worked", id |-> a, outcome |-> x]]
        \/ work' = [work EXCEPT ![w] = AtRest]
    BY <1>3 DEF Analyse
  <2> HIDE DEF a, x
  <2>3. work'[w].id = a /\ work'[w].outcome = x
    BY <2>2 DEF AnalysisTypeOK, AtRest
  <2> QED
    BY <2>1, <2>3, <1>3 DEF Analyse, a, x
<1>4. ASSUME NEW r \in Submissions,
             SubmitBegin(r) \/ SubmitCommit(r) \/ SubmitFinished(r) \/ SubmitCutShort(r)
      PROVE  work'[w] = work[w]
  BY <1>4 DEF SubmitBegin, SubmitCommit, SubmitFinished, SubmitCutShort
<1>5. ASSUME NEW v \in Watchers, Look(v) \/ Listen(v) \/ GiveUp(v)
      PROVE  work'[w] = work[w]
  BY <1>5 DEF Look, Listen, GiveUp
<1>6. CASE AnalystWrites
  BY <1>6, <1>0 DEF AnalystWrites
<1>7. CASE UNCHANGED analysisVars
  BY <1>7, <1>0 DEF analysisVars
<1> QED
  BY <1>0, <1>1, <1>2, <1>3, <1>4, <1>5, <1>6, <1>7 DEF AnalysisNext

LEMMA FoundAlertsStep ==
  AnalysisTypeOK /\ IdsApart /\ FoundAlertsStay /\ [AnalysisNext]_analysisVars
    => FoundAlertsStay'
<1> SUFFICES ASSUME AnalysisTypeOK, IdsApart, FoundAlertsStay, [AnalysisNext]_analysisVars
             PROVE  FoundAlertsStay'
  OBVIOUS
<1>k. Analyses \subseteq Keys
  BY AnalysisAssumption
<1>0. ASSUME NEW a \in Analyses, NEW x \in Row, NEW o \in {x.content.whole, x.content.head},
             OutcomeOf(a, o, x.context).how = "found"
      PROVE  alert[a] # "none"
  BY <1>0, ContentsObserved, OutcomeTypes
<1>1. ASSUME NEW r \in Submissions, submission'[r].at = "finishing",
             submission'[r].outcome.how = "found"
      PROVE  alert'[submission'[r].id] # "none"
  <2>1. submission'[r].id \in Analyses /\ alert[submission'[r].id] # "none"
    BY <1>0, <1>1, FinishingAfter, SubmissionKinds DEF FoundAlertsStay
  <2> QED
    BY <2>1, <1>k, AlertsStay
<1>2. ASSUME NEW w \in Workers, work'[w].at = "worked", work'[w].outcome.how = "found"
      PROVE  alert'[work'[w].id] # "none"
  <2>1. work'[w].id \in Analyses /\ alert[work'[w].id] # "none"
    BY <1>0, <1>2, WorkedAfter, WorkKinds DEF FoundAlertsStay
  <2> QED
    BY <2>1, <1>k, AlertsStay
<1> QED
  BY <1>1, <1>2 DEF FoundAlertsStay

LEMMA OutcomesFoundStep ==
  AnalysisTypeOK /\ IdsApart /\ OutcomesFound /\ [AnalysisNext]_analysisVars
    => OutcomesFound'
<1> SUFFICES ASSUME AnalysisTypeOK, IdsApart, OutcomesFound, [AnalysisNext]_analysisVars
             PROVE  OutcomesFound'
  OBVIOUS
<1>0. \A a, o, c : OutcomeOf(a, o, c).finding = Found[o][c]
  BY DEF OutcomeOf
<1>1. ASSUME NEW r \in Submissions, submission'[r].at = "finishing"
      PROVE  submission'[r].outcome.finding
               = Found[submission'[r].row.content.whole][submission'[r].row.context]
  BY <1>0, <1>1, FinishingAfter DEF OutcomesFound
<1>2. ASSUME NEW w \in Workers, work'[w].at = "worked"
      PROVE  work'[w].outcome.finding
               = Found[row'[work'[w].id].content.head][row'[work'[w].id].context]
  <2>1. CASE work[w].at = "worked" /\ work'[w] = work[w]
    <3>1. work[w].id \in Analyses /\ row[work[w].id] # NoRow
      BY <2>1, WorkKinds DEF IdsApart
    <3>2. /\ row'[work[w].id].content = row[work[w].id].content
          /\ row'[work[w].id].context = row[work[w].id].context
      BY <3>1, RowsStay
    <3> QED
      BY <2>1, <3>2 DEF OutcomesFound
  <2>2. CASE /\ work[w].at = "working" /\ work'[w].id = work[w].id
             /\ work'[w].outcome = OutcomeOf(work[w].id, row[work[w].id].content.head,
                                             row[work[w].id].context)
             /\ UNCHANGED db
    BY <2>2, <1>0 DEF db
  <2> QED
    BY <1>2, <2>1, <2>2, WorkedAfter
<1> QED
  BY <1>1, <1>2 DEF OutcomesFound

LEMMA JobsOnceStep ==
  AnalysisTypeOK /\ IdsApart /\ JobsOnce /\ [AnalysisNext]_analysisVars => JobsOnce'
<1> SUFFICES ASSUME AnalysisTypeOK, IdsApart, JobsOnce, [AnalysisNext]_analysisVars
             PROVE  JobsOnce'
  OBVIOUS
<1>n. NoRow.status # "completed"
  BY DEF NoRow
<1>1. ASSUME NEW r \in Submissions, SubmitBegin(r) PROVE JobsOnce'
  <2>1. PICK a \in Analyses, new \in Row :
          /\ Unused(a)
          /\ \/ /\ queue' = queue \cup {a}
                /\ submission' = [submission EXCEPT ![r] =
                                    [at |-> "submitting", id |-> a, row |-> new]]
             \/ /\ queue' = queue
                /\ submission' = [submission EXCEPT ![r] =
                     [at |-> "finishing", id |-> a, row |-> new,
                      outcome |-> OutcomeOf(a, new.content.whole, new.context)]]
    BY <1>1 DEF SubmitBegin
  <2>2. /\ row' = row /\ work' = work /\ row[a] = NoRow /\ a \notin queue
        /\ \A w \in Workers : work[w] # AtRest => work[w].id # a
    BY <1>1, <2>1 DEF SubmitBegin, db, Unused, IdsApart
  <2>3. ASSUME NEW s \in Submissions, submission'[s].at = "finishing"
        PROVE  submission'[s].id \notin queue'
    <3>1. CASE s # r
      <4>1. submission'[s] = submission[s] /\ Submits(s)
        BY <2>1, <2>3, <3>1 DEF AnalysisTypeOK, Submits
      <4> QED
        BY <2>1, <2>3, <4>1 DEF JobsOnce, Unused
    <3>2. CASE s = r
      BY <2>1, <2>2, <2>3, <3>2 DEF AnalysisTypeOK
    <3> QED
      BY <3>1, <3>2
  <2> QED
    BY <1>n, <2>1, <2>2, <2>3 DEF JobsOnce
<1>2. ASSUME NEW r \in Submissions, SubmitCommit(r) PROVE JobsOnce'
  <2>1. submission[r].id \in Analyses /\ submission[r].row.status # "completed"
    BY <1>2, SubmissionKinds DEF SubmitCommit, Submits, QueuedRow
  <2>2. /\ queue' = queue /\ work' = work
        /\ \A a \in Analyses : row'[a].status = "completed" => row[a].status = "completed"
        /\ \A s \in Submissions : submission'[s].at = "finishing" => submission'[s] = submission[s]
    BY <1>2, <2>1 DEF SubmitCommit, AnalysisTypeOK, AtRest
  <2>3. queue \subseteq Analyses /\ \A w \in Workers : work[w] # AtRest => work[w].id \in Analyses
    BY WorkKinds DEF AnalysisTypeOK
  <2> QED
    BY <2>2, <2>3 DEF JobsOnce
<1>3. ASSUME NEW r \in Submissions, SubmitFinished(r) PROVE JobsOnce'
  <2>1. /\ submission[r].id \in Analyses /\ row[submission[r].id] = NoRow
        /\ submission[r].id \notin queue
    BY <1>3, SubmissionKinds DEF SubmitFinished, Submits, IdsApart, JobsOnce
  <2>2. /\ queue' = queue /\ work' = work
        /\ \A a \in Analyses : a # submission[r].id => row'[a] = row[a]
        /\ \A s \in Submissions : submission'[s].at = "finishing" => submission'[s] = submission[s]
    BY <1>3 DEF SubmitFinished, AnalysisTypeOK, AtRest, db
  <2>3. /\ queue \subseteq Analyses
        /\ \A w \in Workers : work[w] # AtRest =>
             work[w].id \in Analyses /\ work[w].id # submission[r].id
    BY <2>1, WorkKinds DEF AnalysisTypeOK, IdsApart
  <2> QED
    BY <2>1, <2>2, <2>3 DEF JobsOnce
<1>4. ASSUME NEW r \in Submissions, SubmitCutShort(r) PROVE JobsOnce'
  <2>1. /\ queue' = queue /\ work' = work /\ row' = row
        /\ \A s \in Submissions : submission'[s].at = "finishing" => submission'[s] = submission[s]
    BY <1>4 DEF SubmitCutShort, AnalysisTypeOK, AtRest, db
  <2> QED
    BY <2>1 DEF JobsOnce
<1>5. ASSUME NEW w \in Workers, Take(w) PROVE JobsOnce'
  <2>1. PICK a \in queue :
          /\ queue' = queue \ {a}
          /\ work' = work \/ work' = [work EXCEPT ![w] = [at |-> "working", id |-> a]]
    BY <1>5 DEF Take
  <2>2. /\ row' = row /\ submission' = submission
        /\ \A u \in Workers : u # w => work'[u] = work[u]
        /\ work'[w] = work[w] \/ work'[w].id = a
    BY <1>5, <2>1 DEF Take, AnalysisTypeOK, db
  <2>3. \A u \in Workers : work[u] # AtRest => work[u].id # a
    BY DEF JobsOnce
  <2> QED
    BY <2>1, <2>2, <2>3 DEF JobsOnce
<1>6. ASSUME NEW w \in Workers, Analyse(w) \/ Crash(w) PROVE JobsOnce'
  <2>1. /\ row' = row /\ queue' = queue /\ submission' = submission
        /\ \A u \in Workers : u # w => work'[u] = work[u]
        /\ work'[w] = AtRest \/ (work[w] # AtRest /\ work'[w].id = work[w].id)
    BY <1>6, WorkKinds DEF Analyse, Crash, AnalysisTypeOK, db
  <2> QED
    BY <2>1 DEF JobsOnce
<1>7. ASSUME NEW w \in Workers, Finish(w) PROVE JobsOnce'
  <2>1. work[w] # AtRest /\ work[w].id \in Analyses
    BY <1>7, WorkKinds DEF Finish
  <2>2. /\ queue' = queue /\ submission' = submission
        /\ \A a \in Analyses : a # work[w].id => row'[a] = row[a]
        /\ \A u \in Workers : u # w => work'[u] = work[u]
        /\ work'[w] = AtRest
    BY <1>7 DEF Finish, AnalysisTypeOK, db
  <2>3. /\ queue \subseteq Analyses /\ work[w].id \notin queue
        /\ \A u \in Workers : u # w /\ work[u] # AtRest =>
             work[u].id \in Analyses /\ work[u].id # work[w].id
    BY <2>1, WorkKinds DEF AnalysisTypeOK, JobsOnce
  <2> QED
    BY <2>2, <2>3 DEF JobsOnce
<1>8. ASSUME NEW v \in Watchers, Look(v) \/ Listen(v) \/ GiveUp(v) PROVE JobsOnce'
  BY <1>8 DEF Look, Listen, GiveUp, JobsOnce, db
<1>9. CASE AnalystWrites
  BY <1>9 DEF AnalystWrites, JobsOnce
<1>10. CASE UNCHANGED analysisVars
  BY <1>10 DEF analysisVars, JobsOnce, db
<1> QED
  BY <1>1, <1>2, <1>3, <1>4, <1>5, <1>6, <1>7, <1>8, <1>9, <1>10 DEF AnalysisNext

-----------------------------------------------------------------------------
(* The queue of analyses: status, result and alert. *)

\* A commit of an outcome keeps the three together.
LEMMA CommitWhole ==
  ASSUME AnalysisTypeOK, CompletedWhole, NEW a \in Analyses, NEW x \in Outcomes,
         NEW y, y.status = "completed", row' = [row EXCEPT ![a] = y],
         Commits(a, x), x.how = "found" => alert[a] # "none"
  PROVE  CompletedWhole'
<1>1. /\ x.finding \in Verdicts /\ x.finding # NoFinding
      /\ x.finding.alert <=> x.how # "nothing"
      /\ x.how \in {"found", "insert", "nothing"}
  BY VerdictsAreNotNone DEF Outcomes
<1>2. result' = [result EXCEPT ![a] = x.finding] /\ alert' = AfterRaising(a, x.how, "open")
  BY DEF Commits
<1>3. ASSUME x.finding.alert PROVE alert'[a] # "none"
  BY <1>1, <1>2, <1>3, AnalysisAssumption DEF AfterRaising, AnalysisTypeOK
<1>4. ASSUME NEW b \in Analyses, b # a
      PROVE  /\ (row'[b].status = "completed") = (result'[b] # NoFinding)
             /\ result'[b] # NoFinding /\ alert'[b] = "none" =>
                  ~result'[b].alert /\ result'[b].verdict # "malicious"
  <2>1. row'[b] = row[b] /\ result'[b] = result[b] /\ alert'[b] = alert[b]
    BY <1>2, <1>4, AnalysisAssumption DEF AfterRaising, AnalysisTypeOK
  <2> QED
    BY <2>1 DEF CompletedWhole
<1>5. /\ (row'[a].status = "completed") = (result'[a] # NoFinding)
      /\ result'[a] # NoFinding /\ alert'[a] = "none" =>
           ~result'[a].alert /\ result'[a].verdict # "malicious"
  <2>1. row'[a] = y /\ result'[a] = x.finding
    BY <1>2 DEF AnalysisTypeOK
  <2> QED
    BY <2>1, <1>1, <1>3 DEF Verdicts
<1> QED
  BY <1>4, <1>5 DEF CompletedWhole

LEMMA CompletedWholeStep ==
  /\ AnalysisTypeOK /\ IdsApart /\ FoundAlertsStay /\ CompletedWhole
  /\ [AnalysisNext]_analysisVars
  => CompletedWhole'
<1> SUFFICES ASSUME AnalysisTypeOK, IdsApart, FoundAlertsStay, CompletedWhole,
                    [AnalysisNext]_analysisVars
             PROVE  CompletedWhole'
  OBVIOUS
<1>k. Analyses \subseteq Keys
  BY AnalysisAssumption
<1>0. ASSUME UNCHANGED <<row, result>> PROVE CompletedWhole'
  BY <1>0, <1>k, AlertsStay DEF CompletedWhole
<1>1. ASSUME NEW r \in Submissions, SubmitCommit(r) PROVE CompletedWhole'
  <2>1. /\ submission[r].id \in Analyses /\ submission[r].row \in QueuedRow
        /\ row[submission[r].id] = NoRow
    BY <1>1, SubmissionKinds DEF SubmitCommit, Submits, IdsApart
  <2>2. /\ row' = [row EXCEPT ![submission[r].id] = submission[r].row]
        /\ result' = result /\ alert' = alert
    BY <1>1 DEF SubmitCommit
  <2>3. submission[r].row.status # "completed" /\ NoRow.status # "completed"
    BY <2>1 DEF QueuedRow, NoRow
  <2>4. ASSUME NEW a \in Analyses
        PROVE  (row'[a].status = "completed") = (row[a].status = "completed")
    BY <2>1, <2>2, <2>3 DEF AnalysisTypeOK
  <2> QED
    BY <2>2, <2>4 DEF CompletedWhole
<1>2. ASSUME NEW r \in Submissions, SubmitFinished(r) PROVE CompletedWhole'
  <2>1. submission[r] \in Finishing
    BY <1>2, SubmissionKinds DEF SubmitFinished
  <2>2. /\ submission[r].id \in Analyses /\ submission[r].outcome \in Outcomes
        /\ submission[r].row \in Row
    BY <2>1 DEF Finishing, QueuedRow
  <2>3. [submission[r].row EXCEPT !.status = "completed"].status = "completed"
    BY <2>2, CompletedRow
  <2>4. submission[r].outcome.how = "found" => alert[submission[r].id] # "none"
    BY <1>2 DEF SubmitFinished, FoundAlertsStay
  <2> QED
    BY <1>0, <1>2, <2>2, <2>3, <2>4, CommitWhole DEF SubmitFinished, db
<1>3. ASSUME NEW w \in Workers, Finish(w) PROVE CompletedWhole'
  <2>1. work[w] \in Worked /\ row[work[w].id] \in Row
    BY <1>3, WorkKinds, RowKinds DEF Finish, IdsApart
  <2>2. work[w].id \in Analyses /\ work[w].outcome \in Outcomes
    BY <2>1 DEF Worked
  <2>3. [row[work[w].id] EXCEPT !.status = "completed"].status = "completed"
    BY <2>1, CompletedRow
  <2>4. work[w].outcome.how = "found" => alert[work[w].id] # "none"
    BY <1>3 DEF Finish, FoundAlertsStay
  <2>5. \/ /\ row' = [row EXCEPT ![work[w].id] = [row[work[w].id] EXCEPT !.status = "completed"]]
           /\ Commits(work[w].id, work[w].outcome)
        \/ UNCHANGED <<row, result>>
    BY <1>3 DEF Finish, db
  <2> QED
    BY <1>0, <2>2, <2>3, <2>4, <2>5, CommitWhole
<1>4. ASSUME NEW r \in Submissions, SubmitBegin(r) \/ SubmitCutShort(r) PROVE CompletedWhole'
  BY <1>4, <1>0 DEF SubmitBegin, SubmitCutShort, db
<1>5. ASSUME NEW w \in Workers, Take(w) \/ Analyse(w) \/ Crash(w) PROVE CompletedWhole'
  BY <1>5, <1>0 DEF Take, Analyse, Crash, db
<1>6. ASSUME NEW v \in Watchers, Look(v) \/ Listen(v) \/ GiveUp(v) PROVE CompletedWhole'
  BY <1>6, <1>0 DEF Look, Listen, GiveUp, db
<1>7. CASE AnalystWrites
  BY <1>7, <1>0 DEF AnalystWrites
<1>8. CASE UNCHANGED analysisVars
  BY <1>8, <1>0 DEF analysisVars, db
<1> QED
  BY <1>1, <1>2, <1>3, <1>4, <1>5, <1>6, <1>7, <1>8 DEF AnalysisNext

-----------------------------------------------------------------------------
(* The queue of analyses: contents submitted twice. *)

LEMMA TwinsGrow ==
  ASSUME [AnalysisNext]_analysisVars
  PROVE  twins \subseteq twins'
<1>1. ASSUME NEW r \in Submissions,
             SubmitBegin(r) \/ SubmitCommit(r) \/ SubmitFinished(r) \/ SubmitCutShort(r)
      PROVE  twins \subseteq twins'
  BY <1>1 DEF SubmitBegin, SubmitCommit, SubmitFinished, SubmitCutShort
<1>2. ASSUME NEW w \in Workers, Take(w) \/ Analyse(w) \/ Finish(w) \/ Crash(w)
      PROVE  twins \subseteq twins'
  BY <1>2 DEF Take, Analyse, Finish, Crash
<1>3. ASSUME NEW v \in Watchers, Look(v) \/ Listen(v) \/ GiveUp(v) PROVE twins \subseteq twins'
  BY <1>3 DEF Look, Listen, GiveUp
<1> QED
  BY <1>1, <1>2, <1>3 DEF AnalysisNext, AnalystWrites, analysisVars

LEMMA TwinsStep ==
  AnalysisTypeOK /\ IdsApart /\ TwinsNoted /\ [AnalysisNext]_analysisVars => TwinsNoted'
<1> SUFFICES ASSUME AnalysisTypeOK, IdsApart, TwinsNoted, [AnalysisNext]_analysisVars
             PROVE  TwinsNoted'
  OBVIOUS
<1>0. twins \subseteq twins'
  BY TwinsGrow
<1>1. ASSUME NEW r \in Submissions, NEW a \in Analyses, Submits(r)', row'[a] # NoRow,
             row'[a].content = submission'[r].row.content
      PROVE  Excused(row[a].content)'
  <2>1. CASE row[a] # NoRow
    <3>1. row'[a].content = row[a].content
      BY <2>1, RowsStay
    <3>2. CASE Submits(r) /\ submission'[r] = submission[r]
      BY <1>0, <1>1, <2>1, <3>1, <3>2 DEF TwinsNoted, Excused
    <3>3. ASSUME ~Answered(submission'[r].row.content)
          PROVE  Excused(row[a].content)'
      BY <1>1, <2>1, <3>1, <3>3 DEF Answered, Excused
    <3> QED
      BY <1>1, <3>2, <3>3, SubmissionsAfter
  <2>2. CASE row[a] = NoRow
    <3>1. PICK q \in Submissions :
            /\ Submits(q) /\ submission'[q] = AtRest
            /\ row'[a].content = submission[q].row.content
      BY <1>1, <2>2, RowsAfter
    <3>2. q # r
      BY <1>1, <3>1 DEF Submits, AtRest
    <3>3. CASE Submits(r) /\ submission'[r] = submission[r]
      BY <1>0, <1>1, <3>1, <3>2, <3>3 DEF TwinsNoted, Excused
    <3> QED
      BY <1>1, <3>1, <3>3, SubmissionsAfter DEF Excused
  <2> QED
    BY <2>1, <2>2
<1>2. ASSUME NEW r \in Submissions, NEW s \in Submissions, r # s, Submits(r)', Submits(s)',
             submission'[r].row.content = submission'[s].row.content
      PROVE  submission'[r].row.content \in twins'
  <2>1. CASE Submits(r) /\ submission'[r] = submission[r]
        /\ Submits(s) /\ submission'[s] = submission[s]
    BY <1>0, <1>2, <2>1 DEF TwinsNoted
  <2>2. ASSUME NEW p \in Submissions, NEW q \in Submissions, p # q, SubmitBegin(p), Submits(q)',
               \A t \in Submissions :
                 Submits(t) /\ submission[t].row.content = submission'[p].row.content =>
                   submission'[p].row.content \in twins',
               submission'[p].row.content = submission'[q].row.content
        PROVE  submission'[p].row.content \in twins'
    <3>1. submission'[q] = submission[q] /\ Submits(q)
      BY <2>2 DEF SubmitBegin, AnalysisTypeOK, Submits
    <3> QED
      BY <3>1, <2>2
  <2>3. CASE Submits(r) /\ submission'[r] = submission[r]
    BY <1>2, <2>1, <2>2, <2>3, SubmissionsAfter
  <2> QED
    BY <1>2, <2>2, <2>3, SubmissionsAfter
<1> QED
  BY <1>1, <1>2 DEF TwinsNoted, Excused

LEMMA OneAnalysisStep ==
  /\ AnalysisTypeOK /\ IdsApart /\ TwinsNoted /\ OneAnalysisPerContent
  /\ [AnalysisNext]_analysisVars
  => OneAnalysisPerContent'
<1> SUFFICES ASSUME AnalysisTypeOK, IdsApart, TwinsNoted, OneAnalysisPerContent,
                    [AnalysisNext]_analysisVars,
                    NEW a \in Analyses, NEW b \in Analyses, a # b,
                    row'[a] # NoRow, row'[b] # NoRow, row'[a].content = row'[b].content
             PROVE  Excused(row[a].content)'
  BY DEF OneAnalysisPerContent, Excused
<1>0. twins \subseteq twins'
  BY TwinsGrow
<1>1. CASE row[a] # NoRow /\ row[b] # NoRow
  BY <1>0, <1>1, RowsStay DEF OneAnalysisPerContent, Excused
<1>2. ASSUME NEW c \in Analyses, NEW d \in Analyses, c # d, row[c] = NoRow,
             row'[c] # NoRow, row'[d] # NoRow, row'[c].content = row'[d].content
      PROVE  Excused(row[c].content)'
  <2>1. PICK q \in Submissions :
          /\ Submits(q) /\ row'[c].content = submission[q].row.content
          /\ row'[d] = row[d]
    BY <1>2, RowsAfter
  <2> QED
    BY <1>0, <1>2, <2>1 DEF TwinsNoted, Excused
<1> QED
  BY <1>1, <1>2

-----------------------------------------------------------------------------
(* The queue of analyses: what was announced. *)

\* Why an analysis that was announced as completed may be said to be.
Announced(a) ==
  \/ row[a].status = "completed"
  \/ \E w \in Workers : work[w].at = "worked" /\ work[w].id = a
  \/ \E r \in Submissions : submission[r].at = "finishing" /\ submission[r].id = a
  \/ a \in lost

\* The announcement stays true: who was about to commit has committed, or lost it.
LEMMA AnnouncedStays ==
  ASSUME AnalysisTypeOK, IdsApart, [AnalysisNext]_analysisVars, NEW a \in Analyses, Announced(a)
  PROVE  Announced(a)'
<1>0. row[a].status = "completed" => Announced(a)'
  BY RowKinds, RowsStay DEF Announced
<1>1. ASSUME lost \subseteq lost', work' = work, submission' = submission PROVE Announced(a)'
  BY <1>0, <1>1 DEF Announced
<1>2. ASSUME NEW r \in Submissions, SubmitBegin(r) PROVE Announced(a)'
  <2>1. /\ lost' = lost /\ work' = work
        /\ \A s \in Submissions : s # r => submission'[s] = submission[s]
        /\ submission[r].at # "finishing"
    BY <1>2 DEF SubmitBegin, AtRest, AnalysisTypeOK
  <2> QED
    BY <1>0, <2>1 DEF Announced
<1>3. ASSUME NEW r \in Submissions, SubmitCommit(r) PROVE Announced(a)'
  <2>1. /\ lost' = lost /\ work' = work
        /\ \A s \in Submissions : s # r => submission'[s] = submission[s]
        /\ submission[r].at # "finishing"
    BY <1>3 DEF SubmitCommit, AnalysisTypeOK
  <2> QED
    BY <1>0, <2>1 DEF Announced
<1>4. ASSUME NEW r \in Submissions, SubmitFinished(r) PROVE Announced(a)'
  <2>1. /\ work' = work /\ lost \subseteq lost'
        /\ \A s \in Submissions : s # r => submission'[s] = submission[s]
    BY <1>4 DEF SubmitFinished, AnalysisTypeOK
  <2>2. submission[r].id \in Analyses /\ submission[r].row \in Row
    BY <1>4, SubmissionKinds DEF SubmitFinished, Submits, QueuedRow
  <2>3. [submission[r].row EXCEPT !.status = "completed"].status = "completed"
    BY <2>2, CompletedRow
  <2>4. row'[submission[r].id].status = "completed" \/ submission[r].id \in lost'
    BY <1>4, <2>2, <2>3 DEF SubmitFinished, AnalysisTypeOK
  <2> QED
    BY <1>0, <2>1, <2>4 DEF Announced
<1>5. ASSUME NEW r \in Submissions, SubmitCutShort(r) PROVE Announced(a)'
  <2>1. /\ work' = work /\ lost \subseteq lost'
        /\ \A s \in Submissions : s # r => submission'[s] = submission[s]
        /\ submission[r].at = "finishing" => submission[r].id \in lost'
    BY <1>5 DEF SubmitCutShort, AnalysisTypeOK
  <2> QED
    BY <1>0, <2>1 DEF Announced
<1>6. ASSUME NEW w \in Workers, Take(w) PROVE Announced(a)'
  <2>1. /\ submission' = submission /\ lost \subseteq lost'
        /\ \A u \in Workers : u # w => work'[u] = work[u]
        /\ work[w].at # "worked"
    BY <1>6 DEF Take, AtRest, AnalysisTypeOK
  <2> QED
    BY <1>0, <2>1 DEF Announced
<1>7. ASSUME NEW w \in Workers, Analyse(w) PROVE Announced(a)'
  <2>1. /\ submission' = submission /\ lost \subseteq lost'
        /\ \A u \in Workers : u # w => work'[u] = work[u]
        /\ work[w].at # "worked"
    BY <1>7 DEF Analyse, AnalysisTypeOK
  <2> QED
    BY <1>0, <2>1 DEF Announced
<1>8. ASSUME NEW w \in Workers, Finish(w) PROVE Announced(a)'
  <2>1. /\ submission' = submission /\ lost \subseteq lost'
        /\ \A u \in Workers : u # w => work'[u] = work[u]
    BY <1>8 DEF Finish, AnalysisTypeOK
  <2>2. work[w].id \in Analyses /\ row[work[w].id] \in Row
    BY <1>8, WorkKinds, RowKinds DEF Finish, IdsApart, Worked
  <2>3. \/ row' = [row EXCEPT ![work[w].id] = [row[work[w].id] EXCEPT !.status = "completed"]]
        \/ work[w].id \in lost'
    BY <1>8 DEF Finish
  <2>4. [row[work[w].id] EXCEPT !.status = "completed"].status = "completed"
    BY <2>2, CompletedRow
  <2>5. row'[work[w].id].status = "completed" \/ work[w].id \in lost'
    BY <2>2, <2>3, <2>4 DEF AnalysisTypeOK
  <2> QED
    BY <1>0, <2>1, <2>5 DEF Announced
<1>9. ASSUME NEW w \in Workers, Crash(w) PROVE Announced(a)'
  <2>1. /\ submission' = submission /\ lost \subseteq lost'
        /\ \A u \in Workers : u # w => work'[u] = work[u]
        /\ work[w].id \in lost'
    BY <1>9 DEF Crash, AnalysisTypeOK
  <2> QED
    BY <1>0, <2>1 DEF Announced
<1>10. ASSUME NEW v \in Watchers, Look(v) \/ Listen(v) \/ GiveUp(v) PROVE Announced(a)'
  BY <1>10, <1>1 DEF Look, Listen, GiveUp
<1>11. CASE AnalystWrites
  BY <1>11, <1>1 DEF AnalystWrites
<1>12. CASE UNCHANGED analysisVars
  BY <1>12, <1>1 DEF analysisVars
<1> QED
  BY <1>2, <1>3, <1>4, <1>5, <1>6, <1>7, <1>8, <1>9, <1>10, <1>11, <1>12 DEF AnalysisNext

LEMMA LastWordStep ==
  AnalysisTypeOK /\ IdsApart /\ LastWordHeard /\ [AnalysisNext]_analysisVars => LastWordHeard'
<1> SUFFICES ASSUME AnalysisTypeOK, IdsApart, LastWordHeard, [AnalysisNext]_analysisVars
             PROVE  LastWordHeard'
  OBVIOUS
<1> DEFINE Spoken == \A a \in Analyses : told'[a] = "completed" => Announced(a)'
           Heard  == \A v \in Watchers :
                       watch'[v].at = "subscribed" /\ told'[watch'[v].id] # "nothing"
                         => watch'[v].late
<1>0. ASSUME NEW a \in Analyses, told[a] = "completed" PROVE Announced(a)'
  BY <1>0, AnnouncedStays DEF LastWordHeard, Announced
<1>h. \A v \in Watchers : watch[v].at = "subscribed" /\ told[watch[v].id] # "nothing" => watch[v].late
  BY DEF LastWordHeard
<1>1. told' = told => Spoken
  BY <1>0
<1>2. told' = told /\ watch' = watch => Heard
  BY <1>h
<1>3. ASSUME NEW r \in Submissions, SubmitBegin(r) PROVE Spoken /\ Heard
  <2>1. PICK a \in Analyses, new \in Row :
          /\ Unused(a)
          /\ \/ told' = told
             \/ /\ submission' = [submission EXCEPT ![r] =
                     [at |-> "finishing", id |-> a, row |-> new,
                      outcome |-> OutcomeOf(a, new.content.whole, new.context)]]
                /\ told' = [told EXCEPT ![a] = "completed"]
    BY <1>3 DEF SubmitBegin
  <2>2. watch' = watch
    BY <1>3 DEF SubmitBegin
  <2>3. CASE told' = told
    BY <2>2, <2>3, <1>1, <1>2
  <2>4. CASE /\ submission' = [submission EXCEPT ![r] =
                  [at |-> "finishing", id |-> a, row |-> new,
                   outcome |-> OutcomeOf(a, new.content.whole, new.context)]]
             /\ told' = [told EXCEPT ![a] = "completed"]
    <3>1. Announced(a)'
      <4>1. submission'[r].at = "finishing" /\ submission'[r].id = a
        BY <2>4 DEF AnalysisTypeOK
      <4> QED
        BY <4>1 DEF Announced
    <3>2. \A b \in Analyses : b # a => told'[b] = told[b]
      BY <2>4 DEF AnalysisTypeOK
    <3>3. Spoken
      BY <3>1, <3>2, <1>0
    <3>4. ASSUME NEW v \in Watchers, watch[v].at = "subscribed"
          PROVE  watch[v].id # a /\ watch[v].id \in Analyses
      BY <3>4, <2>1, WatchKinds DEF Unused, IdsApart, Silent, Watching
    <3>5. Heard
      BY <3>4, <3>2, <2>2, <1>h
    <3> QED
      BY <3>3, <3>5
  <2> QED
    BY <2>1, <2>3, <2>4
<1>4. ASSUME NEW w \in Workers, Analyse(w) PROVE Spoken /\ Heard
  <2>1. PICK word \in {"completed", "failed"} :
          /\ Publish(work[w].id, word)
          /\ word = "completed" =>
               work' = [work EXCEPT ![w] =
                 [at |-> "worked", id |-> work[w].id,
                  outcome |-> OutcomeOf(work[w].id, row[work[w].id].content.head,
                                        row[work[w].id].context)]]
    BY <1>4 DEF Analyse
  <2>2. /\ told' = [told EXCEPT ![work[w].id] = word]
        /\ \A v \in Watchers :
             watch'[v] = IF watch[v].at = "subscribed" /\ watch[v].id = work[w].id
                           THEN [watch[v] EXCEPT !.at = "heard"] ELSE watch[v]
    BY <2>1 DEF Publish
  <2>3. Spoken
    <3>1. ASSUME NEW b \in Analyses, told'[b] = "completed" PROVE Announced(b)'
      <4>1. CASE b = work[w].id
        <5>1. word = "completed"
          BY <4>1, <3>1, <2>2 DEF AnalysisTypeOK
        <5>2. work'[w].at = "worked" /\ work'[w].id = b
          BY <5>1, <2>1, <4>1 DEF AnalysisTypeOK
        <5> QED
          BY <5>2 DEF Announced
      <4>2. CASE b # work[w].id
        BY <4>2, <3>1, <2>2, <1>0 DEF AnalysisTypeOK
      <4> QED
        BY <4>1, <4>2
    <3> QED
      BY <3>1
  <2>4. Heard
    <3>1. ASSUME NEW v \in Watchers, watch'[v].at = "subscribed",
                 told'[watch'[v].id] # "nothing"
          PROVE  watch'[v].late
      <4>1. watch'[v] = watch[v] /\ watch[v].id # work[w].id
        <5>1. CASE watch[v].at = "subscribed" /\ watch[v].id = work[w].id
          <6>1. watch[v] \in Watching
            BY <5>1, WatchKinds DEF Silent
          <6> QED
            BY <6>1, <5>1, <2>2, <3>1 DEF Watching
        <5> QED
          BY <5>1, <2>2, <3>1
      <4>2. watch[v].id \in Analyses
        BY <4>1, <3>1, WatchKinds DEF Silent, Watching
      <4> QED
        BY <4>1, <4>2, <3>1, <2>2, <1>h DEF AnalysisTypeOK
    <3> QED
      BY <3>1
  <2> QED
    BY <2>3, <2>4
<1>5. ASSUME NEW v \in Watchers, Look(v) \/ Listen(v) \/ GiveUp(v) PROVE Spoken /\ Heard
  <2>1. told' = told /\ \A u \in Watchers : u # v => watch'[u] = watch[u]
    BY <1>5 DEF Look, Listen, GiveUp, AnalysisTypeOK
  <2>2. watch'[v].at = "subscribed" /\ told'[watch'[v].id] # "nothing" => watch'[v].late
    <3>1. CASE Look(v) \/ GiveUp(v)
      <4>1. watch'[v].at # "subscribed"
        <5>1. CASE Look(v)
          BY <5>1 DEF Look, AnalysisTypeOK
        <5>2. CASE GiveUp(v)
          <6>1. watch[v] \in Watching
            BY <5>2, WatchKinds DEF GiveUp, Silent
          <6> QED
            BY <6>1, <5>2 DEF GiveUp, AnalysisTypeOK, Watching
        <5> QED
          BY <3>1, <5>1, <5>2
      <4> QED
        BY <4>1
    <3>2. CASE Listen(v)
      <4>1. watch[v] \in Watching
        BY <3>2, WatchKinds DEF Listen, Silent
      <4>2. PICK how \in {"subscribed", "polling"} :
              watch' = [watch EXCEPT ![v] =
                [[watch[v] EXCEPT !.at = how] EXCEPT !.late = told[watch[v].id] # "nothing"]]
        BY <3>2 DEF Listen
      <4>3. watch'[v].id = watch[v].id /\ watch'[v].late = (told[watch[v].id] # "nothing")
        BY <4>1, <4>2 DEF Watching, AnalysisTypeOK
      <4> QED
        BY <4>3, <2>1
    <3> QED
      BY <3>1, <3>2, <1>5
  <2> QED
    BY <2>1, <2>2, <1>1, <1>h
<1>6. ASSUME NEW r \in Submissions, SubmitCommit(r) \/ SubmitFinished(r) \/ SubmitCutShort(r)
      PROVE  Spoken /\ Heard
  BY <1>6, <1>1, <1>2 DEF SubmitCommit, SubmitFinished, SubmitCutShort
<1>7. ASSUME NEW w \in Workers, Take(w) \/ Finish(w) \/ Crash(w) PROVE Spoken /\ Heard
  BY <1>7, <1>1, <1>2 DEF Take, Finish, Crash
<1>8. ASSUME AnalystWrites \/ UNCHANGED analysisVars PROVE Spoken /\ Heard
  BY <1>8, <1>1, <1>2 DEF AnalystWrites, analysisVars
<1>9. Spoken /\ Heard
  BY <1>3, <1>4, <1>5, <1>6, <1>7, <1>8 DEF AnalysisNext
<1> QED
  BY <1>9 DEF LastWordHeard, Announced

-----------------------------------------------------------------------------
(* The queue of analyses: the theorems. *)

LEMMA AnalysisInvInit == AnalysisInit => AnalysisInv
<1> SUFFICES ASSUME AnalysisInit PROVE AnalysisInv
  OBVIOUS
<1> USE DEF AnalysisInit
<1>1. AnalysisTypeOK
  BY DEF AnalysisTypeOK
<1>2. \A r \in Submissions : ~Submits(r) /\ submission[r].at # "finishing"
  BY DEF Submits, AtRest
<1>3. \A w \in Workers : work[w] = AtRest /\ work[w].at # "worked"
  BY DEF AtRest
<1>4. \A v \in Watchers : watch[v] = Silent /\ watch[v].at # "subscribed"
  BY DEF Silent
<1>5. \A a \in Analyses : row[a] = NoRow /\ row[a].status # "completed" /\ result[a] = NoFinding
                          /\ told[a] # "completed"
  BY DEF NoRow
<1>6. IdsApart /\ FoundAlertsStay /\ TwinsNoted /\ JobsOnce /\ OutcomesFound
  BY <1>2, <1>3, <1>4 DEF IdsApart, FoundAlertsStay, TwinsNoted, JobsOnce, OutcomesFound
<1>7. CompletedWhole /\ OneAnalysisPerContent /\ LastWordHeard
  BY <1>4, <1>5 DEF CompletedWhole, OneAnalysisPerContent, LastWordHeard
<1> QED
  BY <1>1, <1>6, <1>7 DEF AnalysisInv

LEMMA AnalysisInvStep == AnalysisInv /\ [AnalysisNext]_analysisVars => AnalysisInv'
BY AnalysisTypeStep, IdsStep, FoundAlertsStep, JobsOnceStep, OutcomesFoundStep, CompletedWholeStep, TwinsStep, OneAnalysisStep,
   LastWordStep DEF AnalysisInv

\* The invariant of the queue of analyses holds in every behaviour (submit_analysis,
\* run_pipeline, event_generator).
THEOREM AnalysisInvariance == AnalysisSpec => []AnalysisInv
BY AnalysisInvInit, AnalysisInvStep, PTL DEF AnalysisSpec

\* Rows, results, alerts, what submissions, workers and streams are doing and what was
\* published stay of their types; among others, a malicious result asks for an alert.
THEOREM AnalysisTypeCorrect == AnalysisSpec => []AnalysisTypeOK
<1>1. AnalysisInv => AnalysisTypeOK
  BY DEF AnalysisInv
<1> QED
  BY <1>1, AnalysisInvariance, PTL

\* Status, result and alert of an analysis appear together, whoever runs the pipeline
\* and whatever crashes (run_pipeline in one transaction).
THEOREM AnalysesWhole == AnalysisSpec => []CompletedWhole
<1>1. AnalysisInv => CompletedWhole
  BY DEF AnalysisInv
<1> QED
  BY <1>1, AnalysisInvariance, PTL

\* A content with two analyses was submitted twice at the same time (submit_analysis).
THEOREM AnalysedOnce == AnalysisSpec => []OneAnalysisPerContent
<1>1. AnalysisInv => OneAnalysisPerContent
  BY DEF AnalysisInv
<1> QED
  BY <1>1, AnalysisInvariance, PTL

\* An announced completion is there, to come, or lost with its commit; and a stream that
\* listens in vain has subscribed after the last word (run_pipeline, event_generator).
THEOREM LastWordTrue == AnalysisSpec => []LastWordHeard
<1>1. AnalysisInv => LastWordHeard
  BY DEF AnalysisInv
<1> QED
  BY <1>1, AnalysisInvariance, PTL

-----------------------------------------------------------------------------
(* The queue of analyses implements the record of questions and answers. *)

\* A commit of the pipeline is an answer.
LEMMA AnswerStep ==
  ASSUME AnalysisTypeOK, NEW a \in Analyses, NEW x \in Outcomes, NEW y \in Row,
         NEW o \in {y.content.whole, y.content.head},
         x.finding = Found[o][y.context],
         x.how = "found" => alert[a] # "none",
         Commits(a, x),
         y.status = "completed",
         row' = [row EXCEPT ![a] = y],
         row[a].status # "completed",
         row[a] = NoRow \/ (row[a].content = y.content /\ row[a].context = y.context)
  PROVE  Record!Answer(a)
<1> DEFINE q == [content |-> y.content, context |-> y.context]
<1>r. y # NoRow /\ \A b \in Analyses : row'[b] = IF b = a THEN y ELSE row[b]
  BY RowsAreNotNone DEF AnalysisTypeOK
<1>1. q \in DOMAIN AnswersTo /\ x.finding \in AnswersTo[q]
  <2>1. q \in Questions
    BY DEF Row, Questions
  <2>2. AnswersTo[q] = {Found[p][q.context] : p \in {q.content.whole, q.content.head}}
    BY <2>1 DEF AnswersTo
  <2> QED
    BY <2>1, <2>2 DEF AnswersTo
<1>2. Asked[a] \in {NoRow, q}
  BY DEF Asked
<1>3. Asked' = [Asked EXCEPT ![a] = q]
  BY <1>r DEF Asked
<1>4. result' = [result EXCEPT ![a] = x.finding]
  BY DEF Commits
<1>5. Alerted' = IF x.finding.alert THEN Alerted \cup {a} ELSE Alerted
  <2>1. a \in Keys /\ (x.finding.alert <=> x.how # "nothing")
    BY AnalysisAssumption DEF Outcomes
  <2>2. \A b \in Analyses : b # a => alert'[b] = alert[b]
    BY AnalysisAssumption DEF Commits, AfterRaising, AnalysisTypeOK
  <2>3. CASE x.how = "insert"
    <3>1. alert'[a] = "open"
      BY <2>1, <2>3 DEF Commits, AfterRaising, AnalysisTypeOK
    <3> QED
      BY <2>1, <2>2, <2>3, <3>1 DEF Alerted
  <2>4. CASE x.how # "insert"
    <3>1. alert' = alert /\ (x.finding.alert => alert[a] # "none")
      BY <2>1, <2>4 DEF Commits, AfterRaising, Outcomes
    <3> QED
      BY <3>1 DEF Alerted
  <2> QED
    BY <2>3, <2>4
<1>6. a \notin Completed /\ Completed' = Completed \cup {a}
  BY <1>r DEF Completed
<1> QED
  BY <1>1, <1>2, <1>3, <1>4, <1>5, <1>6 DEF Record!Answer

\* The row of a submission is a question that is put.
LEMMA AskStep ==
  ASSUME AnalysisTypeOK, NEW a \in Analyses, NEW y \in QueuedRow, row[a] = NoRow,
         row' = [row EXCEPT ![a] = y], UNCHANGED <<result, alert>>
  PROVE  Record!Ask(a)
<1> DEFINE q == [content |-> y.content, context |-> y.context]
<1>r. /\ y \in Row /\ y # NoRow /\ y.status = "queued"
      /\ \A b \in Analyses : row'[b] = IF b = a THEN y ELSE row[b]
  BY RowsAreNotNone DEF AnalysisTypeOK, QueuedRow
<1>1. q \in DOMAIN AnswersTo
  BY <1>r DEF Row, Questions, AnswersTo
<1>2. Asked[a] = NoRow
  BY DEF Asked
<1>3. Asked' = [Asked EXCEPT ![a] = q]
  BY <1>r DEF Asked
<1>4. Completed' = Completed
  BY <1>r DEF Completed, NoRow
<1>5. Alerted' = Alerted
  BY DEF Alerted
<1> QED
  BY <1>1, <1>2, <1>3, <1>4, <1>5 DEF Record!Ask

LEMMA RecordBegins == AnalysisInit => Record!Init
<1> SUFFICES ASSUME AnalysisInit PROVE Record!Init
  OBVIOUS
<1>1. Asked = [a \in Analyses |-> NoRow]
  BY DEF AnalysisInit, Asked
<1>2. Completed = {}
  BY DEF AnalysisInit, Completed, NoRow
<1>3. Alerted = {}
  BY AnalysisAssumption DEF AnalysisInit, Alerted
<1> QED
  BY <1>1, <1>2, <1>3 DEF Record!Init, AnalysisInit

LEMMA RecordGoesOn ==
  AnalysisInv /\ [AnalysisNext]_analysisVars => [Record!Next]_(Record!rvars)
<1> DEFINE Steps == [Record!Next]_(Record!rvars)
<1> SUFFICES ASSUME AnalysisInv, [AnalysisNext]_analysisVars PROVE Steps
  OBVIOUS
<1>t. AnalysisTypeOK /\ IdsApart /\ FoundAlertsStay /\ JobsOnce /\ OutcomesFound
  BY DEF AnalysisInv
<1>0. ASSUME UNCHANGED db PROVE Steps
  BY <1>0 DEF db, Asked, Completed, Alerted, Record!rvars
<1>a. ASSUME NEW a \in Analyses, Record!Ask(a) \/ Record!Answer(a) PROVE Steps
  BY <1>a DEF Record!Next
<1>1. ASSUME NEW r \in Submissions, SubmitCommit(r) PROVE Steps
  <2>1. Submits(r)
    BY <1>1 DEF SubmitCommit, Submits
  <2>2. /\ submission[r].id \in Analyses /\ submission[r].row \in QueuedRow
        /\ row[submission[r].id] = NoRow
    BY <1>t, <2>1, SubmissionKinds DEF IdsApart
  <2>3. Record!Ask(submission[r].id)
    BY <1>t, <1>1, <2>2, AskStep DEF SubmitCommit
  <2> QED
    BY <1>a, <2>2, <2>3
<1>2. ASSUME NEW r \in Submissions, SubmitFinished(r) PROVE Steps
  <2> DEFINE a == submission[r].id
             x == submission[r].outcome
             y == [submission[r].row EXCEPT !.status = "completed"]
  <2>1. CASE UNCHANGED db
    BY <1>0, <2>1
  <2>2. CASE row' = [row EXCEPT ![a] = y] /\ Commits(a, x)
    <3>1. submission[r] \in Finishing /\ submission[r].at = "finishing" /\ Submits(r)
      BY <1>t, <1>2, SubmissionKinds DEF SubmitFinished, Submits
    <3>2. a \in Analyses /\ x \in Outcomes /\ submission[r].row \in Row /\ row[a] = NoRow
      BY <1>t, <3>1 DEF Finishing, QueuedRow, IdsApart
    <3>3. /\ y \in Row /\ y.status = "completed"
          /\ y.content = submission[r].row.content /\ y.context = submission[r].row.context
      BY <3>2, CompletedRow
    <3>4. /\ x.finding = Found[y.content.whole][y.context]
          /\ x.how = "found" => alert[a] # "none"
      BY <1>t, <3>1, <3>3 DEF OutcomesFound, FoundAlertsStay
    <3>5. row[a].status # "completed"
      BY <3>2 DEF NoRow
    <3> HIDE DEF a, x, y
    <3>6. Record!Answer(a)
      BY <1>t, <2>2, <3>2, <3>3, <3>4, <3>5, AnswerStep
    <3> QED
      BY <1>a, <3>2, <3>6
  <2> QED
    BY <1>2, <2>1, <2>2 DEF SubmitFinished
<1>3. ASSUME NEW w \in Workers, Finish(w) PROVE Steps
  <2> DEFINE a == work[w].id
             x == work[w].outcome
             y == [row[a] EXCEPT !.status = "completed"]
  <2>1. CASE UNCHANGED db
    BY <1>0, <2>1
  <2>2. CASE row' = [row EXCEPT ![a] = y] /\ Commits(a, x)
    <3>1. work[w] \in Worked /\ work[w] # AtRest /\ work[w].at = "worked"
      BY <1>t, <1>3, WorkKinds DEF Finish
    <3>2. a \in Analyses /\ x \in Outcomes
      BY <3>1 DEF Worked
    <3>3. row[a] \in Row /\ row[a].status # "completed"
      BY <1>t, <3>1, <3>2, RowKinds DEF IdsApart, JobsOnce
    <3>4. /\ y \in Row /\ y.status = "completed"
          /\ y.content = row[a].content /\ y.context = row[a].context
      BY <3>3, CompletedRow
    <3>5. /\ x.finding = Found[y.content.head][y.context]
          /\ x.how = "found" => alert[a] # "none"
      BY <1>t, <3>1, <3>4 DEF OutcomesFound, FoundAlertsStay
    <3> HIDE DEF a, x, y
    <3>6. Record!Answer(a)
      BY <1>t, <2>2, <3>2, <3>3, <3>4, <3>5, AnswerStep
    <3> QED
      BY <1>a, <3>2, <3>6
  <2> QED
    BY <1>3, <2>1, <2>2 DEF Finish
<1>4. ASSUME NEW r \in Submissions, SubmitBegin(r) \/ SubmitCutShort(r) PROVE Steps
  BY <1>4, <1>0 DEF SubmitBegin, SubmitCutShort
<1>5. ASSUME NEW w \in Workers, Take(w) \/ Analyse(w) \/ Crash(w) PROVE Steps
  BY <1>5, <1>0 DEF Take, Analyse, Crash
<1>6. ASSUME NEW v \in Watchers, Look(v) \/ Listen(v) \/ GiveUp(v) PROVE Steps
  BY <1>6, <1>0 DEF Look, Listen, GiveUp
<1>7. CASE AnalystWrites
  <2>1. Alerted' \in SUBSET Analyses /\ Alerted \subseteq Alerted'
    BY <1>t, AlertsStay, AnalysisAssumption DEF Alerted
  <2>2. UNCHANGED <<Asked, result, Completed>>
    BY <1>7 DEF AnalystWrites, Asked, Completed
  <2> QED
    BY <2>1, <2>2 DEF Record!Next, Record!Alert
<1>8. CASE UNCHANGED analysisVars
  BY <1>8, <1>0 DEF analysisVars
<1> QED
  BY <1>1, <1>2, <1>3, <1>4, <1>5, <1>6, <1>7, <1>8 DEF AnalysisNext

\* The queue, its workers and the submissions that run the pipeline themselves
\* implement the record: whatever is queued twice, lost, cut short or run side by
\* side, an analysis is answered at most once, from the content that it was
\* submitted with, and its status, result and alert appear in one step and stay
\* (run_pipeline, submit_analysis).
THEOREM AnalysesKept == AnalysisSpec => ImplementsRecord
BY AnalysisInvariance, RecordBegins, RecordGoesOn, PTL
   DEF AnalysisSpec, ImplementsRecord, Record!Spec

-----------------------------------------------------------------------------
(* The accounts: the inductive invariant. *)

AccountRow == [org : Organizations, mail : Address, role : Role, active : BOOLEAN]
TokenRow == [owner : Accounts, first : Tokens, is : {"live", "revoked", "expired"}]

SmallAddress == {a \in Address : a.small}

Registering == [at : {"registering"}, org : Organizations, founds : BOOLEAN,
                mail : SmallAddress, role : Role]
LoggingIn   == [at : {"login"}, user : Accounts]
Refreshing  == [at : {"refresh"}, token : Tokens]
Updating    == [at : {"updating"}, user : Accounts, seen : AccountRow, wanted : AccountRow]

AccountsTypeOK ==
  /\ organization \subseteq Organizations
  /\ user \in [Accounts -> AccountRow \cup {NoUser}]
  /\ token \in [Tokens -> TokenRow \cup {NoToken}]
  /\ doing \in [Clients -> {Nothing} \cup Registering \cup LoggingIn \cup Refreshing \cup Updating]
  /\ rewritten \subseteq Accounts
  /\ raced \subseteq Tokens

\* What a request in flight is about has a row, and rows are never deleted; a session
\* began with a token that was issued.
AboutRows ==
  /\ \A r \in Clients :
       /\ doing[r].at \in {"login", "updating"} => doing[r].user \in Known
       /\ doing[r].at = "refresh" => doing[r].token \in Issued
  /\ \A t \in Issued : token[t].first \in Issued
  /\ raced \subseteq Issued

\* The unique constraint on the addresses.
AddressesApart == \A u, v \in Known : user[u].mail = user[v].mail => u = v

\* Registration stores small letters, and only an admin's change stores others.
SmallUnlessRewritten == \A u \in Known \ rewritten : user[u].mail.small

\* Two tokens of a session that are not revoked come from overlapping exchanges.  An
\* expired token counts: a request that read it alive may still exchange it.
OneUsable ==
  \A p, q \in Issued :
    p # q /\ token[p].first = token[q].first
      /\ token[p].is # "revoked" /\ token[q].is # "revoked" =>
      \E x \in raced : token[x].first = token[p].first

AccountsInv ==
  /\ AccountsTypeOK /\ AboutRows
  /\ AddressesApart /\ SmallUnlessRewritten
  /\ OneUsable

-----------------------------------------------------------------------------
(* The accounts: rows. *)

LEMMA RowsAreThere ==
  /\ \A x \in AccountRow : x # NoUser
  /\ \A x \in TokenRow : x # NoToken
<1>1. \A x \in AccountRow : x # NoUser
  BY DEF AccountRow, Role, NoUser
<1>2. ASSUME NEW x \in TokenRow PROVE x # NoToken
  <2>1. "first" \in DOMAIN x
    BY DEF TokenRow
  <2>2. "first" \notin DOMAIN NoToken
    BY DEF NoToken
  <2> QED
    BY <2>1, <2>2
<1> QED
  BY <1>1, <1>2

LEMMA KnownRows ==
  ASSUME AccountsTypeOK
  PROVE  /\ \A u \in Known : u \in Accounts /\ user[u] \in AccountRow
         /\ \A t \in Issued : t \in Tokens /\ token[t] \in TokenRow
BY DEF AccountsTypeOK, Known, Issued

LEMMA DoingKinds ==
  ASSUME AccountsTypeOK, NEW r \in Clients
  PROVE  /\ doing[r].at = "registering" => doing[r] \in Registering
         /\ doing[r].at = "login" => doing[r] \in LoggingIn
         /\ doing[r].at = "refresh" => doing[r] \in Refreshing
         /\ doing[r].at = "updating" => doing[r] \in Updating
BY DEF AccountsTypeOK, Nothing, Registering, LoggingIn, Refreshing, Updating

\* Small letters are stored as they are looked up.
LEMMA LowerSmall ==
  ASSUME NEW a \in Address
  PROVE  /\ Lower(a) \in SmallAddress
         /\ a.small => Lower(a) = a
BY DEF Lower, Address, SmallAddress

\* A form filled in is a row, of the organization that it was.
LEMMA FilledInRows ==
  ASSUME NEW form \in Forms, NEW x \in AccountRow
  PROVE  FilledIn(form, x) \in AccountRow
<1> DEFINE y == FilledIn(form, x)
<1>1. DOMAIN x = {"org", "mail", "role", "active"}
  BY DEF AccountRow
<1>2. y = [c \in {"org", "mail", "role", "active"} |->
             IF c \in DOMAIN form THEN form[c] ELSE x[c]]
  BY <1>1 DEF FilledIn
<1>3. y["org"] \in Organizations /\ y["mail"] \in Address
  BY <1>2, AccountsAssumption DEF AccountRow
<1>4. y["role"] \in Role /\ y["active"] \in BOOLEAN
  BY <1>2, AccountsAssumption DEF AccountRow
<1> HIDE DEF y
<1>5. y \in [org : Organizations, mail : Address, role : Role, active : BOOLEAN]
  BY <1>2, <1>3, <1>4
<1> QED
  BY <1>5 DEF AccountRow, y

\* What an update writes is a row; it activates an account only if the admin had
\* seen it inactive.
LEMMA ChangedColumnsRows ==
  ASSUME NEW r \in Clients, doing[r] \in Updating, user[doing[r].user] \in AccountRow
  PROVE  /\ ChangedColumns(r) \in AccountRow
         /\ ChangedColumns(r).active /\ ~user[doing[r].user].active => ~doing[r].seen.active
<1> DEFINE y == ChangedColumns(r)
           d == doing[r]
           x == user[doing[r].user]
<1>1. d.wanted \in AccountRow /\ d.seen \in AccountRow /\ x \in AccountRow
  BY DEF Updating
<1>2. DOMAIN d.wanted = {"org", "mail", "role", "active"}
  BY <1>1 DEF AccountRow
<1>3. y = [c \in {"org", "mail", "role", "active"} |->
             IF d.wanted[c] # d.seen[c] THEN d.wanted[c] ELSE x[c]]
  BY <1>2 DEF ChangedColumns
<1>4. /\ y["org"] \in Organizations /\ y["mail"] \in Address
      /\ y["role"] \in Role /\ y["active"] \in BOOLEAN
      /\ y["active"] = IF d.wanted["active"] # d.seen["active"] THEN d.wanted["active"]
                       ELSE x["active"]
  <2> HIDE DEF y, d, x
  <2> QED
    BY <1>1, <1>3 DEF AccountRow
<1> HIDE DEF y, d, x
<1>5. y \in [org : Organizations, mail : Address, role : Role, active : BOOLEAN]
  BY <1>3, <1>4
<1>6. y.active /\ ~x.active => ~d.seen.active
  BY <1>1, <1>4, <1>5 DEF AccountRow
<1> QED
  BY <1>5, <1>6 DEF AccountRow, y, d, x

-----------------------------------------------------------------------------
(* The accounts: what a step does to each table. *)

\* What a request is doing after a step.
LEMMA DoingAfter ==
  ASSUME AccountsTypeOK, [AccountsNext]_accountVars, NEW r \in Clients
  PROVE  \/ doing'[r] = doing[r]
         \/ doing'[r] = Nothing
         \/ doing'[r] \in Registering
         \/ doing'[r] \in LoggingIn /\ doing'[r].user \in Known
         \/ doing'[r] \in Refreshing /\ doing'[r].token \in Issued
         \/ doing'[r] \in Updating /\ doing'[r].user \in Known
<1> DEFINE After ==
         \/ doing'[r] = doing[r]
         \/ doing'[r] = Nothing
         \/ doing'[r] \in Registering
         \/ doing'[r] \in LoggingIn /\ doing'[r].user \in Known
         \/ doing'[r] \in Refreshing /\ doing'[r].token \in Issued
         \/ doing'[r] \in Updating /\ doing'[r].user \in Known
<1>0. ASSUME NEW q \in Clients, NEW what, Begins(q, what) PROVE doing'[r] \in {doing[r], what}
  BY <1>0 DEF Begins, AccountsTypeOK
<1>1. ASSUME NEW q \in Clients, RegisterBegin(q) PROVE After
  <2>1. PICK o \in Organizations, a \in Address, as \in Role :
          Begins(q, [at |-> "registering", org |-> o, founds |-> Founds(o),
                     mail |-> StoredAddress(a), role |-> as])
    BY <1>1 DEF RegisterBegin
  <2>2. Founds(o) \in BOOLEAN /\ StoredAddress(a) \in SmallAddress
    BY LowerSmall DEF Founds, StoredAddress
  <2>3. ASSUME NEW founds \in BOOLEAN, NEW m \in SmallAddress
        PROVE  [at |-> "registering", org |-> o, founds |-> founds,
                mail |-> m, role |-> as] \in Registering
    BY DEF Registering
  <2>4. [at |-> "registering", org |-> o, founds |-> Founds(o),
         mail |-> StoredAddress(a), role |-> as] \in Registering
    BY <2>2, <2>3
  <2> QED
    BY <2>1, <2>4, <1>0
<1>2. ASSUME NEW q \in Clients, LoginBegin(q) PROVE After
  <2>1. PICK u \in Known : Begins(q, [at |-> "login", user |-> u])
    BY <1>2 DEF LoginBegin, Named
  <2>2. [at |-> "login", user |-> u] \in LoggingIn
    BY KnownRows DEF LoggingIn
  <2> QED
    BY <2>1, <2>2, <1>0
<1>3. ASSUME NEW q \in Clients, RefreshBegin(q) PROVE After
  <2>1. PICK t \in Issued : Begins(q, [at |-> "refresh", token |-> t])
    BY <1>3 DEF RefreshBegin, Live
  <2>2. [at |-> "refresh", token |-> t] \in Refreshing
    BY KnownRows DEF Refreshing
  <2> QED
    BY <2>1, <2>2, <1>0
<1>4. ASSUME NEW q \in Clients, UpdateBegin(q) PROVE After
  <2>1. PICK u \in Known, form \in Forms :
          Begins(q, [at |-> "updating", user |-> u, seen |-> user[u],
                     wanted |-> FilledIn(form, user[u])])
    BY <1>4 DEF UpdateBegin
  <2>2. u \in Accounts /\ user[u] \in AccountRow /\ FilledIn(form, user[u]) \in AccountRow
    BY KnownRows, FilledInRows
  <2>3. ASSUME NEW s \in AccountRow, NEW w \in AccountRow
        PROVE  [at |-> "updating", user |-> u, seen |-> s, wanted |-> w] \in Updating
    BY <2>2 DEF Updating
  <2>4. [at |-> "updating", user |-> u, seen |-> user[u],
         wanted |-> FilledIn(form, user[u])] \in Updating
    BY <2>2, <2>3
  <2> QED
    BY <2>1, <2>4, <1>0
<1>5. ASSUME NEW q \in Clients, RegisterCommit(q) \/ LoginCommit(q) \/ RefreshCommit(q)
                                \/ UpdateCommit(q) \/ RollBack(q)
      PROVE  After
  <2>1. Returns(q)
    BY <1>5 DEF RegisterCommit, LoginCommit, RefreshCommit, UpdateCommit, RollBack
  <2> QED
    BY <2>1 DEF Returns, AccountsTypeOK
<1>6. CASE Expire \/ UNCHANGED accountVars
  BY <1>6 DEF Expire, accountVars
<1> QED
  BY <1>1, <1>2, <1>3, <1>4, <1>5, <1>6 DEF AccountsNext

\* The table of the users after a step: as it was, with a row for an account that had
\* none, or with one row changed by an update.
LEMMA UsersAfter ==
  ASSUME AccountsTypeOK, AboutRows, [AccountsNext]_accountVars
  PROVE  \/ user' = user /\ rewritten' = rewritten
         \/ \E u \in Accounts \ Known, x \in AccountRow :
              /\ user' = [user EXCEPT ![u] = x] /\ rewritten' = rewritten
              /\ x.mail.small
              /\ \A v \in Known : user[v].mail # x.mail
         \/ \E u \in Known, x \in AccountRow :
              /\ user' = [user EXCEPT ![u] = x]
              /\ rewritten' = IF x.mail # user[u].mail THEN rewritten \cup {u} ELSE rewritten
              /\ \A v \in Known \ {u} : user[v].mail # x.mail
              /\ x.active /\ ~user[u].active =>
                   \E r \in Clients : /\ doing[r].at = "updating" /\ doing[r].user = u
                                      /\ ~doing[r].seen.active
<1> DEFINE New ==
           \E u \in Accounts \ Known, x \in AccountRow :
              /\ user' = [user EXCEPT ![u] = x] /\ rewritten' = rewritten
              /\ x.mail.small
              /\ \A v \in Known : user[v].mail # x.mail
           Updated ==
           \E u \in Known, x \in AccountRow :
              /\ user' = [user EXCEPT ![u] = x]
              /\ rewritten' = IF x.mail # user[u].mail THEN rewritten \cup {u} ELSE rewritten
              /\ \A v \in Known \ {u} : user[v].mail # x.mail
              /\ x.active /\ ~user[u].active =>
                   \E r \in Clients : /\ doing[r].at = "updating" /\ doing[r].user = u
                                      /\ ~doing[r].seen.active
           Same == user' = user /\ rewritten' = rewritten
<1>1. ASSUME NEW r \in Clients, RegisterCommit(r) PROVE Same \/ New
  <2>1. CASE UNCHANGED user
    BY <2>1, <1>1 DEF RegisterCommit
  <2>2. CASE user' # user
    <3>1. PICK u \in Accounts \ Known :
            /\ Admitted(r)
            /\ user' = [user EXCEPT ![u] = [org |-> doing[r].org, mail |-> doing[r].mail,
                                            role |-> doing[r].role, active |-> TRUE]]
      BY <1>1, <2>2 DEF RegisterCommit
    <3>2. doing[r] \in Registering
      BY <1>1, DoingKinds DEF RegisterCommit
    <3>3. /\ doing[r].org \in Organizations /\ doing[r].mail \in SmallAddress
          /\ doing[r].role \in Role
      BY <3>2 DEF Registering
    <3>4. ASSUME NEW o \in Organizations, NEW m \in SmallAddress, NEW as \in Role
          PROVE  /\ [org |-> o, mail |-> m, role |-> as, active |-> TRUE] \in AccountRow
                 /\ [org |-> o, mail |-> m, role |-> as, active |-> TRUE].mail = m
                 /\ m.small
      BY DEF AccountRow, SmallAddress
    <3> DEFINE x == [org |-> doing[r].org, mail |-> doing[r].mail,
                     role |-> doing[r].role, active |-> TRUE]
    <3>5. x \in AccountRow /\ x.mail = doing[r].mail /\ x.mail.small
      BY <3>3, <3>4
    <3>6. user' = [user EXCEPT ![u] = x] /\ rewritten' = rewritten
      BY <3>1, <1>1 DEF RegisterCommit
    <3> HIDE DEF x
    <3>7. \A v \in Known : user[v].mail # x.mail
      BY <3>1, <3>5 DEF Admitted
    <3> QED
      BY <3>5, <3>6, <3>7
  <2> QED
    BY <2>1, <2>2
<1>2. ASSUME NEW r \in Clients, UpdateCommit(r) PROVE Same \/ Updated
  <2>1. doing[r] \in Updating /\ doing[r].user \in Known
    BY <1>2, DoingKinds DEF UpdateCommit, AboutRows
  <2>2. user[doing[r].user] \in AccountRow
    BY <2>1, KnownRows
  <2>3. /\ ChangedColumns(r) \in AccountRow
        /\ ChangedColumns(r).active /\ ~user[doing[r].user].active => ~doing[r].seen.active
    BY <2>1, <2>2, ChangedColumnsRows
  <2>4. CASE UNCHANGED <<user, rewritten>>
    BY <2>4
  <2>5. CASE /\ \A v \in Known \ {doing[r].user} : user[v].mail # ChangedColumns(r).mail
             /\ user' = [user EXCEPT ![doing[r].user] = ChangedColumns(r)]
             /\ rewritten' = IF ChangedColumns(r).mail # user[doing[r].user].mail
                               THEN rewritten \cup {doing[r].user} ELSE rewritten
    <3>1. doing[r].at = "updating"
      BY <1>2 DEF UpdateCommit
    <3>2. PICK x \in AccountRow : x = ChangedColumns(r)
      BY <2>3
    <3>3. PICK u \in Known : u = doing[r].user
      BY <2>1
    <3>4. /\ \A v \in Known \ {u} : user[v].mail # x.mail
          /\ user' = [user EXCEPT ![u] = x]
          /\ rewritten' = IF x.mail # user[u].mail THEN rewritten \cup {u} ELSE rewritten
      BY <2>5, <3>2, <3>3
    <3>5. x.active /\ ~user[u].active =>
            \E q \in Clients : /\ doing[q].at = "updating" /\ doing[q].user = u
                               /\ ~doing[q].seen.active
      BY <2>3, <3>1, <3>2, <3>3
    <3> QED
      BY <3>4, <3>5
  <2> QED
    BY <1>2, <2>4, <2>5 DEF UpdateCommit
<1>3. ASSUME NEW r \in Clients,
             \/ RegisterBegin(r) \/ LoginBegin(r) \/ LoginCommit(r) \/ RefreshBegin(r)
             \/ RefreshCommit(r) \/ UpdateBegin(r) \/ RollBack(r)
      PROVE  Same
  BY <1>3 DEF RegisterBegin, LoginBegin, LoginCommit, RefreshBegin, RefreshCommit,
     UpdateBegin, RollBack
<1>4. ASSUME Expire \/ UNCHANGED accountVars PROVE Same
  BY <1>4 DEF Expire, accountVars
<1> HIDE DEF Same, New, Updated
<1>5. Same \/ New \/ Updated
  BY <1>1, <1>2, <1>3, <1>4 DEF AccountsNext, Same
<1> QED
  BY <1>5 DEF Same, New, Updated

\* The table of the tokens after a step: as it was, with a token that begins a session,
\* with one exchanged for another, or with one expired.
LEMMA TokensAfter ==
  ASSUME AccountsTypeOK, AboutRows, [AccountsNext]_accountVars
  PROVE  \/ token' = token /\ raced' = raced
         \/ \E t \in Tokens \ Issued, u \in Accounts :
              token' = [token EXCEPT ![t] = Issue(u, t)] /\ raced' = raced
         \/ \E t \in Tokens \ Issued, old \in Issued :
              /\ token' = [token EXCEPT ![old] = Revoked(old),
                                        ![t] = Issue(token[old].owner, token[old].first)]
              /\ raced' = IF token[old].is = "revoked" THEN raced \cup {old} ELSE raced
         \/ \E t \in Live : token' = [token EXCEPT ![t].is = "expired"] /\ raced' = raced
<1>1. ASSUME NEW r \in Clients, RegisterCommit(r)
      PROVE  \/ token' = token /\ raced' = raced
             \/ \E t \in Tokens \ Issued, u \in Accounts :
                  token' = [token EXCEPT ![t] = Issue(u, t)] /\ raced' = raced
  BY <1>1 DEF RegisterCommit
<1>2. ASSUME NEW r \in Clients, LoginCommit(r)
      PROVE  \E t \in Tokens \ Issued, u \in Accounts :
               token' = [token EXCEPT ![t] = Issue(u, t)] /\ raced' = raced
  <2>1. doing[r].user \in Accounts
    BY <1>2, DoingKinds DEF LoginCommit, LoggingIn
  <2> QED
    BY <1>2, <2>1 DEF LoginCommit
<1>3. ASSUME NEW r \in Clients, RefreshCommit(r)
      PROVE  \E t \in Tokens \ Issued, old \in Issued :
              /\ token' = [token EXCEPT ![old] = Revoked(old),
                                        ![t] = Issue(token[old].owner, token[old].first)]
              /\ raced' = IF token[old].is = "revoked" THEN raced \cup {old} ELSE raced
  <2>1. doing[r].token \in Issued
    BY <1>3 DEF RefreshCommit, AboutRows
  <2> QED
    BY <1>3, <2>1 DEF RefreshCommit
<1>4. ASSUME NEW r \in Clients,
             \/ RegisterBegin(r) \/ LoginBegin(r) \/ RefreshBegin(r)
             \/ UpdateBegin(r) \/ UpdateCommit(r) \/ RollBack(r)
      PROVE  token' = token /\ raced' = raced
  BY <1>4 DEF RegisterBegin, LoginBegin, RefreshBegin, UpdateBegin, UpdateCommit, RollBack
<1>5. CASE Expire
  BY <1>5 DEF Expire
<1>6. CASE UNCHANGED accountVars
  BY <1>6 DEF accountVars
<1> QED
  BY <1>1, <1>2, <1>3, <1>4, <1>5, <1>6 DEF AccountsNext

-----------------------------------------------------------------------------
(* The accounts: the invariant is kept. *)

\* Rows are never deleted, and the session of a token stays what it is.
LEMMA AccountRowsStay ==
  ASSUME AccountsTypeOK, AboutRows, [AccountsNext]_accountVars
  PROVE  /\ Known \subseteq Known'
         /\ \A t \in Issued : t \in Issued' /\ token'[t].first = token[t].first
<1>1. ASSUME NEW u \in Known PROVE u \in Known'
  <2>1. u \in Accounts /\ user[u] # NoUser
    BY DEF Known
  <2>2. user'[u] # NoUser
    BY <2>1, UsersAfter, RowsAreThere DEF AccountsTypeOK
  <2> QED
    BY <2>1, <2>2 DEF Known
<1>2. ASSUME NEW t \in Issued PROVE t \in Issued' /\ token'[t].first = token[t].first
  <2>1. t \in Tokens /\ token[t] \in TokenRow
    BY KnownRows
  <2>2. ASSUME NEW x \in TokenRow, NEW is \in {"revoked", "expired"}
        PROVE  [x EXCEPT !.is = is] \in TokenRow /\ [x EXCEPT !.is = is].first = x.first
    BY DEF TokenRow
  <2>3. token'[t] \in TokenRow /\ token'[t].first = token[t].first
    <3>1. \/ token'[t] = token[t]
          \/ \E is \in {"revoked", "expired"} : token'[t] = [token[t] EXCEPT !.is = is]
      BY <2>1, TokensAfter DEF AccountsTypeOK, Revoked, Live
    <3> QED
      BY <2>1, <2>2, <3>1
  <2> QED
    BY <2>1, <2>3, RowsAreThere DEF Issued
<1> QED
  BY <1>1, <1>2

LEMMA AccountsTypeStep ==
  AccountsTypeOK /\ AboutRows /\ [AccountsNext]_accountVars => AccountsTypeOK'
<1> SUFFICES ASSUME AccountsTypeOK, AboutRows, [AccountsNext]_accountVars
             PROVE  AccountsTypeOK'
  OBVIOUS
<1>1. organization' \subseteq Organizations
  <2>1. ASSUME NEW r \in Clients, RegisterCommit(r) PROVE organization' \subseteq Organizations
    <3>1. doing[r].org \in Organizations
      BY <2>1, DoingKinds DEF RegisterCommit, Registering
    <3> QED
      BY <2>1, <3>1 DEF RegisterCommit, Founded, AccountsTypeOK
  <2>2. ASSUME NEW r \in Clients,
               \/ RegisterBegin(r) \/ LoginBegin(r) \/ LoginCommit(r) \/ RefreshBegin(r)
               \/ RefreshCommit(r) \/ UpdateBegin(r) \/ UpdateCommit(r) \/ RollBack(r)
        PROVE  organization' = organization
    BY <2>2 DEF RegisterBegin, LoginBegin, LoginCommit, RefreshBegin, RefreshCommit,
       UpdateBegin, UpdateCommit, RollBack
  <2>3. ASSUME Expire \/ UNCHANGED accountVars PROVE organization' = organization
    BY <2>3 DEF Expire, accountVars
  <2> QED
    BY <2>1, <2>2, <2>3 DEF AccountsNext, AccountsTypeOK
<1>2. user' \in [Accounts -> AccountRow \cup {NoUser}] /\ rewritten' \subseteq Accounts
  BY UsersAfter, KnownRows DEF AccountsTypeOK
<1>3. token' \in [Tokens -> TokenRow \cup {NoToken}] /\ raced' \subseteq Tokens
  <2>1. ASSUME NEW x \in TokenRow, NEW is \in {"revoked", "expired"}
        PROVE  [x EXCEPT !.is = is] \in TokenRow
    BY DEF TokenRow
  <2>2. ASSUME NEW u \in Accounts, NEW t \in Tokens PROVE Issue(u, t) \in TokenRow
    BY DEF TokenRow, Issue
  <2>3. \A t \in Issued : /\ t \in Tokens /\ token[t] \in TokenRow /\ Revoked(t) \in TokenRow
                          /\ token[t].owner \in Accounts /\ token[t].first \in Tokens
    BY <2>1, KnownRows DEF Revoked, TokenRow
  <2>4. CASE token' = token /\ raced' = raced
    BY <2>4 DEF AccountsTypeOK
  <2>5. CASE \E t \in Tokens \ Issued, u \in Accounts :
               token' = [token EXCEPT ![t] = Issue(u, t)] /\ raced' = raced
    BY <2>2, <2>5 DEF AccountsTypeOK
  <2>6. CASE \E t \in Tokens \ Issued, old \in Issued :
               /\ token' = [token EXCEPT ![old] = Revoked(old),
                                         ![t] = Issue(token[old].owner, token[old].first)]
               /\ raced' = IF token[old].is = "revoked" THEN raced \cup {old} ELSE raced
    BY <2>2, <2>3, <2>6 DEF AccountsTypeOK
  <2>7. CASE \E t \in Live : token' = [token EXCEPT ![t].is = "expired"] /\ raced' = raced
    <3>1. PICK t \in Issued :
            token' = [token EXCEPT ![t] = [token[t] EXCEPT !.is = "expired"]] /\ raced' = raced
      BY <2>7 DEF Live
    <3>2. [token[t] EXCEPT !.is = "expired"] \in TokenRow
      BY <2>1, <2>3
    <3> QED
      BY <3>1, <3>2 DEF AccountsTypeOK
  <2> QED
    BY <2>4, <2>5, <2>6, <2>7, TokensAfter
<1>4. doing' \in [Clients -> {Nothing} \cup Registering \cup LoggingIn \cup Refreshing \cup Updating]
  <2>1. ASSUME NEW r \in Clients
        PROVE  doing'[r] \in {Nothing} \cup Registering \cup LoggingIn \cup Refreshing \cup Updating
    BY DoingAfter DEF AccountsTypeOK
  <2>2. \E f : doing' = [r \in Clients |-> f[r]]
    <3>1. ASSUME NEW r \in Clients, NEW what, doing' = [doing EXCEPT ![r] = what]
          PROVE  doing' = [q \in Clients |-> doing'[q]]
      BY <3>1 DEF AccountsTypeOK
    <3>2. ASSUME doing' = doing PROVE doing' = [q \in Clients |-> doing'[q]]
      BY <3>2 DEF AccountsTypeOK
    <3>3. ASSUME NEW r \in Clients,
                 RegisterBegin(r) \/ LoginBegin(r) \/ RefreshBegin(r) \/ UpdateBegin(r)
          PROVE  doing' = [q \in Clients |-> doing'[q]]
      BY <3>1, <3>3 DEF RegisterBegin, LoginBegin, RefreshBegin, UpdateBegin, Begins
    <3>4. ASSUME NEW r \in Clients,
                 RegisterCommit(r) \/ LoginCommit(r) \/ RefreshCommit(r) \/ UpdateCommit(r)
                 \/ RollBack(r)
          PROVE  doing' = [q \in Clients |-> doing'[q]]
      BY <3>1, <3>4 DEF RegisterCommit, LoginCommit, RefreshCommit, UpdateCommit, RollBack,
         Returns
    <3>5. ASSUME Expire \/ UNCHANGED accountVars PROVE doing' = [q \in Clients |-> doing'[q]]
      BY <3>2, <3>5 DEF Expire, accountVars
    <3>6. doing' = [q \in Clients |-> doing'[q]]
      BY <3>3, <3>4, <3>5 DEF AccountsNext
    <3> QED
      BY <3>6
  <2> QED
    BY <2>1, <2>2
<1> QED
  BY <1>1, <1>2, <1>3, <1>4 DEF AccountsTypeOK

LEMMA AboutRowsStep ==
  AccountsTypeOK /\ AboutRows /\ [AccountsNext]_accountVars => AboutRows'
<1> SUFFICES ASSUME AccountsTypeOK, AboutRows, [AccountsNext]_accountVars PROVE AboutRows'
  OBVIOUS
<1>0. Known \subseteq Known' /\ Issued \subseteq Issued'
  BY AccountRowsStay
<1>1. ASSUME NEW r \in Clients
      PROVE  /\ doing'[r].at \in {"login", "updating"} => doing'[r].user \in Known'
             /\ doing'[r].at = "refresh" => doing'[r].token \in Issued'
  <2>1. CASE doing'[r] = doing[r]
    BY <2>1, <1>0 DEF AboutRows
  <2>2. CASE doing'[r] = Nothing \/ doing'[r] \in Registering
    BY <2>2 DEF Nothing, Registering
  <2>3. CASE doing'[r] \in LoggingIn /\ doing'[r].user \in Known
    BY <2>3, <1>0 DEF LoggingIn
  <2>4. CASE doing'[r] \in Refreshing /\ doing'[r].token \in Issued
    BY <2>4, <1>0 DEF Refreshing
  <2>5. CASE doing'[r] \in Updating /\ doing'[r].user \in Known
    BY <2>5, <1>0 DEF Updating
  <2> QED
    BY <2>1, <2>2, <2>3, <2>4, <2>5, DoingAfter
<1>2. ASSUME NEW p \in Issued' PROVE token'[p].first \in Issued'
  <2>1. CASE p \in Issued
    BY <2>1, <1>0, AccountRowsStay DEF AboutRows
  <2>2. CASE p \notin Issued
    <3>1. p \in Tokens /\ token[p] = NoToken /\ token'[p] # token[p]
      BY <2>2, <1>2 DEF Issued
    <3>2. token'[p].first = p \/ \E old \in Issued : token'[p].first = token[old].first
      <4>1. CASE \E t \in Tokens \ Issued, u \in Accounts : token' = [token EXCEPT ![t] = Issue(u, t)]
        BY <3>1, <4>1 DEF Issue, AccountsTypeOK
      <4>2. CASE \E t \in Tokens \ Issued, old \in Issued :
                   token' = [token EXCEPT ![old] = Revoked(old),
                                          ![t] = Issue(token[old].owner, token[old].first)]
        BY <2>2, <3>1, <4>2 DEF Issue, AccountsTypeOK
      <4>3. CASE \E t \in Live : token' = [token EXCEPT ![t].is = "expired"]
        BY <2>2, <3>1, <4>3 DEF AccountsTypeOK, Live
      <4> QED
        BY <3>1, <4>1, <4>2, <4>3, TokensAfter
    <3> QED
      BY <3>2, <1>0, <1>2 DEF AboutRows
  <2> QED
    BY <2>1, <2>2
<1>3. raced' \subseteq Issued'
  BY <1>0, TokensAfter DEF AboutRows
<1> QED
  BY <1>1, <1>2, <1>3 DEF AboutRows

LEMMA AddressesStep ==
  /\ AccountsTypeOK /\ AboutRows /\ AddressesApart /\ SmallUnlessRewritten
  /\ [AccountsNext]_accountVars
  => AddressesApart' /\ SmallUnlessRewritten'
<1> SUFFICES ASSUME AccountsTypeOK, AboutRows, AddressesApart, SmallUnlessRewritten,
                    [AccountsNext]_accountVars
             PROVE  AddressesApart' /\ SmallUnlessRewritten'
  OBVIOUS
<1>1. CASE user' = user /\ rewritten' = rewritten
  BY <1>1 DEF AddressesApart, SmallUnlessRewritten, Known
<1>2. ASSUME NEW u \in Accounts, NEW x \in AccountRow,
             user' = [user EXCEPT ![u] = x],
             \A v \in Known \ {u} : user[v].mail # x.mail,
             rewritten \subseteq rewritten',
             u \in rewritten' \/ x.mail.small
      PROVE  AddressesApart' /\ SmallUnlessRewritten'
  <2>1. \A v \in Known' : v = u \/ (v \in Known /\ user'[v] = user[v])
    BY <1>2 DEF Known, AccountsTypeOK
  <2>2. user'[u] = x
    BY <1>2 DEF AccountsTypeOK
  <2> QED
    BY <1>2, <2>1, <2>2 DEF AddressesApart, SmallUnlessRewritten
<1>3. CASE \E u \in Accounts \ Known, x \in AccountRow :
              /\ user' = [user EXCEPT ![u] = x] /\ rewritten' = rewritten
              /\ x.mail.small
              /\ \A v \in Known : user[v].mail # x.mail
  BY <1>2, <1>3
<1>4. CASE \E u \in Known, x \in AccountRow :
              /\ user' = [user EXCEPT ![u] = x]
              /\ rewritten' = IF x.mail # user[u].mail THEN rewritten \cup {u} ELSE rewritten
              /\ \A v \in Known \ {u} : user[v].mail # x.mail
  <2>1. PICK u \in Known, x \in AccountRow :
              /\ user' = [user EXCEPT ![u] = x]
              /\ rewritten' = IF x.mail # user[u].mail THEN rewritten \cup {u} ELSE rewritten
              /\ \A v \in Known \ {u} : user[v].mail # x.mail
    BY <1>4
  <2>2. u \in Accounts
    BY KnownRows
  <2>3. u \in rewritten' \/ x.mail.small
    BY <2>1 DEF SmallUnlessRewritten
  <2>4. rewritten \subseteq rewritten'
    BY <2>1
  <2> QED
    BY <1>2, <2>1, <2>2, <2>3, <2>4
<1> QED
  BY <1>1, <1>3, <1>4, UsersAfter

LEMMA OneUsableStep ==
  AccountsTypeOK /\ AboutRows /\ OneUsable /\ [AccountsNext]_accountVars => OneUsable'
<1> SUFFICES ASSUME AccountsTypeOK, AboutRows, OneUsable, [AccountsNext]_accountVars,
                    NEW p \in Issued', NEW q \in Issued', p # q,
                    token'[p].first = token'[q].first,
                    token'[p].is # "revoked", token'[q].is # "revoked"
             PROVE  \E x \in raced' : token'[x].first = token'[p].first
  BY DEF OneUsable
<1>0. /\ \A t \in Issued : token'[t].first = token[t].first
      /\ raced \subseteq Issued
  BY AccountRowsStay DEF AboutRows
<1>p. p \in Tokens /\ q \in Tokens
  BY DEF Issued
<1>1. ASSUME p \in Issued, q \in Issued, raced \subseteq raced',
             token[p].is # "revoked", token[q].is # "revoked"
      PROVE  \E x \in raced' : token'[x].first = token'[p].first
  BY <1>0, <1>1 DEF OneUsable
<1>2. CASE token' = token /\ raced' = raced
  BY <1>1, <1>2 DEF Issued
<1>3. CASE \E t \in Tokens \ Issued, u \in Accounts :
             token' = [token EXCEPT ![t] = Issue(u, t)] /\ raced' = raced
  <2>1. PICK t \in Tokens \ Issued, u \in Accounts :
          token' = [token EXCEPT ![t] = Issue(u, t)] /\ raced' = raced
    BY <1>3
  <2>2. \A s \in Issued' : s = t \/ (s \in Issued /\ token'[s] = token[s])
    BY <2>1 DEF Issued, AccountsTypeOK
  <2>3. token'[t].first = t
    BY <2>1 DEF Issue, AccountsTypeOK
  <2>4. \A s \in Issued : token[s].first # t
    BY <2>1 DEF AboutRows
  <2>5. p \in Issued /\ q \in Issued /\ token'[p] = token[p] /\ token'[q] = token[q]
    BY <2>2, <2>3, <2>4
  <2> QED
    BY <1>1, <2>1, <2>5
<1>4. CASE \E t \in Tokens \ Issued, old \in Issued :
             /\ token' = [token EXCEPT ![old] = Revoked(old),
                                       ![t] = Issue(token[old].owner, token[old].first)]
             /\ raced' = IF token[old].is = "revoked" THEN raced \cup {old} ELSE raced
  <2>1. PICK t \in Tokens \ Issued, old \in Issued :
          /\ token' = [token EXCEPT ![old] = Revoked(old),
                                    ![t] = Issue(token[old].owner, token[old].first)]
          /\ raced' = IF token[old].is = "revoked" THEN raced \cup {old} ELSE raced
    BY <1>4
  <2>2. t \in Tokens /\ old \in Tokens /\ t # old /\ token[old] \in TokenRow
    BY KnownRows
  <2>3. token'[old].is = "revoked"
    BY <2>1, <2>2 DEF Revoked, AccountsTypeOK, TokenRow
  <2>4. token'[t].first = token[old].first
    BY <2>1, <2>2 DEF Issue, AccountsTypeOK
  <2>5. \A s \in Issued' : s # t /\ s # old => s \in Issued /\ token'[s] = token[s]
    BY <2>1, <2>2 DEF Issued, AccountsTypeOK
  <2>6. p # old /\ q # old
    BY <2>3
  <2>7. raced \subseteq raced'
    BY <2>1
  <2>8. CASE p # t /\ q # t
    BY <1>1, <2>5, <2>6, <2>7, <2>8
  <2>9. ASSUME NEW s \in Issued', s # t, s # old, token'[s].is # "revoked",
               token'[s].first = token'[t].first
        PROVE  \E x \in raced' : token'[x].first = token[old].first
    <3>1. s \in Issued /\ token[s].is # "revoked" /\ token[s].first = token[old].first
      BY <2>4, <2>5, <2>9
    <3>2. CASE token[old].is = "revoked"
      BY <3>2, <2>1, <1>0
    <3>3. CASE token[old].is # "revoked"
      <4>1. PICK x \in raced : token[x].first = token[old].first
        BY <3>1, <3>3, <2>9 DEF OneUsable
      <4> QED
        BY <4>1, <2>7, <1>0
    <3> QED
      BY <3>2, <3>3
  <2> QED
    BY <2>4, <2>6, <2>8, <2>9
<1>5. CASE \E t \in Live : token' = [token EXCEPT ![t].is = "expired"] /\ raced' = raced
  <2>1. PICK t \in Live : token' = [token EXCEPT ![t].is = "expired"] /\ raced' = raced
    BY <1>5
  <2>2. t \in Issued /\ token[t] \in TokenRow /\ token[t].is = "live"
    BY KnownRows DEF Live
  <2>3. \A s \in Tokens : s # t => token'[s] = token[s]
    BY <2>1 DEF AccountsTypeOK
  <2>4. \A s \in Issued' : s \in Issued /\ (token'[s].is # "revoked" => token[s].is # "revoked")
    BY <2>2, <2>3 DEF Issued
  <2> QED
    BY <1>1, <2>1, <2>4
<1> QED
  BY <1>2, <1>3, <1>4, <1>5, TokensAfter

-----------------------------------------------------------------------------
(* The accounts: the theorems. *)

LEMMA AccountsInvInit == AccountsInit => AccountsInv
<1> SUFFICES ASSUME AccountsInit PROVE AccountsInv
  OBVIOUS
<1>1. Known = {} /\ Issued = {} /\ raced = {}
  BY DEF AccountsInit, Known, Issued
<1>2. AccountsTypeOK
  BY AccountsAssumption DEF AccountsInit, AccountsTypeOK
<1>3. \A r \in Clients : doing[r].at = "nothing"
  BY DEF AccountsInit, Nothing
<1> QED
  BY <1>1, <1>2, <1>3 DEF AccountsInv, AboutRows, AddressesApart, SmallUnlessRewritten, OneUsable

LEMMA AccountsInvStep == AccountsInv /\ [AccountsNext]_accountVars => AccountsInv'
BY AccountsTypeStep, AboutRowsStep, AddressesStep, OneUsableStep DEF AccountsInv

\* The invariant of the accounts holds in every behaviour (AuthService, UserService).
THEOREM AccountsInvariance == AccountsSpec => []AccountsInv
BY AccountsInvInit, AccountsInvStep, PTL DEF AccountsSpec

\* Organizations, rows, requests in flight and the history stay of their types: among
\* others, an update never makes a row that is not one.
THEOREM AccountsTypeCorrect == AccountsSpec => []AccountsTypeOK
<1>1. AccountsInv => AccountsTypeOK
  BY DEF AccountsInv
<1> QED
  BY <1>1, AccountsInvariance, PTL

\* An account is found by its address, and no other with it, unless an admin has changed
\* the address (register, login, update_user).
THEOREM AddressesFind == AccountsSpec => []FoundByAddress
<1>1. AccountsInv => FoundByAddress
  <2> SUFFICES ASSUME AccountsInv, NEW u \in Known \ rewritten
               PROVE  Named(user[u].mail) = {u}
    BY DEF FoundByAddress
  <2>1. user[u].mail \in Address /\ user[u].mail.small
    BY KnownRows DEF AccountsInv, AccountRow, SmallUnlessRewritten
  <2>2. Lower(user[u].mail) = user[u].mail
    BY <2>1, LowerSmall
  <2>3. \A v \in Known : user[v].mail = user[u].mail => v = u
    BY DEF AccountsInv, AddressesApart
  <2> QED
    BY <2>2, <2>3 DEF Named
<1> QED
  BY <1>1, AccountsInvariance, PTL

\* A session has at most one live refresh token, unless two overlapping requests have
\* exchanged the same one (AuthService.refresh).
THEOREM SessionsLive == AccountsSpec => []OneLiveToken
<1>1. AccountsInv => OneLiveToken
  <2> SUFFICES ASSUME AccountsInv, NEW first \in Issued,
                      {t \in Issued : token[t].first = first} \cap raced = {}
               PROVE  Cardinality({t \in Issued : token[t].first = first} \cap Live) <= 1
    BY DEF OneLiveToken
  <2> DEFINE L == {t \in Issued : token[t].first = first} \cap Live
  <2>1. ASSUME NEW p \in L, NEW q \in L PROVE p = q
    <3>1. /\ p \in Issued /\ q \in Issued /\ token[p].first = first /\ token[q].first = first
          /\ token[p].is # "revoked" /\ token[q].is # "revoked"
      BY DEF Live
    <3>2. ~\E x \in raced : token[x].first = first
      BY DEF AccountsInv, AboutRows
    <3> QED
      BY <3>1, <3>2 DEF AccountsInv, OneUsable
  <2>2. Cardinality(L) <= 1
    <3> HIDE DEF L
    <3>1. CASE L = {}
      BY <3>1, FS_EmptySet
    <3>2. CASE L # {}
      <4>1. PICK p \in L : L = {p}
        BY <3>2, <2>1
      <4>2. Cardinality({p}) = 1
        BY FS_Singleton
      <4> QED
        BY <4>1, <4>2
    <3> QED
      BY <3>1, <3>2
  <2> QED
    BY <2>2
<1> QED
  BY <1>1, AccountsInvariance, PTL

\* A deactivated account becomes active only through an admin who had seen it inactive,
\* whatever else is written meanwhile (update_user).
THEOREM DeactivationsStand == AccountsSpec => DeactivationStands
<1>1. AccountsInv /\ [AccountsNext]_accountVars =>
        [\A u \in Known : user'[u].active /\ ~user[u].active =>
           \E r \in Clients : doing[r].at = "updating" /\ doing[r].user = u
                               /\ ~doing[r].seen.active]_accountVars
  <2> SUFFICES ASSUME AccountsInv, [AccountsNext]_accountVars,
                      NEW u \in Known, user'[u].active, ~user[u].active
               PROVE  \E r \in Clients : doing[r].at = "updating" /\ doing[r].user = u
                                         /\ ~doing[r].seen.active
    OBVIOUS
  <2>1. AccountsTypeOK /\ AboutRows
    BY DEF AccountsInv
  <2>2. u \in Accounts /\ user'[u] # user[u]
    BY <2>1, KnownRows
  <2> QED
    BY <2>1, <2>2, UsersAfter DEF AccountsTypeOK
<1> QED
  BY <1>1, AccountsInvariance, PTL DEF AccountsSpec, DeactivationStands

==============================================================================
