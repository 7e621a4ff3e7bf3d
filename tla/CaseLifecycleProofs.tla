------------------------ MODULE CaseLifecycleProofs -------------------------
(***************************************************************************)
(* The safety properties of CaseLifecycle for any number of requests,      *)
(* streams and jobs.  What a request checked when it loaded the case must  *)
(* still hold when it commits, and a scan must find its job as it left it: *)
(* IInv says both of every request in flight.                              *)
(***************************************************************************)
EXTENDS CaseLifecycle, FiniteSetTheorems, SequenceTheorems, TLAPS

\* The job of a scan is in the phase that its request has reached, and no two
\* scans that still have to write theirs share one.
JobPhases ==
  \A r \in Requests :
    /\ ScanAt(r, {"queued"}) => jobs[req[r].job].status = "PENDING"
    /\ ScanAt(r, {"running"}) =>
         /\ jobs[req[r].job].status = "RUNNING"
         /\ req[r].was.status = "DISCOVERY_RUNNING"
    /\ ScanAt(r, {"completed"}) => jobs[req[r].job].status = "COMPLETED"
    /\ ScanAt(r, {"failed"}) => jobs[req[r].job].status = "FAILED"

JobsApart ==
  \A r, s \in Requests :
    (r # s /\ ScanAt(r, {"queued", "running"}) /\ ScanAt(s, {"queued", "running"}))
      => req[r].job # req[s].job

\* What a request has checked remains true while it runs.
ChecksHold ==
  \A r \in Requests : ScanAt(r, {"writing"}) =>
    /\ req[r].op = "match" => reference
    /\ req[r].op = "confirm" => match # "none"
    /\ req[r].op \in {"graph", "verify"} => results
    /\ req[r].rules <= rules

\* The job that a stream was told of exists.
JobsNamed ==
  \A x \in Streams : stream[x].at = "told" => stream[x].job \in DOMAIN jobs

\* No job is younger than the process that runs.
JobBoots == \A i \in DOMAIN jobs : jobs[i].boot <= boots

IInv ==
  /\ TypeOK
  /\ JobPhases
  /\ JobsApart
  /\ ChecksHold
  /\ JobsNamed
  /\ JobBoots
  /\ StatusEarned
  /\ EventAfterCommit
  /\ EveryScanCharged

-----------------------------------------------------------------------------
(* The rows, the requests and the jobs. *)

LEMMA RowTypes ==
  /\ Row("DRAFT", 1) \in Rows
  /\ \A op \in DOMAIN Target : Target[op] \in Rows
  /\ \A q \in Rows : Row("DISCOVERY_RUNNING", q.stage) \in Rows
  /\ \A q \in Rows : Row("VALIDATED", q.stage) \in Rows
  /\ Row("DISCOVERY_RUNNING", 3) \in Rows
  /\ Row("DISCOVERY_COMPLETE", 4) \in Rows
<1>1. /\ Target.match.stage = 3
      /\ Target.upload.status = "VALIDATED"
      /\ Target.discover = Row("DISCOVERY_COMPLETE", 4)
      /\ {"upload", "match", "discover"} \subseteq DOMAIN Target
  BY DEF Target, Row, Uploaded, Matched, Confirmed, Discovered, Correlated, Verified,
         Assessed, Reported, Monitored
<1>2. \A op \in DOMAIN Target : Target[op] = Row(Target[op].status, Target[op].stage)
  BY DEF Target, Row, Uploaded, Matched, Confirmed, Discovered, Correlated, Verified,
         Assessed, Reported, Monitored
<1> QED
  BY <1>1, <1>2 DEF Rows, Row

LEMMA WrittenType ==
  ASSUME case \in Rows, NEW was \in Rows, NEW to \in Rows
  PROVE  /\ Written(was, to) \in Rows
         /\ Written(was, to).status =
              IF to.status = was.status THEN case.status ELSE to.status
BY DEF Written, Rows

\* A request is what its phase says.
LEMMA Phases ==
  ASSUME TypeOK, NEW r \in Requests
  PROVE  /\ ScanAt(r, {"writing"}) => req[r] \in Writing
         /\ ScanAt(r, {"queued", "running"}) => req[r] \in Scanning
         /\ ScanAt(r, {"completed", "failed"}) => req[r] \in Announcing
         /\ ScanAt(r, {"queued", "running", "completed", "failed"}) =>
              req[r].job \in DOMAIN jobs
<1>1. req[r] \in {Idle, Cut} \cup Writing \cup Scanning \cup Announcing
  BY DEF TypeOK
<1>2. ScanAt(r, {"queued", "running"}) => req[r] \in Scanning
  BY <1>1 DEF ScanAt, Idle, Cut, Writing, Announcing
<1>3. ScanAt(r, {"completed", "failed"}) => req[r] \in Announcing
  BY <1>1 DEF ScanAt, Idle, Cut, Writing, Scanning
<1>4. ScanAt(r, {"writing"}) => req[r] \in Writing
  BY <1>1 DEF ScanAt, Idle, Cut, Scanning, Announcing
<1>5. ScanAt(r, {"queued", "running", "completed", "failed"}) =>
        req[r].job \in DOMAIN jobs
  BY <1>2, <1>3 DEF TypeOK, ScanAt, Scanning, Announcing
<1> QED
  BY <1>2, <1>3, <1>4, <1>5

LEMMA Appended ==
  ASSUME jobs \in Seq(Job), NEW j \in Job, jobs' = Append(jobs, j)
  PROVE  /\ jobs' \in Seq(Job)
         /\ Len(jobs') = Len(jobs) + 1
         /\ \A i \in DOMAIN jobs : i \in DOMAIN jobs' /\ jobs'[i] = jobs[i]
         /\ jobs'[Len(jobs) + 1] = j
OBVIOUS

LEMMA Moved ==
  ASSUME jobs \in Seq(Job), NEW i \in DOMAIN jobs,
         NEW status \in {"RUNNING", "COMPLETED", "FAILED"}, JobIs(i, status)
  PROVE  /\ jobs' \in Seq(Job)
         /\ Len(jobs') = Len(jobs) /\ DOMAIN jobs' = DOMAIN jobs
         /\ \A k \in DOMAIN jobs : k # i => jobs'[k] = jobs[k]
         /\ jobs'[i].status = status
         /\ \A k \in DOMAIN jobs : jobs'[k].boot = jobs[k].boot
<1>1. jobs[i] \in Job
  OBVIOUS
<1>2. jobs' = [jobs EXCEPT ![i].status = status]
  BY DEF JobIs
<1>3. jobs'[i] = [jobs[i] EXCEPT !.status = status]
  BY <1>2
<1>4. jobs'[i] \in Job /\ jobs'[i].status = status /\ jobs'[i].boot = jobs[i].boot
  BY <1>1, <1>3 DEF Job
<1>5. \A k \in DOMAIN jobs : k # i => jobs'[k] = jobs[k]
  BY <1>2
<1>6. Len(jobs') = Len(jobs) /\ DOMAIN jobs' = DOMAIN jobs
  BY <1>2
<1>7. jobs' \in Seq(Job)
  BY <1>2, <1>3, <1>4, ExceptSeq
<1> QED
  BY <1>4, <1>5, <1>6, <1>7

-----------------------------------------------------------------------------
(* Type correctness. *)

Request == {Idle, Cut} \cup Writing \cup Scanning \cup Announcing
Stream  == {Quiet, Listening} \cup Told

\* The part of TypeOK about requests and their jobs.
ReqTyped ==
  /\ req \in [Requests -> Request]
  /\ \A r \in Requests :
       ScanAt(r, {"queued", "running", "completed", "failed"}) => req[r].job <= Len(jobs)

\* A request that takes one more step keeps ReqTyped if its new value is one.
LEMMA OneRequest ==
  ASSUME ReqTyped, NEW r \in Requests, NEW to \in Request,
         Len(jobs) \in Nat, Len(jobs') \in Nat, Len(jobs) <= Len(jobs'),
         req' = [req EXCEPT ![r] = to],
         to.at \in {"queued", "running", "completed", "failed"} =>
           to.job \in 1..Len(jobs')
  PROVE  ReqTyped'
<1>1. req' \in [Requests -> Request]
  BY DEF ReqTyped
<1>2. ASSUME NEW s \in Requests, ScanAt(s, {"queued", "running", "completed", "failed"})'
      PROVE  req'[s].job <= Len(jobs')
  <2>1. CASE s = r
    BY <1>2, <2>1 DEF ScanAt, ReqTyped
  <2>2. CASE s # r
    <3>1. req'[s] = req[s] /\ req[s].job <= Len(jobs)
      BY <1>2, <2>2 DEF ScanAt, ReqTyped
    <3>2. req[s] \in Scanning \cup Announcing
      BY <1>2, <3>1 DEF ScanAt, ReqTyped, Request, Idle, Cut, Writing
    <3>3. req[s].job \in Int
      BY <3>2 DEF Scanning, Announcing
    <3> QED
      BY <3>1, <3>3
  <2> QED
    BY <2>1, <2>2
<1> QED
  BY <1>1, <1>2 DEF ReqTyped

LEMMA TypeStep == TypeOK /\ [Next]_vars => TypeOK'
<1> SUFFICES ASSUME TypeOK, [Next]_vars PROVE TypeOK'
  OBVIOUS
<1> USE ConstantsAssumption
<1> DEFINE CaseTyped ==
             /\ case \in Rows
             /\ match \in {"none", "candidate", "confirmed"}
             /\ {reference, results} \subseteq BOOLEAN
           JobsTyped == jobs \in Seq(Job) /\ Len(jobs) <= MaxJobs
           RulesTyped == rules \in 0..MaxRules
           StreamTyped == stream \in [Streams -> Stream]
           CountersTyped ==
             /\ scans \in 0..MaxScansPerHour
             /\ spend \in 0..Budget
             /\ boots \in 0..MaxRestarts
<1>1. CaseTyped /\ JobsTyped /\ RulesTyped /\ ReqTyped /\ StreamTyped /\ CountersTyped
  BY DEF TypeOK, ReqTyped, Request, Stream
<1>2. CaseTyped' /\ JobsTyped' /\ RulesTyped' /\ ReqTyped' /\ StreamTyped' /\ CountersTyped'
        => TypeOK'
  BY DEF TypeOK, ReqTyped, Request, Stream
<1>3. Len(jobs) \in Nat /\ Len(jobs) <= Len(jobs)
  BY <1>1
<1>4. CASE UNCHANGED vars
  BY <1>1, <1>2, <1>4 DEF vars, stored, memory, ReqTyped, ScanAt
<1>5. ASSUME NEW r \in Requests, NEW op \in Operations, Load(r, op) PROVE TypeOK'
  <2>1. [at |-> "writing", op |-> op, was |-> case, rules |-> rules] \in Request
    BY <1>1 DEF Request, Writing
  <2>2. ReqTyped'
    BY <1>1, <1>3, <1>5, <2>1, OneRequest DEF Load, stored
  <2> QED
    BY <1>1, <1>2, <1>5, <2>2 DEF Load, stored, memory
<1>6. ASSUME NEW r \in Requests, Commit(r) PROVE TypeOK'
  <2>1. req[r] \in Writing
    BY <1>6, Phases DEF Commit, ScanAt
  <2>2. case' \in Rows
    <3>1. req[r].was \in Rows /\ req[r].op \in DOMAIN Target \cup Bystanders
      BY <2>1 DEF Writing
    <3>2. RowAfter(req[r]) \in Rows
      <4>1. CASE req[r].op \in Bystanders
        BY <1>1, <4>1 DEF RowAfter, Bystanders
      <4>2. CASE req[r].op = "discover"
        <5>1. Target[req[r].op] \in Rows
          BY <3>1, <4>2, RowTypes DEF Bystanders
        <5> QED
          BY <1>1, <4>2, <5>1, RowTypes, WrittenType DEF RowAfter, Bystanders
      <4>3. CASE req[r].op \notin Bystanders \cup {"discover"}
        <5>1. Target[req[r].op] \in Rows
          BY <3>1, <4>3, RowTypes
        <5> QED
          BY <1>1, <3>1, <4>3, <5>1, WrittenType DEF RowAfter
      <4> QED
        BY <4>1, <4>2, <4>3
    <3> QED
      BY <1>6, <3>2 DEF Commit
  <2>3. CaseTyped'
    BY <1>1, <1>6, <2>2 DEF Commit, MatchAfter, ReferenceAfter
  <2>4. JobsTyped' /\ Len(jobs') \in Nat /\ Len(jobs) <= Len(jobs')
    <3>1. [status |-> "COMPLETED", boot |-> -1] \in Job
      BY DEF Job
    <3> QED
      BY <1>1, <1>3, <1>6, <3>1, Appended DEF Commit, JobInserted
  <2>5. ReqTyped'
    <3>1. Idle \in Request /\ Idle.at = "idle"
      BY DEF Request, Idle
    <3>2. req' = [req EXCEPT ![r] = Idle]
      BY <1>6 DEF Commit
    <3> QED
      BY <1>1, <1>3, <2>4, <3>1, <3>2, OneRequest
  <2>6. RulesTyped'
    BY <1>1, <1>6 DEF Commit, RuleInserted
  <2> QED
    BY <1>1, <1>2, <1>6, <2>3, <2>4, <2>5, <2>6 DEF Commit, memory
<1>7. ASSUME NEW r \in Requests, BeginScan(r) PROVE TypeOK'
  <2> DEFINE to == [at |-> "queued", was |-> case, job |-> Len(jobs) + 1]
  <2>1. [status |-> "PENDING", boot |-> boots] \in Job
    BY <1>1 DEF Job
  <2>2. JobsTyped' /\ Len(jobs') = Len(jobs) + 1
    BY <1>1, <1>3, <1>7, <2>1, Appended DEF BeginScan
  <2>3. to \in Request
    BY <1>1, <1>3, <1>7 DEF BeginScan, Request, Scanning
  <2>4. to.job \in 1..Len(jobs') /\ req' = [req EXCEPT ![r] = to]
    BY <1>3, <1>7, <2>2 DEF BeginScan
  <2>5. Len(jobs') \in Nat /\ Len(jobs) <= Len(jobs')
    BY <1>3, <2>2
  <2> HIDE DEF to
  <2>6. ReqTyped'
    BY <1>1, <1>3, <2>3, <2>4, <2>5, OneRequest
  <2> QED
    BY <1>1, <1>2, <1>7, <2>2, <2>6 DEF BeginScan, Charged
<1>8. ASSUME NEW r \in Requests, RunScan(r) PROVE TypeOK'
  <2> DEFINE running == Row("DISCOVERY_RUNNING", req[r].was.stage)
             to == [at |-> "running", was |-> running, job |-> req[r].job]
  <2>1. req[r] \in Scanning /\ req[r].job \in DOMAIN jobs
    BY <1>8, Phases DEF RunScan, ScanAt
  <2>2. running \in Rows
    BY <2>1, RowTypes DEF Scanning
  <2>3. to \in Request /\ to.job \in 1..Len(jobs)
    BY <1>1, <2>1, <2>2 DEF Request, Scanning
  <2>4. req' = [req EXCEPT ![r] = to]
    BY <1>8 DEF RunScan
  <2>5. JobsTyped' /\ Len(jobs') = Len(jobs)
    BY <1>1, <1>8, <2>1, Moved DEF RunScan
  <2>6. case' \in Rows
    BY <1>1, <1>8, <2>1, <2>2, WrittenType DEF RunScan, Scanning
  <2> HIDE DEF to
  <2>7. ReqTyped'
    BY <1>1, <1>3, <2>3, <2>4, <2>5, OneRequest
  <2> QED
    BY <1>1, <1>2, <1>8, <2>5, <2>6, <2>7 DEF RunScan, memory
<1>9. ASSUME NEW r \in Requests, CompleteScan(r) \/ FailScan(r) PROVE TypeOK'
  <2> PICK phase \in {"completed", "failed"} :
        req' = [req EXCEPT ![r] = [at |-> phase, job |-> req[r].job]]
    BY <1>1, <1>9 DEF CompleteScan, FailScan, ReqTyped
  <2> DEFINE to == [at |-> phase, job |-> req[r].job]
  <2>1. req[r] \in Scanning /\ req[r].job \in DOMAIN jobs
    BY <1>9, Phases DEF CompleteScan, FailScan, ScanAt
  <2>2. JobsTyped' /\ Len(jobs') = Len(jobs)
    BY <1>1, <1>9, <2>1, Moved DEF CompleteScan, FailScan
  <2>3. to \in Request /\ to.job \in 1..Len(jobs)
    BY <1>1, <2>1 DEF Request, Scanning, Announcing
  <2>4. case' \in Rows
    <3>1. req[r].was \in Rows
      BY <2>1 DEF Scanning
    <3>2. Row("VALIDATED", req[r].was.stage) \in Rows /\ Row("DISCOVERY_COMPLETE", 4) \in Rows
      BY <3>1, RowTypes
    <3> QED
      BY <1>1, <1>9, <3>1, <3>2, WrittenType DEF CompleteScan, FailScan
  <2>5. req' = [req EXCEPT ![r] = to]
    OBVIOUS
  <2> HIDE DEF to
  <2>6. ReqTyped'
    BY <1>1, <1>3, <2>2, <2>3, <2>5, OneRequest
  <2>7. CaseTyped'
    BY <1>1, <1>9, <2>4 DEF CompleteScan, FailScan
  <2> QED
    BY <1>1, <1>2, <1>9, <2>2, <2>6, <2>7 DEF CompleteScan, FailScan, memory
<1>10. ASSUME NEW r \in Requests, Announce(r) PROVE TypeOK'
  <2>1. req[r] \in Announcing
    BY <1>10, Phases DEF Announce
  <2>2. Outcome(req[r]) \in Stream
    BY <2>1 DEF Outcome, Announcing, Stream, Told
  <2>3. StreamTyped'
    BY <1>1, <1>10, <2>2 DEF Announce
  <2>4. Idle \in Request /\ Idle.at = "idle"
    BY DEF Request, Idle
  <2>5. ReqTyped'
    BY <1>1, <1>3, <1>10, <2>4, OneRequest DEF Announce, stored
  <2> QED
    BY <1>1, <1>2, <1>10, <2>3, <2>5 DEF Announce, stored
<1>11. ASSUME NEW r \in Requests, Abort(r) PROVE TypeOK'
  <2>1. Cut \in Request /\ Cut.at = "cut"
    BY DEF Request, Cut
  <2>2. ReqTyped'
    BY <1>1, <1>3, <1>11, <2>1, OneRequest DEF Abort, stored
  <2> QED
    BY <1>1, <1>2, <1>11, <2>2 DEF Abort, stored, memory
<1>12. CASE \E x \in Streams : Subscribe(x) \/ EndStream(x) \/ Leave(x)
  <2>1. StreamTyped'
    BY <1>1, <1>12 DEF Subscribe, EndStream, Leave, Stream
  <2>2. UNCHANGED <<stored, req, scans, spend, boots>>
    BY <1>12 DEF Subscribe, EndStream, Leave
  <2> QED
    BY <1>1, <1>2, <2>1, <2>2 DEF stored, ReqTyped, ScanAt
<1>13. CASE ScanRefused \/ SlotExpires
  <2>1. CountersTyped'
    <3>1. CASE ScanRefused
      BY <1>1, <3>1 DEF ScanRefused, Charged
    <3>2. CASE SlotExpires
      BY <1>1, <3>2 DEF SlotExpires
    <3> QED
      BY <1>13, <3>1, <3>2
  <2>2. UNCHANGED <<stored, req, stream>>
    BY <1>13 DEF ScanRefused, SlotExpires
  <2> QED
    BY <1>1, <1>2, <2>1, <2>2 DEF stored, ReqTyped, ScanAt
<1>14. CASE Restart
  <2>1. StreamTyped' /\ CountersTyped'
    BY <1>1, <1>14 DEF Restart, Stream
  <2>2. req' \in [Requests -> Request]
    BY <1>1, <1>14 DEF Restart, Request, ReqTyped
  <2>3. \A r \in Requests :
          ScanAt(r, {"queued", "running", "completed", "failed"})' => req'[r].job <= Len(jobs')
    BY <1>14 DEF Restart, ScanAt, Free, Cut
  <2>4. ReqTyped'
    BY <2>2, <2>3 DEF ReqTyped
  <2> QED
    BY <1>1, <1>2, <1>14, <2>1, <2>4 DEF Restart, stored
<1> QED
  BY <1>4, <1>5, <1>6, <1>7, <1>8, <1>9, <1>10, <1>11, <1>12, <1>13, <1>14 DEF Next

\* The variables of a case and its server have the shape the code gives them.
THEOREM TypeCorrect == Spec => []TypeOK
<1>1. Init => TypeOK
  <2>1. Row("DRAFT", 1) \in Rows
    BY RowTypes
  <2>2. <<>> \in Seq(Job) /\ Len(<<>>) = 0
    OBVIOUS
  <2> SUFFICES ASSUME Init PROVE TypeOK
    OBVIOUS
  <2>3. \A r \in Requests : req[r] = Idle /\ req[r].at = "idle"
    BY DEF Init, Idle
  <2>4. case \in Rows /\ match = "none" /\ {reference, results} \subseteq BOOLEAN
    BY <2>1 DEF Init
  <2>5. jobs \in Seq(Job) /\ Len(jobs) <= MaxJobs
    BY <2>2, ConstantsAssumption DEF Init
  <2>6. /\ rules \in 0..MaxRules /\ scans \in 0..MaxScansPerHour /\ spend \in 0..Budget
        /\ boots \in 0..MaxRestarts
    BY ConstantsAssumption DEF Init
  <2> QED
    BY <2>3, <2>4, <2>5, <2>6 DEF Init, TypeOK, ScanAt
<1> QED
  BY <1>1, TypeStep, PTL DEF Spec

-----------------------------------------------------------------------------
(* Requests and jobs. *)

\* The steps of run_scan_pipeline, the only ones that move a job.
ScanStep(r) == RunScan(r) \/ CompleteScan(r) \/ FailScan(r)

JobsKept == \A i \in DOMAIN jobs : i \in DOMAIN jobs' /\ jobs'[i] = jobs[i]

LEMMA RequestKeepsJobs ==
  ASSUME TypeOK, NEW r \in Requests,
         \/ \E op \in Operations : Load(r, op)
         \/ Commit(r) \/ BeginScan(r) \/ Announce(r) \/ Abort(r)
  PROVE  JobsKept
<1>1. jobs' = jobs => JobsKept
  BY DEF JobsKept
<1>2. CASE Commit(r)
  <2>1. [status |-> "COMPLETED", boot |-> -1] \in Job
    BY ConstantsAssumption DEF Job
  <2> QED
    BY <1>1, <1>2, <2>1, Appended DEF Commit, JobInserted, JobsKept, TypeOK
<1>3. CASE BeginScan(r)
  <2>1. [status |-> "PENDING", boot |-> boots] \in Job
    BY ConstantsAssumption DEF Job, TypeOK
  <2> QED
    BY <1>3, <2>1, Appended DEF BeginScan, JobsKept, TypeOK
<1> QED
  BY <1>1, <1>2, <1>3 DEF Load, Announce, Abort, stored

LEMMA JobsStep ==
  ASSUME TypeOK, [Next]_vars
  PROVE  (\E r \in Requests : ScanStep(r)) \/ JobsKept
<1>1. jobs' = jobs => JobsKept
  BY DEF JobsKept
<1>2. CASE UNCHANGED vars
  BY <1>1, <1>2 DEF vars, stored
<1>3. CASE \E x \in Streams : Subscribe(x) \/ EndStream(x) \/ Leave(x)
  BY <1>1, <1>3 DEF Subscribe, EndStream, Leave, stored
<1>4. CASE ScanRefused \/ SlotExpires \/ Restart
  BY <1>1, <1>4 DEF ScanRefused, SlotExpires, Restart, stored
<1> QED
  BY <1>2, <1>3, <1>4, RequestKeepsJobs DEF Next, ScanStep

\* A scan step finds its job pending or running and moves no other.
LEMMA ScanMoves ==
  ASSUME TypeOK, JobPhases, NEW r \in Requests, ScanStep(r)
  PROVE  /\ req[r] \in Scanning
         /\ req[r].job \in DOMAIN jobs
         /\ jobs[req[r].job].status \in {"PENDING", "RUNNING"}
         /\ DOMAIN jobs' = DOMAIN jobs
         /\ \A k \in DOMAIN jobs : k # req[r].job => jobs'[k] = jobs[k]
         /\ \A k \in DOMAIN jobs : jobs'[k].boot = jobs[k].boot
         /\ RunScan(r) => jobs'[req[r].job].status = "RUNNING"
         /\ CompleteScan(r) => jobs'[req[r].job].status = "COMPLETED"
         /\ FailScan(r) => jobs'[req[r].job].status = "FAILED"
<1>1. ScanAt(r, {"queued", "running"})
  BY DEF ScanStep, RunScan, CompleteScan, FailScan, ScanAt
<1>2. req[r] \in Scanning /\ req[r].job \in DOMAIN jobs
  BY <1>1, Phases DEF ScanAt
<1>3. jobs[req[r].job].status \in {"PENDING", "RUNNING"}
  BY <1>1 DEF JobPhases, ScanAt
<1>4. PICK status \in {"RUNNING", "COMPLETED", "FAILED"} :
        /\ JobIs(req[r].job, status)
        /\ RunScan(r) => JobIs(req[r].job, "RUNNING")
        /\ CompleteScan(r) => JobIs(req[r].job, "COMPLETED")
        /\ FailScan(r) => JobIs(req[r].job, "FAILED")
  BY DEF ScanStep, RunScan, CompleteScan, FailScan
<1>5. jobs \in Seq(Job)
  BY DEF TypeOK
<1> QED
  BY <1>2, <1>3, <1>4, <1>5, Moved

\* A job that has completed or failed stays as it is.
LEMMA OutcomeStep ==
  ASSUME TypeOK, JobPhases, [Next]_vars, NEW i \in DOMAIN jobs
  PROVE  /\ i \in DOMAIN jobs'
         /\ jobs[i].status \in {"COMPLETED", "FAILED"} => jobs'[i] = jobs[i]
BY JobsStep, ScanMoves DEF JobsKept

\* Phases are kept by a step that leaves every scan and its job alone or ends it.
LEMMA PhasesKept ==
  ASSUME TypeOK, JobPhases, JobsApart, JobsKept,
         \A s \in Requests :
           req'[s] = req[s] \/ req'[s].at \in {"idle", "cut", "writing"}
  PROVE  JobPhases' /\ JobsApart'
<1>1. \A s \in Requests :
        ScanAt(s, {"queued", "running", "completed", "failed"})' =>
          req'[s] = req[s] /\ req[s].job \in DOMAIN jobs
  BY Phases DEF ScanAt
<1>2. JobPhases'
  BY <1>1 DEF JobPhases, JobsKept, ScanAt
<1>3. JobsApart'
  BY <1>1 DEF JobsApart, ScanAt
<1> QED
  BY <1>2, <1>3

LEMMA PhasesStep ==
  ASSUME TypeOK, JobPhases, JobsApart, [Next]_vars
  PROVE  JobPhases' /\ JobsApart'
<1>0. req \in [Requests -> Request]
  BY DEF TypeOK, Request
<1>1. ASSUME jobs' = jobs, req' = req PROVE JobPhases' /\ JobsApart'
  BY <1>1 DEF JobPhases, JobsApart, ScanAt
<1>2. CASE \/ UNCHANGED vars
           \/ \E x \in Streams : Subscribe(x) \/ EndStream(x) \/ Leave(x)
           \/ ScanRefused \/ SlotExpires
  BY <1>1, <1>2
  DEF vars, stored, Subscribe, EndStream, Leave, ScanRefused, SlotExpires
<1>3. CASE Restart
  <2>1. JobsKept
    BY <1>3 DEF Restart, stored, JobsKept
  <2>2. \A s \in Requests : req'[s] = req[s] \/ req'[s].at \in {"idle", "cut", "writing"}
    BY <1>3 DEF Restart, Cut
  <2> QED
    BY <2>1, <2>2, PhasesKept
<1>4. ASSUME NEW r \in Requests,
             \/ \E op \in Operations : Load(r, op)
             \/ Commit(r) \/ Announce(r) \/ Abort(r)
      PROVE  JobPhases' /\ JobsApart'
  <2>1. JobsKept
    BY <1>4, RequestKeepsJobs
  <2>2. \A s \in Requests : req'[s] = req[s] \/ req'[s].at \in {"idle", "cut", "writing"}
    BY <1>0, <1>4 DEF Load, Commit, Announce, Abort, Idle, Cut
  <2> QED
    BY <2>1, <2>2, PhasesKept
<1>5. ASSUME NEW r \in Requests, BeginScan(r) PROVE JobPhases' /\ JobsApart'
  <2> DEFINE n == Len(jobs) + 1
  <2>1. req' = [req EXCEPT ![r] = [at |-> "queued", was |-> case, job |-> n]]
    BY <1>5 DEF BeginScan
  <2>2. req'[r].at = "queued" /\ req'[r].job = n
    BY <1>0, <2>1
  <2>3. \A s \in Requests : s # r => req'[s] = req[s]
    BY <1>0, <2>1
  <2>4. JobsKept /\ jobs'[n].status = "PENDING" /\ n \notin DOMAIN jobs
    <3>1. [status |-> "PENDING", boot |-> boots] \in Job
      BY ConstantsAssumption DEF Job, TypeOK
    <3>2. jobs \in Seq(Job)
      BY DEF TypeOK
    <3>3. jobs'[n] = [status |-> "PENDING", boot |-> boots]
      BY <1>5, <3>1, <3>2, Appended DEF BeginScan
    <3>4. n \notin DOMAIN jobs
      BY <3>2
    <3> QED
      BY <1>5, <3>3, <3>4, RequestKeepsJobs
  <2> HIDE DEF n
  <2>5. \A s \in Requests :
          ScanAt(s, {"queued", "running", "completed", "failed"}) => req[s].job \in DOMAIN jobs
    BY Phases
  <2>6. JobPhases'
    BY <2>2, <2>3, <2>4, <2>5 DEF JobPhases, JobsKept, ScanAt
  <2>7. JobsApart'
    BY <2>2, <2>3, <2>4, <2>5 DEF JobsApart, ScanAt
  <2> QED
    BY <2>6, <2>7
<1>6. ASSUME NEW r \in Requests, ScanStep(r) PROVE JobPhases' /\ JobsApart'
  <2>1. \A s \in Requests : s # r => req'[s] = req[s]
    BY <1>0, <1>6 DEF ScanStep, RunScan, CompleteScan, FailScan
  <2>2. req'[r].job = req[r].job
    BY <1>0, <1>6 DEF ScanStep, RunScan, CompleteScan, FailScan
  <2>3. ScanAt(r, {"queued", "running"})
    BY <1>6 DEF ScanStep, RunScan, CompleteScan, FailScan, ScanAt
  <2>4. \A s \in Requests :
          s # r /\ ScanAt(s, {"queued", "running", "completed", "failed"}) =>
            req[s].job # req[r].job /\ jobs'[req[s].job] = jobs[req[s].job]
    <3>1. \A s \in Requests :
            s # r /\ ScanAt(s, {"queued", "running", "completed", "failed"}) =>
              req[s].job # req[r].job /\ req[s].job \in DOMAIN jobs
      <4>1. jobs[req[r].job].status \in {"PENDING", "RUNNING"}
        BY <1>6, ScanMoves
      <4> QED
        BY <2>3, <4>1, Phases DEF JobsApart, JobPhases, ScanAt
    <3> QED
      BY <1>6, <3>1, ScanMoves
  <2>5. /\ RunScan(r) => req'[r].at = "running" /\ req'[r].was.status = "DISCOVERY_RUNNING"
        /\ CompleteScan(r) => req'[r].at = "completed"
        /\ FailScan(r) => req'[r].at = "failed"
    BY <1>0 DEF RunScan, CompleteScan, FailScan, Row
  <2>6. /\ RunScan(r) => jobs'[req[r].job].status = "RUNNING"
        /\ CompleteScan(r) => jobs'[req[r].job].status = "COMPLETED"
        /\ FailScan(r) => jobs'[req[r].job].status = "FAILED"
    BY <1>6, ScanMoves
  <2>7. ASSUME NEW s \in Requests
        PROVE  /\ ScanAt(s, {"queued"})' => jobs'[req'[s].job].status = "PENDING"
               /\ ScanAt(s, {"running"})' =>
                    /\ jobs'[req'[s].job].status = "RUNNING"
                    /\ req'[s].was.status = "DISCOVERY_RUNNING"
               /\ ScanAt(s, {"completed"})' => jobs'[req'[s].job].status = "COMPLETED"
               /\ ScanAt(s, {"failed"})' => jobs'[req'[s].job].status = "FAILED"
    <3>1. CASE s = r
      BY <1>6, <2>2, <2>5, <2>6, <3>1 DEF ScanStep, ScanAt
    <3>2. CASE s # r
      BY <2>1, <2>4, <3>2 DEF JobPhases, ScanAt
    <3> QED
      BY <3>1, <3>2
  <2>8. JobsApart'
    BY <2>1, <2>2, <2>3, <2>4 DEF JobsApart, ScanAt
  <2> QED
    BY <2>7, <2>8 DEF JobPhases
<1> QED
  BY <1>2, <1>3, <1>4, <1>5, <1>6 DEF Next, ScanStep

-----------------------------------------------------------------------------
(* What requests have checked. *)

\* Nothing that an endpoint checks is ever taken back.
LEMMA Monotone ==
  ASSUME TypeOK, [Next]_vars
  PROVE  /\ reference => reference'
         /\ results => results'
         /\ match # "none" => match' # "none"
         /\ rules <= rules'
<1>1. CASE \/ UNCHANGED vars
           \/ \E x \in Streams : Subscribe(x) \/ EndStream(x) \/ Leave(x)
           \/ ScanRefused \/ SlotExpires \/ Restart
  BY <1>1 DEF vars, stored, Subscribe, EndStream, Leave, ScanRefused, SlotExpires,
              Restart, TypeOK
<1>2. ASSUME NEW r \in Requests, Commit(r)
      PROVE  /\ reference => reference'
             /\ results => results'
             /\ match # "none" => match' # "none"
             /\ rules <= rules'
  <2>1. match # "none" => match' # "none"
    BY <1>2 DEF Commit, MatchAfter
  <2>2. (reference => reference') /\ (results => results')
    BY <1>2 DEF Commit, ReferenceAfter
  <2>3. rules <= rules'
    BY <1>2 DEF Commit, RuleInserted, TypeOK
  <2> QED
    BY <2>1, <2>2, <2>3
<1>3. ASSUME NEW r \in Requests,
             \/ \E op \in Operations : Load(r, op)
             \/ BeginScan(r) \/ ScanStep(r) \/ Announce(r) \/ Abort(r)
      PROVE  /\ UNCHANGED <<match, reference, rules>>
             /\ results => results'
  <2>1. CASE (\E op \in Operations : Load(r, op)) \/ Announce(r) \/ Abort(r)
    BY <2>1 DEF Load, Announce, Abort, stored
  <2>2. CASE BeginScan(r)
    BY <2>2 DEF BeginScan
  <2>3. CASE RunScan(r) \/ FailScan(r)
    BY <2>3 DEF RunScan, FailScan
  <2>4. CASE CompleteScan(r)
    BY <2>4 DEF CompleteScan
  <2> QED
    BY <1>3, <2>1, <2>2, <2>3, <2>4 DEF ScanStep
<1>4. rules <= rules
  BY DEF TypeOK
<1> QED
  BY <1>1, <1>2, <1>3, <1>4 DEF Next, ScanStep

LEMMA ChecksStep ==
  ASSUME TypeOK, ChecksHold, [Next]_vars
  PROVE  ChecksHold'
<1>0. req \in [Requests -> Request]
  BY DEF TypeOK, Request
<1> SUFFICES ASSUME NEW s \in Requests, ScanAt(s, {"writing"})'
             PROVE  /\ req'[s].op = "match" => reference'
                    /\ req'[s].op = "confirm" => match' # "none"
                    /\ req'[s].op \in {"graph", "verify"} => results'
                    /\ req'[s].rules <= rules'
  BY DEF ChecksHold
<1>1. ASSUME NEW op \in Operations, Load(s, op)
      PROVE  /\ req'[s].op = "match" => reference
             /\ req'[s].op = "confirm" => match # "none"
             /\ req'[s].op \in {"graph", "verify"} => results
             /\ req'[s].rules <= rules
  BY <1>0, <1>1 DEF Load, Possible, TypeOK
<1>2. CASE req'[s] = req[s]
  <2>1. req[s].rules \in Int /\ rules \in Int /\ rules' \in Int
    BY <1>2, Phases, TypeStep DEF ScanAt, Writing, TypeOK
  <2> QED
    BY <1>2, <2>1, Monotone DEF ChecksHold, ScanAt
<1>3. (\E op \in Operations : Load(s, op)) \/ req'[s] = req[s]
  <2>1. CASE \/ UNCHANGED vars
             \/ \E x \in Streams : Subscribe(x) \/ EndStream(x) \/ Leave(x)
             \/ ScanRefused \/ SlotExpires
    BY <2>1 DEF vars, Subscribe, EndStream, Leave, ScanRefused, SlotExpires
  <2>2. CASE Restart
    BY <2>2 DEF Restart, ScanAt, Cut
  <2>3. ASSUME NEW r \in Requests,
               \/ \E op \in Operations : Load(r, op)
               \/ Commit(r) \/ BeginScan(r) \/ ScanStep(r) \/ Announce(r) \/ Abort(r),
               r # s
        PROVE  req'[s] = req[s]
    BY <1>0, <2>3 DEF Load, Commit, BeginScan, ScanStep, RunScan, CompleteScan, FailScan,
                      Announce, Abort
  <2>4. CASE Commit(s) \/ BeginScan(s) \/ ScanStep(s) \/ Announce(s) \/ Abort(s)
    BY <1>0, <2>4 DEF Commit, BeginScan, ScanStep, RunScan, CompleteScan, FailScan,
                      Announce, Abort, Idle, Cut, ScanAt
  <2> QED
    BY <2>1, <2>2, <2>3, <2>4 DEF Next, ScanStep
<1>4. CASE \E op \in Operations : Load(s, op)
  <2>1. UNCHANGED <<reference, match, results, rules>>
    BY <1>4 DEF Load, stored
  <2> QED
    BY <1>1, <1>4, <2>1
<1> QED
  BY <1>2, <1>3, <1>4

-----------------------------------------------------------------------------
(* The status of the case. *)

\* What StatusEarned asks for is never lost by a step that keeps the status.
LEMMA EarnedKept ==
  ASSUME TypeOK, StatusEarned, [Next]_vars, JobsKept, case'.status = case.status
  PROVE  StatusEarned'
<1>1. JobWith("RUNNING") => JobWith("RUNNING")'
  BY DEF JobWith, JobsKept
<1>2. JobWith("COMPLETED") => JobWith("COMPLETED")'
  BY DEF JobWith, JobsKept
<1>3. rules > 0 => rules' > 0
  BY Monotone, TypeStep DEF TypeOK
<1> QED
  BY <1>1, <1>2, <1>3, Monotone DEF StatusEarned

LEMMA CommitEarns ==
  ASSUME TypeOK, StatusEarned, ChecksHold, NEW r \in Requests, Commit(r)
  PROVE  StatusEarned'
<1>1. JobsKept /\ [Next]_vars
  BY RequestKeepsJobs DEF Next
<1>2. req[r] \in Writing
  BY Phases DEF Commit, ScanAt
<1>3. case' = RowAfter(req[r])
  BY DEF Commit
<1>4. CASE case'.status = case.status
  BY <1>1, <1>4, EarnedKept
<1>5. CASE case'.status # case.status
  <2> DEFINE op == req[r].op
  <2>1. op \notin Bystanders
    BY <1>3, <1>5 DEF RowAfter, Bystanders
  <2>2. op \in DOMAIN Target /\ req[r].was \in Rows /\ case \in Rows
    BY <1>2, <2>1, ConstantsAssumption DEF Writing, TypeOK
  <2>3. case'.status = Target[op].status
    <3>1. CASE op = "discover"
      <4>1. case' = Written(Row("DISCOVERY_RUNNING", 3), Target[op])
        BY <1>3, <2>1, <3>1 DEF RowAfter, Bystanders
      <4> QED
        BY <1>5, <2>2, <4>1, RowTypes, WrittenType
    <3>2. CASE op # "discover"
      <4>1. case' = Written(req[r].was, Target[op])
        BY <1>3, <2>1, <3>2 DEF RowAfter
      <4> QED
        BY <1>5, <2>2, <4>1, RowTypes, WrittenType
    <3> QED
      BY <3>1, <3>2
  <2>4. /\ op = "match" => reference'
        /\ op = "confirm" => match' # "none"
        /\ op \in {"graph", "verify"} => results'
    BY <1>1, Monotone DEF Commit, ChecksHold, ScanAt
  <2>5. op = "monitor" => rules' > 0
    <3>1. req[r].rules \in Nat /\ req[r].rules <= rules /\ rules \in Nat
      BY <1>2, ConstantsAssumption DEF Writing, ChecksHold, Commit, ScanAt, TypeOK
    <3> QED
      BY <3>1 DEF Commit, RuleInserted
  <2>6. op = "discover" => JobWith("COMPLETED")'
    <3> SUFFICES ASSUME op = "discover" PROVE JobWith("COMPLETED")'
      OBVIOUS
    <3> DEFINE job == [status |-> "COMPLETED", boot |-> -1]
    <3>1. job \in Job /\ jobs \in Seq(Job) /\ jobs' = Append(jobs, job)
      BY ConstantsAssumption DEF Job, Commit, JobInserted, TypeOK
    <3>2. jobs'[Len(jobs) + 1] = job /\ Len(jobs) + 1 \in DOMAIN jobs'
      BY <3>1, Appended
    <3> QED
      BY <3>2 DEF JobWith
  <2>7. /\ Target.upload.status = "VALIDATED"
        /\ Target.match.status = "MATCH_CONFIRMED"
        /\ Target.confirm.status = "MATCH_CONFIRMED"
        /\ Target.discover.status = "DISCOVERY_COMPLETE"
        /\ Target.graph.status = "AWAITING_VERIFICATION"
        /\ Target.verify.status = "EVIDENCE_READY"
        /\ Target.risk.status = "RISK_ASSESSED"
        /\ Target.report.status = "REPORT_READY"
        /\ Target.monitor.status = "MONITORING_ACTIVE"
        /\ DOMAIN Target = {"upload", "match", "confirm", "discover", "graph", "verify",
                            "risk", "report", "monitor"}
    BY DEF Target, Row, Uploaded, Matched, Confirmed, Discovered, Correlated, Verified,
         Assessed, Reported, Monitored
  <2> HIDE DEF op
  <2> QED
    BY <2>2, <2>3, <2>4, <2>5, <2>6, <2>7 DEF StatusEarned
<1> QED
  BY <1>4, <1>5

LEMMA ScanEarns ==
  ASSUME TypeOK, StatusEarned, JobPhases, NEW r \in Requests, ScanStep(r)
  PROVE  StatusEarned'
<1> DEFINE i == req[r].job
<1>1. /\ req[r].was \in Rows /\ case \in Rows /\ i \in DOMAIN jobs
      /\ Row("DISCOVERY_RUNNING", req[r].was.stage) \in Rows
      /\ Row("VALIDATED", req[r].was.stage) \in Rows
      /\ Row("DISCOVERY_COMPLETE", 4) \in Rows
  BY ScanMoves, RowTypes DEF Scanning, TypeOK
<1>2. i \in DOMAIN jobs' /\ DOMAIN jobs' = DOMAIN jobs
  BY <1>1, ScanMoves
<1>3. CASE RunScan(r)
  <2>1. JobWith("RUNNING")'
    BY <1>2, <1>3, ScanMoves DEF JobWith
  <2>2. JobWith("COMPLETED") => JobWith("COMPLETED")'
    <3> SUFFICES ASSUME NEW k \in DOMAIN jobs, jobs[k].status = "COMPLETED"
                 PROVE  jobs'[k].status = "COMPLETED" /\ k \in DOMAIN jobs'
      BY DEF JobWith
    <3>1. k # i
      BY ScanMoves
    <3> QED
      BY <1>2, <3>1, ScanMoves
  <2>3. case'.status \in {case.status, "DISCOVERY_RUNNING"}
    <3>1. case' = Written(req[r].was, Row("DISCOVERY_RUNNING", req[r].was.stage))
      BY <1>3 DEF RunScan
    <3> QED
      BY <1>1, <3>1, WrittenType DEF Row
  <2>4. UNCHANGED <<match, reference, results, rules>>
    BY <1>3 DEF RunScan
  <2> QED
    BY <2>1, <2>2, <2>3, <2>4 DEF StatusEarned
<1>4. CASE CompleteScan(r)
  <2>1. JobWith("COMPLETED")'
    BY <1>2, <1>4, ScanMoves DEF JobWith
  <2>2. req[r].was.status = "DISCOVERY_RUNNING"
    BY <1>4 DEF CompleteScan, JobPhases
  <2>3. case' = Written(req[r].was, Row("DISCOVERY_COMPLETE", 4))
    BY <1>4 DEF CompleteScan
  <2>4. case'.status = "DISCOVERY_COMPLETE"
    BY <1>1, <2>2, <2>3, WrittenType DEF Row
  <2> QED
    BY <2>1, <2>4 DEF StatusEarned
<1>5. CASE FailScan(r)
  <2>1. req[r].was.status = "DISCOVERY_RUNNING"
    BY <1>5 DEF FailScan, JobPhases
  <2>2. case' = Written(req[r].was, Row("VALIDATED", req[r].was.stage))
    BY <1>5 DEF FailScan
  <2>3. case'.status = "VALIDATED"
    BY <1>1, <2>1, <2>2, WrittenType DEF Row
  <2> QED
    BY <2>3 DEF StatusEarned
<1> QED
  BY <1>3, <1>4, <1>5 DEF ScanStep

LEMMA StatusStep ==
  ASSUME TypeOK, StatusEarned, JobPhases, ChecksHold, [Next]_vars
  PROVE  StatusEarned'
<1>1. CASE (\E r \in Requests : ScanStep(r) \/ Commit(r))
  BY <1>1, ScanEarns, CommitEarns
<1>2. CASE ~ \E r \in Requests : ScanStep(r) \/ Commit(r)
  <2>1. JobsKept
    BY <1>2, JobsStep
  <2>2. case' = case
    <3>1. CASE \/ UNCHANGED vars
               \/ \E x \in Streams : Subscribe(x) \/ EndStream(x) \/ Leave(x)
               \/ ScanRefused \/ SlotExpires \/ Restart
      BY <3>1 DEF vars, stored, Subscribe, EndStream, Leave, ScanRefused, SlotExpires,
                  Restart
    <3>2. ASSUME NEW r \in Requests,
                 \/ \E op \in Operations : Load(r, op)
                 \/ BeginScan(r) \/ Announce(r) \/ Abort(r)
          PROVE  case' = case
      BY <3>2 DEF Load, BeginScan, Announce, Abort, stored
    <3> QED
      BY <1>2, <3>1, <3>2 DEF Next, ScanStep
  <2> QED
    BY <2>1, <2>2, EarnedKept
<1> QED
  BY <1>1, <1>2

-----------------------------------------------------------------------------
(* The event streams. *)

LEMMA EventStep ==
  ASSUME TypeOK, JobPhases, JobsNamed, EventAfterCommit, [Next]_vars
  PROVE  EventAfterCommit' /\ JobsNamed'
<1> SUFFICES ASSUME NEW x \in Streams, stream'[x].at = "told"
             PROVE  /\ stream'[x].job \in DOMAIN jobs'
                    /\ jobs'[stream'[x].job].status = stream'[x].step
  BY DEF EventAfterCommit, JobsNamed
<1>0. stream \in [Streams -> Stream]
  BY DEF TypeOK, Stream
<1>1. CASE stream'[x] = stream[x]
  <2>1. stream[x].job \in DOMAIN jobs /\ jobs[stream[x].job].status = stream[x].step
    BY <1>1 DEF EventAfterCommit, JobsNamed
  <2>2. stream[x].step \in {"COMPLETED", "FAILED"}
    BY <1>0, <1>1 DEF Stream, Quiet, Listening, Told
  <2> QED
    BY <1>1, <2>1, <2>2, OutcomeStep
<1>2. ASSUME NEW r \in Requests, Announce(r), stream'[x] # stream[x]
      PROVE  /\ stream'[x].job \in DOMAIN jobs'
             /\ jobs'[stream'[x].job].status = stream'[x].step
  <2>1. stream'[x] = Outcome(req[r])
    BY <1>0, <1>2 DEF Announce
  <2>2. req[r].job \in DOMAIN jobs
    BY <1>2, Phases DEF Announce, ScanAt
  <2>3. jobs[req[r].job].status = Outcome(req[r]).step
    BY <1>2 DEF Announce, JobPhases, ScanAt, Outcome
  <2>4. Outcome(req[r]).job = req[r].job /\ jobs' = jobs
    BY <1>2 DEF Outcome, Announce, stored
  <2> QED
    BY <2>1, <2>2, <2>3, <2>4
<1>3. CASE stream'[x] # stream[x]
  <2>1. stream'[x] \notin {Quiet, Listening}
    BY DEF Quiet, Listening
  <2>2. ~ (\E y \in Streams : Subscribe(y) \/ EndStream(y) \/ Leave(y))
    BY <1>0, <1>3, <2>1 DEF Subscribe, EndStream, Leave
  <2>3. ~ Restart
    BY <2>1 DEF Restart
  <2>4. ~ (UNCHANGED vars \/ ScanRefused \/ SlotExpires)
    BY <1>3 DEF vars, memory, ScanRefused, SlotExpires
  <2>5. ASSUME NEW r \in Requests,
               \/ \E op \in Operations : Load(r, op)
               \/ Commit(r) \/ BeginScan(r) \/ ScanStep(r) \/ Abort(r)
        PROVE  FALSE
    BY <1>3, <2>5 DEF Load, Commit, BeginScan, ScanStep, RunScan, CompleteScan, FailScan,
                      Abort, memory
  <2> QED
    BY <1>2, <1>3, <2>2, <2>3, <2>4, <2>5 DEF Next, ScanStep
<1> QED
  BY <1>1, <1>3

-----------------------------------------------------------------------------
(* The cost of the scans. *)

\* The jobs of the scans that this process has charged for.
JobsOf(boot) == {i \in DOMAIN jobs : jobs[i].boot = boot}

LEMMA JobsFinite ==
  ASSUME TypeOK, NEW boot
  PROVE  IsFiniteSet(JobsOf(boot)) /\ Cardinality(JobsOf(boot)) \in Nat
<1>1. DOMAIN jobs = 1..Len(jobs) /\ Len(jobs) \in Nat
  BY DEF TypeOK
<1>2. IsFiniteSet(1..Len(jobs))
  BY <1>1, FS_Interval
<1>3. JobsOf(boot) \in SUBSET (1..Len(jobs))
  BY <1>1 DEF JobsOf
<1> QED
  BY <1>2, <1>3, FS_Subset, FS_CardinalityType

Charges == /\ \A i \in DOMAIN jobs : jobs[i].boot <= boots
           /\ Cardinality(JobsOf(boots)) <= spend

LEMMA ChargeStep ==
  ASSUME TypeOK, Charges, JobPhases, [Next]_vars
  PROVE  Charges'
<1>1. boots \in Nat /\ spend \in Nat /\ jobs \in Seq(Job)
  BY ConstantsAssumption DEF TypeOK
<1>2. ASSUME boots' = boots, spend' \in Nat, spend <= spend', DOMAIN jobs' = DOMAIN jobs,
             \A i \in DOMAIN jobs : jobs'[i].boot = jobs[i].boot
      PROVE  Charges'
  <2>1. JobsOf(boots)' = JobsOf(boots)
    BY <1>2 DEF JobsOf
  <2>2. Cardinality(JobsOf(boots)) \in Nat
    BY JobsFinite
  <2> QED
    BY <1>1, <1>2, <2>1, <2>2 DEF Charges
<1>3. CASE UNCHANGED <<jobs, spend, boots>>
  BY <1>1, <1>2, <1>3
<1>4. CASE \E x \in Streams : Subscribe(x) \/ EndStream(x) \/ Leave(x)
  BY <1>3, <1>4 DEF Subscribe, EndStream, Leave, stored
<1>5. CASE ScanRefused
  BY <1>1, <1>2, <1>5 DEF ScanRefused, Charged, stored
<1>6. CASE Restart
  <2>1. JobsOf(boots)' = {}
    BY <1>1, <1>6 DEF Restart, stored, JobsOf, Charges, Job
  <2>2. \A i \in DOMAIN jobs' : jobs'[i].boot <= boots'
    <3>1. \A i \in DOMAIN jobs : jobs[i] \in Job
      BY <1>1
    <3>2. \A i \in DOMAIN jobs : jobs[i].boot \in Int
      BY <3>1, ConstantsAssumption DEF Job
    <3> QED
      BY <1>1, <1>6, <3>2 DEF Restart, stored, Charges
  <2>3. Cardinality(JobsOf(boots)') = 0
    BY <2>1, FS_EmptySet
  <2>4. spend' = 0
    BY <1>6 DEF Restart
  <2> QED
    BY <2>2, <2>3, <2>4 DEF Charges
<1>7. ASSUME NEW r \in Requests, Commit(r) PROVE Charges'
  <2> DEFINE job == [status |-> "COMPLETED", boot |-> -1]
  <2>1. CASE jobs' = jobs
    BY <1>3, <1>7, <2>1 DEF Commit, memory
  <2>2. CASE jobs' = Append(jobs, job)
    <3>1. job \in Job
      BY ConstantsAssumption DEF Job
    <3>2. /\ \A i \in DOMAIN jobs : i \in DOMAIN jobs' /\ jobs'[i] = jobs[i]
          /\ jobs'[Len(jobs) + 1] = job
          /\ DOMAIN jobs' = DOMAIN jobs \cup {Len(jobs) + 1}
      BY <1>1, <2>2, <3>1, Appended
    <3>3. boots' = boots /\ spend' = spend
      BY <1>7 DEF Commit, memory
    <3>4. JobsOf(boots)' = JobsOf(boots)
      BY <1>1, <3>2, <3>3 DEF JobsOf
    <3>5. \A i \in DOMAIN jobs' : jobs'[i].boot <= boots'
      BY <1>1, <3>2, <3>3 DEF Charges
    <3> QED
      BY <3>3, <3>4, <3>5 DEF Charges
  <2> QED
    BY <1>7, <2>1, <2>2 DEF Commit, JobInserted
<1>8. ASSUME NEW r \in Requests, BeginScan(r) PROVE Charges'
  <2> DEFINE job == [status |-> "PENDING", boot |-> boots]
  <2>1. job \in Job
    BY ConstantsAssumption DEF Job, TypeOK
  <2>2. /\ \A i \in DOMAIN jobs : i \in DOMAIN jobs' /\ jobs'[i] = jobs[i]
        /\ jobs'[Len(jobs) + 1] = job
        /\ DOMAIN jobs' = DOMAIN jobs \cup {Len(jobs) + 1}
    BY <1>1, <1>8, <2>1, Appended DEF BeginScan
  <2>3. boots' = boots /\ spend' = spend + 1
    BY <1>8 DEF BeginScan, Charged
  <2>4. JobsOf(boots)' = JobsOf(boots) \cup {Len(jobs) + 1}
    BY <2>2, <2>3 DEF JobsOf
  <2>5. IsFiniteSet(JobsOf(boots)) /\ Cardinality(JobsOf(boots)) \in Nat
    BY JobsFinite
  <2>6. /\ Cardinality(JobsOf(boots)') \in Nat
        /\ Cardinality(JobsOf(boots)') <= Cardinality(JobsOf(boots)) + 1
    <3> DEFINE before == JobsOf(boots)
               after  == before \cup {Len(jobs) + 1}
    <3>1. IsFiniteSet(before) /\ Cardinality(before) \in Nat
      BY <2>5
    <3> HIDE DEF before
    <3>2. Cardinality(after) \in {Cardinality(before), Cardinality(before) + 1}
      BY <3>1, FS_AddElement
    <3>3. Cardinality(after) \in Nat /\ Cardinality(after) <= Cardinality(before) + 1
      BY <3>1, <3>2
    <3> QED
      BY <2>4, <3>3 DEF before
  <2>7. \A i \in DOMAIN jobs' : jobs'[i].boot <= boots'
    BY <1>1, <2>2, <2>3 DEF Charges
  <2> QED
    BY <1>1, <2>3, <2>5, <2>6, <2>7 DEF Charges
<1>9. ASSUME NEW r \in Requests, ScanStep(r) PROVE Charges'
  <2>1. boots' = boots /\ spend' = spend
    BY <1>9 DEF ScanStep, RunScan, CompleteScan, FailScan, memory
  <2> QED
    BY <1>1, <1>2, <1>9, <2>1, ScanMoves
<1>10. ASSUME NEW r \in Requests,
              (\E op \in Operations : Load(r, op)) \/ Announce(r) \/ Abort(r)
       PROVE  Charges'
  BY <1>3, <1>10 DEF Load, Announce, Abort, stored, memory
<1>11. CASE UNCHANGED vars \/ SlotExpires
  BY <1>3, <1>11 DEF vars, stored, memory, SlotExpires
<1> QED
  BY <1>4, <1>5, <1>6, <1>7, <1>8, <1>9, <1>10, <1>11 DEF Next, ScanStep

-----------------------------------------------------------------------------
\* IInv holds initially and every step of the server keeps it.
THEOREM Invariant == Spec => []IInv
<1>1. Init => JobPhases /\ JobsApart /\ ChecksHold /\ JobsNamed
  BY DEF Init, JobPhases, JobsApart, ChecksHold, JobsNamed, ScanAt, Idle, Quiet
<1>2. Init => StatusEarned /\ EventAfterCommit
  BY DEF Init, StatusEarned, EventAfterCommit, Row, Quiet
<1>3. Init => JobBoots /\ EveryScanCharged
  <2> SUFFICES ASSUME Init PROVE JobBoots /\ EveryScanCharged
    OBVIOUS
  <2>1. {i \in DOMAIN jobs : jobs[i].boot = boots} = {}
    BY DEF Init
  <2> QED
    BY <2>1, FS_EmptySet DEF Init, JobBoots, EveryScanCharged
<1>4. TypeOK /\ IInv /\ [Next]_vars => IInv'
  <2> SUFFICES ASSUME TypeOK, IInv, [Next]_vars PROVE IInv'
    OBVIOUS
  <2>1. TypeOK'
    BY TypeStep
  <2>2. JobPhases' /\ JobsApart'
    BY PhasesStep DEF IInv
  <2>3. ChecksHold'
    BY ChecksStep DEF IInv
  <2>4. StatusEarned'
    BY StatusStep DEF IInv
  <2>5. EventAfterCommit' /\ JobsNamed'
    BY EventStep DEF IInv
  <2>6. JobBoots' /\ EveryScanCharged'
    BY ChargeStep DEF IInv, JobBoots, EveryScanCharged, Charges, JobsOf
  <2> QED
    BY <2>1, <2>2, <2>3, <2>4, <2>5, <2>6 DEF IInv
<1>5. Init /\ TypeOK => IInv
  BY <1>1, <1>2, <1>3 DEF IInv
<1> QED
  BY <1>4, <1>5, TypeCorrect, PTL DEF Spec

\* However requests interleave and their columns mix, a status that the case
\* shows was earned.
THEOREM Earned == Spec => []StatusEarned
<1>1. IInv => StatusEarned
  BY DEF IInv
<1> QED
  BY <1>1, Invariant, PTL

\* The final event of a stream names an outcome that has been committed.
THEOREM CommittedFirst == Spec => []EventAfterCommit
<1>1. IInv => EventAfterCommit
  BY DEF IInv
<1> QED
  BY <1>1, Invariant, PTL

\* The scans of a process are at most what its budget was charged for.
THEOREM ScansPaid == Spec => []EveryScanCharged
<1>1. IInv => EveryScanCharged
  BY DEF IInv
<1> QED
  BY <1>1, Invariant, PTL

\* A job that has completed or failed is never moved or removed.
THEOREM OutcomesStand == Spec => OutcomeStands
<1> DEFINE Stand == \A i \in DOMAIN jobs :
      /\ i \in DOMAIN jobs'
      /\ jobs[i].status \in {"COMPLETED", "FAILED"} => jobs'[i] = jobs[i]
<1>1. IInv /\ [Next]_vars => [Stand]_vars
  BY OutcomeStep DEF IInv
<1> QED
  BY <1>1, Invariant, PTL DEF Spec, OutcomeStands
=============================================================================
