--------------------------- MODULE CaseLifecycle ----------------------------
(***************************************************************************)
(* One case and everything that moves it: the endpoints that write the     *)
(* columns status and current_stage of its row, the exposure scans with    *)
(* their search jobs, the event streams that follow a scan, and the rate   *)
(* and cost counters that admit it.                                        *)
(*                                                                         *)
(* A request loads the row when it begins and writes it when it commits,   *)
(* and the ORM writes only the columns that differ from the loaded value:  *)
(* the request may overwrite one column of a concurrent one and leave the  *)
(* other.  A scan commits three times within one request.  Streams and     *)
(* counters live in the memory of the server process.                      *)
(***************************************************************************)
EXTENDS Integers, Sequences, FiniteSets

CONSTANTS
  Requests,        \* requests in flight together
  Streams,         \* event streams that clients may open
  Operations,      \* endpoints of a single commit that clients call
  MaxScansPerHour, \* rate limit of the organization
  Budget,          \* scans that the monthly budget pays for
  MaxJobs,         \* bound: search jobs of the case
  MaxRules,        \* bound: monitoring rules of the case
  MaxRestarts      \* bound: restarts of the server

VARIABLES
  case,       \* columns status and current_stage
  match,      \* the dataset match: "none", "candidate" or "confirmed"
  reference,  \* whether the case has a reference image
  results,    \* whether the case has search results
  jobs,       \* the search jobs, oldest first
  rules,      \* number of monitoring rules
  req,        \* what each request is doing
  stream,     \* what each event stream has been told
  scans,      \* rate slots used in the last hour
  spend,      \* scans charged to the budget
  boots       \* restarts of the server

stored == <<case, match, reference, results, jobs, rules>>
memory == <<stream, scans, spend, boots>>
vars   == <<stored, req, memory>>

-----------------------------------------------------------------------------
Row(status, stage) == [status |-> status, stage |-> stage]

\* The row that each endpoint assigns to the case, once it has no more to do.
Uploaded == Row("VALIDATED", 2)               \* a usable reference image
Matched == Row("MATCH_CONFIRMED", 3)          \* candidates evaluated
Confirmed == Row("MATCH_CONFIRMED", 3)        \* a match confirmed by an analyst
Discovered == Row("DISCOVERY_COMPLETE", 4)
Correlated == Row("AWAITING_VERIFICATION", 4)
Verified == Row("EVIDENCE_READY", 6)
Assessed == Row("RISK_ASSESSED", 7)
Reported == Row("REPORT_READY", 8)
Monitored == Row("MONITORING_ACTIVE", 9)

Target == [
  upload   |-> Uploaded,
  match    |-> Matched,
  confirm  |-> Confirmed,
  discover |-> Discovered,
  graph    |-> Correlated,
  verify   |-> Verified,
  risk     |-> Assessed,
  report   |-> Reported,
  monitor  |-> Monitored]

\* The endpoints that change other tables and leave the row of the case alone:
\* "unusable" is the capture of a photo without exactly one good face.
Bystanders == {"unusable", "search", "reject", "pause"}

ASSUME ConstantsAssumption ==
  /\ Operations \subseteq (DOMAIN Target \cup Bystanders)
  /\ {MaxScansPerHour, Budget, MaxJobs, MaxRules, MaxRestarts} \subseteq Nat

Rows ==
  [status : {Target[o].status : o \in DOMAIN Target}
              \cup {"DRAFT", "DISCOVERY_RUNNING"},
   stage  : {Target[o].stage : o \in DOMAIN Target} \cup {1}]

Job == [status : {"PENDING", "RUNNING", "COMPLETED", "FAILED"},
        boot   : -1..MaxRestarts]   \* -1: a discovery nobody charges for

\* A request that was cut off is remembered until the next takes its place.
Idle    == [at |-> "idle"]
Cut     == [at |-> "cut"]
Writing == [at : {"writing"}, op : Operations, was : Rows, rules : 0..MaxRules]
Scanning ==
  [at : {"queued", "running"}, was : Rows, job : 1..MaxJobs]
Announcing == [at : {"completed", "failed"}, job : 1..MaxJobs]

Quiet     == [at |-> "off"]
Listening == [at |-> "listening"]
Told      == [at : {"told"}, step : {"COMPLETED", "FAILED"}, job : 1..MaxJobs]

ScanAt(r, phases) == req[r].at \in phases

Free(r) == ScanAt(r, {"idle", "cut"})

\* An UPDATE of the row as it is now, from a session that loaded `was` and has
\* assigned `to`: the columns assigned the value they were loaded with are not
\* part of it.
Written(was, to) == [col \in {"status", "stage"} |->
  IF to[col] = was[col] THEN case[col] ELSE to[col]]

Init ==
  /\ case = Row("DRAFT", 1)
  /\ match = "none"
  /\ reference = FALSE
  /\ results = FALSE
  /\ jobs = <<>>
  /\ rules = 0
  /\ req = [r \in Requests |-> Idle]
  /\ stream = [x \in Streams |-> Quiet]
  /\ scans = 0
  /\ spend = 0
  /\ boots = 0

-----------------------------------------------------------------------------
(* The endpoints of a single commit. *)

\* What an endpoint checks of the case before it goes on.
Possible(op) ==
  /\ op = "match" => reference
  /\ op \in {"confirm", "reject"} => match # "none"
  /\ op \in {"graph", "verify"} => results
  \* scalar_one_or_none raises on a second rule of the case
  /\ op \in {"monitor", "pause"} => rules <= 1
  \* Bounds: one candidate, MaxJobs discoveries and scans.
  /\ op = "search" => match = "none"
  /\ op = "discover" => Len(jobs) < MaxJobs

\* The request loads the case and what it checks.
Load(r, op) ==
  /\ Free(r)
  /\ Possible(op)
  /\ req' = [req EXCEPT ![r] =
       [at |-> "writing", op |-> op, was |-> case, rules |-> rules]]
  /\ UNCHANGED <<stored, memory>>

\* The legacy discovery flushes DISCOVERY_RUNNING before it assigns the rest.
RowAfter(q) ==
  CASE q.op \in Bystanders -> case
    [] q.op = "discover"   -> Written(Row("DISCOVERY_RUNNING", 3), Target[q.op])
    [] OTHER               -> Written(q.was, Target[q.op])

\* search_dataset adds a candidate, which the analyst confirms or not.
MatchAfter(q) ==
  CASE q.op = "search"  -> IF match = "none" THEN "candidate" ELSE match
    [] q.op = "confirm" -> "confirmed"
    [] q.op = "reject"  -> "candidate"
    [] OTHER            -> match

\* A captured photo is kept as a reference image, usable or not.
ReferenceAfter(q) == reference \/ q.op \in {"upload", "unusable"}

\* create_or_update_rule inserts a rule when it found none at the start (bound:
\* room for it).
RuleInserted(q) ==
  IF q.op \in {"monitor", "pause"} /\ q.rules = 0
  THEN rules < MaxRules /\ rules' = rules + 1
  ELSE rules' = rules

\* The legacy discovery runs to its end within the request.
JobInserted(q) ==
  IF q.op = "discover"
  THEN /\ Len(jobs) < MaxJobs
       /\ jobs' = Append(jobs, [status |-> "COMPLETED", boot |-> -1])
  ELSE jobs' = jobs

Commit(r) ==
  LET q == req[r] IN
  /\ q.at = "writing"
  /\ case' = RowAfter(q)
  /\ match' = MatchAfter(q)
  /\ reference' = ReferenceAfter(q)
  /\ \E found \in BOOLEAN :
       results' = (results \/ (q.op = "discover" /\ found))
  /\ JobInserted(q)
  /\ RuleInserted(q)
  /\ req' = [req EXCEPT ![r] = Idle]
  /\ UNCHANGED memory

-----------------------------------------------------------------------------
(* The exposure scan. *)

\* check_rate_and_budget when both counters admit the scan.
Charged ==
  /\ scans < MaxScansPerHour
  /\ scans' = scans + 1
  /\ spend < Budget
  /\ spend' = spend + 1

\* start_exposure_scan: the scan is charged and its job committed.
BeginScan(r) ==
  /\ Free(r)
  /\ Len(jobs) < MaxJobs
  /\ Charged
  /\ jobs' = Append(jobs, [status |-> "PENDING", boot |-> boots])
  /\ req' = [req EXCEPT ![r] = [at |-> "queued", was |-> case, job |-> Len(jobs) + 1]]
  /\ UNCHANGED <<case, match, reference, results, rules, stream, boots>>

\* The budget refuses a scan, or the job of an admitted one is not committed:
\* the slot, and in the second case the money, are gone.
ScanRefused ==
  \/ /\ scans < MaxScansPerHour /\ spend = Budget
     /\ scans' = scans + 1
     /\ UNCHANGED <<stored, req, stream, spend, boots>>
  \/ Charged /\ UNCHANGED <<stored, req, stream, boots>>

JobIs(i, status) == jobs' = [jobs EXCEPT ![i].status = status]

\* run_scan_pipeline, first commit.
RunScan(r) ==
  LET running == Row("DISCOVERY_RUNNING", req[r].was.stage) IN
  /\ ScanAt(r, {"queued"})
  /\ case' = Written(req[r].was, running)
  /\ JobIs(req[r].job, "RUNNING")
  /\ req' = [req EXCEPT ![r] = [at |-> "running", was |-> running, job |-> @.job]]
  /\ UNCHANGED <<match, reference, results, rules, memory>>

\* run_scan_pipeline, second commit, with or without findings.
CompleteScan(r) ==
  /\ ScanAt(r, {"running"})
  /\ case' = Written(req[r].was, Row("DISCOVERY_COMPLETE", 4))
  /\ JobIs(req[r].job, "COMPLETED")
  /\ \E found \in BOOLEAN : results' = (results \/ found)
  /\ req' = [req EXCEPT ![r] = [at |-> "completed", job |-> @.job]]
  /\ UNCHANGED <<match, reference, rules, memory>>

\* Seeded fault: a failed scan leaves the case as it found it.
FailScanKeeping(r) ==
  /\ ScanAt(r, {"running"})
  /\ JobIs(req[r].job, "FAILED")
  /\ req' = [req EXCEPT ![r] = [at |-> "failed", job |-> @.job]]
  /\ UNCHANGED <<case, match, reference, results, rules, memory>>

\* Seeded fault: an error after the second commit fails the scan as well.
FailScanLate(r) ==
  /\ ScanAt(r, {"running", "completed"})
  /\ case' = [case EXCEPT !.status = "VALIDATED"]
  /\ JobIs(req[r].job, "FAILED")
  /\ req' = [req EXCEPT ![r] = [at |-> "failed", job |-> @.job]]
  /\ UNCHANGED <<match, reference, results, rules, memory>>

\* run_scan_pipeline's handler of an exception that is not the database's.
FailScan(r) ==
  /\ ScanAt(r, {"running"})
  /\ case' = Written(req[r].was, Row("VALIDATED", req[r].was.stage))
  /\ JobIs(req[r].job, "FAILED")
  /\ req' = [req EXCEPT ![r] = [at |-> "failed", job |-> @.job]]
  /\ UNCHANGED <<match, reference, results, rules, memory>>

Outcome(q) == [at   |-> "told", job |-> q.job,
               step |-> IF q.at = "failed" THEN "FAILED" ELSE "COMPLETED"]

\* Seeded fault: the final event is broadcast while the results are written.
AnnounceEarly(r) ==
  /\ ScanAt(r, {"running", "completed", "failed"})
  /\ stream' = [x \in Streams |->
       IF stream[x] = Listening THEN Outcome(req[r]) ELSE stream[x]]
  /\ req' = [req EXCEPT ![r] = IF @.at = "running" THEN @ ELSE Idle]
  /\ UNCHANGED <<stored, scans, spend, boots>>

\* Seeded fault: only success is announced.
AnnounceSuccess(r) ==
  /\ ScanAt(r, {"completed", "failed"})
  /\ stream' = [x \in Streams |->
       IF stream[x] = Listening /\ req[r].at = "completed"
       THEN Outcome(req[r]) ELSE stream[x]]
  /\ req' = [req EXCEPT ![r] = Idle]
  /\ UNCHANGED <<stored, scans, spend, boots>>

\* The final event of the scan, broadcast to every open stream of the case.
\* A stream that has its final event already takes no notice of another.
Announce(r) ==
  /\ ScanAt(r, {"completed", "failed"})
  /\ stream' = [x \in Streams |->
       IF stream[x] = Listening THEN Outcome(req[r]) ELSE stream[x]]
  /\ req' = [req EXCEPT ![r] = Idle]
  /\ UNCHANGED <<stored, scans, spend, boots>>

\* The database fails the request, or it is cancelled: nothing more is
\* committed (in a scan, the handler's commit fails as well) or announced.
Abort(r) ==
  /\ ~Free(r)
  /\ req' = [req EXCEPT ![r] = Cut]
  /\ UNCHANGED <<stored, memory>>

-----------------------------------------------------------------------------
(* Streams, time and restarts. *)

\* stream_investigation_events.
Subscribe(x) ==
  /\ stream[x] = Quiet
  /\ stream' = [stream EXCEPT ![x] = Listening]
  /\ UNCHANGED <<stored, req, scans, spend, boots>>

\* The stream ends after its final event, or the client leaves.
EndStream(x) ==
  /\ stream[x].at = "told"
  /\ stream' = [stream EXCEPT ![x] = Quiet]
  /\ UNCHANGED <<stored, req, scans, spend, boots>>

Leave(x) ==
  /\ stream[x] = Listening
  /\ stream' = [stream EXCEPT ![x] = Quiet]
  /\ UNCHANGED <<stored, req, scans, spend, boots>>

\* The oldest slot is more than an hour old.  The spend is never reset.
SlotExpires ==
  /\ scans > 0
  /\ scans' = scans - 1
  /\ UNCHANGED <<stored, req, stream, spend, boots>>

Restart ==
  /\ boots < MaxRestarts
  /\ boots' = boots + 1
  /\ req' = [r \in Requests |-> IF Free(r) THEN req[r] ELSE Cut]
  /\ stream' = [x \in Streams |-> Quiet]
  /\ scans' = 0
  /\ spend' = 0
  /\ UNCHANGED stored

Next ==
  \/ \E r \in Requests :
       \/ \E op \in Operations : Load(r, op)
       \/ Commit(r) \/ BeginScan(r) \/ RunScan(r) \/ CompleteScan(r)
       \/ FailScan(r) \/ Announce(r) \/ Abort(r)
  \/ \E x \in Streams : Subscribe(x) \/ EndStream(x) \/ Leave(x)
  \/ ScanRefused \/ SlotExpires \/ Restart

\* A scan is one coroutine that nothing makes wait for ever: the provider calls
\* have timeouts.  A stream that has an event is written.
Fairness ==
  /\ \A r \in Requests :
       /\ WF_vars(RunScan(r))
       /\ WF_vars(CompleteScan(r) \/ FailScan(r))
       /\ WF_vars(Announce(r))
  /\ \A x \in Streams : WF_vars(EndStream(x))

Spec == Init /\ [][Next]_vars /\ Fairness

-----------------------------------------------------------------------------
(* Properties. *)

\* The shape of every variable, and the foreign key of the scans' jobs.
TypeOK ==
  /\ case \in Rows
  /\ match \in {"none", "candidate", "confirmed"}
  /\ {reference, results} \subseteq BOOLEAN
  /\ jobs \in Seq(Job) /\ Len(jobs) <= MaxJobs
  /\ rules \in 0..MaxRules
  /\ req \in [Requests -> {Idle, Cut} \cup Writing \cup Scanning \cup Announcing]
  /\ \A r \in Requests :
       ScanAt(r, {"queued", "running", "completed", "failed"}) => req[r].job <= Len(jobs)
  /\ stream \in [Streams -> {Quiet, Listening} \cup Told]
  /\ scans \in 0..MaxScansPerHour /\ spend \in 0..Budget /\ boots \in 0..MaxRestarts

JobWith(status) == \E i \in DOMAIN jobs : jobs[i].status = status

\* Whatever order concurrent requests commit in, and however their columns mix,
\* a status the case shows was earned: a job is under way behind
\* DISCOVERY_RUNNING, one has completed behind DISCOVERY_COMPLETE, there are
\* results to verify, a reference or a candidate behind MATCH_CONFIRMED, a rule
\* behind MONITORING_ACTIVE.
StatusEarned ==
  /\ case.status = "DISCOVERY_RUNNING" => JobWith("RUNNING")
  /\ case.status = "DISCOVERY_COMPLETE" => JobWith("COMPLETED")
  /\ case.status \in {"AWAITING_VERIFICATION", "EVIDENCE_READY"} => results
  /\ case.status = "MATCH_CONFIRMED" => reference \/ match # "none"
  /\ case.status = "MONITORING_ACTIVE" => rules > 0

\* A client that is told of an outcome finds it in the database: the final
\* event of a stream names a job that has committed as the event says.
EventAfterCommit == \A x \in Streams :
  stream[x].at = "told" => jobs[stream[x].job].status = stream[x].step

\* Every scan since the last restart is paid for, however many are in flight:
\* the jobs of this process number at most what it has charged.
EveryScanCharged ==
  Cardinality({i \in DOMAIN jobs : jobs[i].boot = boots}) <= spend

\* An outcome stands: no request of a scan, and no restart, moves a job that
\* has completed or failed, and jobs are never removed.
OutcomeStands == [][\A i \in DOMAIN jobs :
  /\ i \in DOMAIN jobs'
  /\ jobs[i].status \in {"COMPLETED", "FAILED"} => jobs'[i] = jobs[i]]_vars

\* What is begun ends.  A scan that has begun comes to an outcome, and a stream
\* that listens while one is under way gets a final event, whether the scan
\* completes or fails; unless the request of the scan is cut off (its stream then
\* waits for the next scan of the case), or the client leaves.
ScansSettle ==
  /\ \A r \in Requests :
       ScanAt(r, {"queued", "running"})
         ~> (ScanAt(r, {"completed", "failed"}) \/ req[r] = Cut)
  /\ \A x \in Streams, r \in Requests :
       (stream[x] = Listening /\ ScanAt(r, {"queued", "running", "completed", "failed"}))
         ~> (stream[x] # Listening \/ req[r] = Cut)
=============================================================================
