----------------------------- MODULE AnalysisQueue ----------------------------
(***************************************************************************)
(* The analyses of an organization.  A request writes the row of an        *)
(* analysis, puts its job on the Redis queue, and only then commits; a     *)
(* worker takes the job, runs the pipeline and commits the result, the     *)
(* alert and the new status together.  Without Redis the request runs the  *)
(* pipeline itself.  The pipeline publishes what it is about to commit to  *)
(* those who watch the analysis.                                           *)
(*                                                                         *)
(* A job that fails is not tried again, and its failure is rolled back     *)
(* with everything else: an analysis is only ever seen queued or           *)
(* completed.                                                              *)
(***************************************************************************)
EXTENDS ThreatAssessment, AlertBook

CONSTANTS
  Analyses,   \* identifiers of analyses, each used once; also the keys of
              \* the alerts that the pipeline raises
  Digests,    \* SHA-256 digests
  Contents,   \* contents submitted: the digest, what is in the whole, and in
              \* the first 200 characters, which the worker is left with
  Contexts,   \* where they were found
  Submissions,  \* submissions in flight together
  Workers,    \* worker processes
  Watchers    \* event streams

\* A submission with no content at all has none.
NoDigest == "none"

ASSUME AnalysisAssumption ==
  /\ Analyses \subseteq Keys
  /\ Contents \subseteq [digest : Digests \cup {NoDigest},
                       whole : Observation, head : Observation]
  /\ \A c, d \in Contents : c.digest = d.digest => c = d
  /\ Contexts \subseteq Context

VARIABLES
  row,      \* committed rows of the analyses
  result,   \* committed results
  queue,    \* jobs in Redis
  submission,  \* what each submission is doing
  work,     \* what each worker is doing
  told,     \* the last word published about an analysis
  watch,    \* what each stream knows; late: the last word was out when it listened
  lost,     \* history: analyses whose pipeline ended without a commit
  twins     \* history: contents with two submissions in flight together

db == <<row, result, alert>>
analysisVars == <<db, queue, submission, work, told, watch, lost, twins>>

-----------------------------------------------------------------------------
Row == [status : {"queued", "completed"}, content : Contents, context : Contexts]
NoRow == [status |-> "none"]

\* What the analyzer finds in the contents.
Observed == {x.whole : x \in Contents} \cup {x.head : x \in Contents}
Found == [o \in Observed |-> [c \in Contexts |-> Finding(o, c)]]

NoFinding == [verdict |-> "none"]

AtRest == [at |-> "rest"]

Silent == [at |-> "silent"]

AnalysisInit ==
  /\ row = [a \in Analyses |-> NoRow]
  /\ result = [a \in Analyses |-> NoFinding]
  /\ alert = [k \in Keys |-> "none"]
  /\ queue = {}
  /\ submission = [r \in Submissions |-> AtRest]
  /\ work = [w \in Workers |-> AtRest]
  /\ told = [a \in Analyses |-> "nothing"]
  /\ watch = [v \in Watchers |-> Silent]
  /\ lost = {}
  /\ twins = {}

Submits(r) == submission[r].at \in {"submitting", "finishing"}

\* Identifiers are drawn afresh, and a job keeps its identifier in use.
Unused(a) ==
  /\ row[a] = NoRow
  /\ a \notin queue \cup lost
  /\ \A r \in Submissions : Submits(r) => submission[r].id # a

-----------------------------------------------------------------------------
(* The pipeline. *)

\* What the pipeline makes of an observation, with the alerts as they are.
OutcomeOf(a, o, c) ==
  [finding |-> Found[o][c],
   how |-> IF Found[o][c].alert THEN Raising(a) ELSE "nothing"]

\* An insertion under a key that is taken fails on the spot.
Runs(a, outcome) == Fits(a, outcome.how)

\* Seeded fault: those who listen hang up only when the analysis completes.
PublishKept(a, word) ==
  /\ told' = [told EXCEPT ![a] = word]
  /\ watch' = [v \in Watchers |->
       IF watch[v].at = "subscribed" /\ watch[v].id = a /\ word = "completed"
         THEN [watch[v] EXCEPT !.at = "heard"] ELSE watch[v]]

\* Those who listen hear the last word and hang up.
Publish(a, word) ==
  /\ told' = [told EXCEPT ![a] = word]
  /\ watch' = [v \in Watchers |->
       IF watch[v].at = "subscribed" /\ watch[v].id = a
         THEN [watch[v] EXCEPT !.at = "heard"] ELSE watch[v]]

\* Seeded fault: the alert is committed on its own, before the pipeline ends.
CommitsWithoutAlert(a, outcome) ==
  /\ result' = [result EXCEPT ![a] = outcome.finding]
  /\ alert' = alert

\* Result and alert are written in one transaction.
Commits(a, outcome) ==
  /\ result' = [result EXCEPT ![a] = outcome.finding]
  /\ alert' = AfterRaising(a, outcome.how, "open")

-----------------------------------------------------------------------------
(* Submission. *)

\* Seeded fault: only analyses that have completed answer for a content.
AnsweredOnceCompleted(c) ==
  /\ c.digest # NoDigest
  /\ \E a \in Analyses : row[a].status = "completed" /\ row[a].content = c

\* A content that has an analysis is answered with it, found by the digest.
Answered(c) ==
  /\ c.digest # NoDigest
  /\ \E a \in Analyses : row[a] # NoRow /\ row[a].content = c

\* The row is flushed and the job queued; or Redis is away, and the pipeline
\* runs at once on the whole content; nobody can watch it yet.  If it fails, so
\* does the request.
SubmitBegin(r) ==
  /\ submission[r] = AtRest
  /\ \E a \in Analyses, new \in {x \in Row : x.status = "queued"} :
       LET c == new.content IN
       /\ Unused(a)
       /\ ~Answered(c)
       /\ twins' = IF \E s \in Submissions : Submits(s) /\ submission[s].row.content = c
                     THEN twins \cup {c} ELSE twins
       /\ \/ /\ queue' = queue \cup {a}
             /\ submission' = [submission EXCEPT ![r] = [at |-> "submitting", id |-> a, row |-> new]]
             /\ told' = told
          \/ LET outcome == OutcomeOf(a, c.whole, new.context) IN
             /\ Runs(a, outcome)
             /\ queue' = queue
             /\ submission' = [submission EXCEPT ![r] =
                  [at |-> "finishing", id |-> a, row |-> new, outcome |-> outcome]]
             /\ told' = [told EXCEPT ![a] = "completed"]
  /\ UNCHANGED <<db, work, watch, lost>>

SubmitCommit(r) ==
  /\ submission[r].at = "submitting"
  /\ row' = [row EXCEPT ![submission[r].id] = submission[r].row]
  /\ submission' = [submission EXCEPT ![r] = AtRest]
  /\ UNCHANGED <<result, alert, queue, work, told, watch, lost, twins>>

SubmitFinished(r) ==
  /\ submission[r].at = "finishing"
  /\ LET a == submission[r].id IN
     \/ /\ Runs(a, submission[r].outcome)
        /\ row' = [row EXCEPT ![a] = [submission[r].row EXCEPT !.status = "completed"]]
        /\ Commits(a, submission[r].outcome)
        /\ lost' = lost
     \/ /\ ~Runs(a, submission[r].outcome)
        /\ lost' = lost \cup {a}
        /\ UNCHANGED db
  /\ submission' = [submission EXCEPT ![r] = AtRest]
  /\ UNCHANGED <<queue, work, told, watch, twins>>

\* A submission that is cut short leaves its job on the queue.
SubmitCutShort(r) ==
  /\ Submits(r)
  /\ lost' = IF submission[r].at = "finishing" THEN lost \cup {submission[r].id} ELSE lost
  /\ submission' = [submission EXCEPT ![r] = AtRest]
  /\ UNCHANGED <<db, queue, work, told, watch, twins>>

-----------------------------------------------------------------------------
(* The workers. *)

\* Seeded fault: a job that finds no row is put back.
TakeAgain(w) ==
  /\ work[w] = AtRest
  /\ \E a \in queue :
       /\ row[a] # NoRow
       /\ queue' = queue \ {a}
       /\ work' = [work EXCEPT ![w] = [at |-> "working", id |-> a]]
  /\ UNCHANGED <<db, submission, told, watch, lost, twins>>

\* A job that finds no row fails; its analysis may be committed yet.
Take(w) ==
  /\ work[w] = AtRest
  /\ \E a \in queue :
       /\ queue' = queue \ {a}
       /\ IF row[a] = NoRow
            THEN work' = work /\ lost' = lost \cup {a}
            ELSE work' = [work EXCEPT ![w] = [at |-> "working", id |-> a]] /\ lost' = lost
  /\ UNCHANGED <<db, submission, told, watch, twins>>

\* The analyzer works on what is left of the content, and the outcome is
\* announced; or something fails, and that is announced.
Analyse(w) ==
  /\ work[w].at = "working"
  /\ LET a == work[w].id
         outcome == OutcomeOf(a, row[a].content.head, row[a].context)
     IN \/ /\ Runs(a, outcome)
           /\ work' = [work EXCEPT ![w] =
                [at |-> "worked", id |-> a, outcome |-> outcome]]
           /\ Publish(a, "completed")
           /\ lost' = lost
        \/ /\ work' = [work EXCEPT ![w] = AtRest]
           /\ Publish(a, "failed")
           /\ lost' = lost \cup {a}
  /\ UNCHANGED <<db, queue, submission, twins>>

Finish(w) ==
  /\ work[w].at = "worked"
  /\ LET a == work[w].id IN
     \/ /\ Runs(a, work[w].outcome)
        /\ row' = [row EXCEPT ![a].status = "completed"]
        /\ Commits(a, work[w].outcome)
        /\ lost' = lost
     \/ /\ ~Runs(a, work[w].outcome)
        /\ lost' = lost \cup {a}
        /\ UNCHANGED db
  /\ work' = [work EXCEPT ![w] = AtRest]
  /\ UNCHANGED <<queue, submission, told, watch, twins>>

Crash(w) ==
  /\ work[w] # AtRest
  /\ lost' = lost \cup {work[w].id}
  /\ work' = [work EXCEPT ![w] = AtRest]
  /\ UNCHANGED <<db, queue, submission, told, watch, twins>>

-----------------------------------------------------------------------------
(* The event streams. *)

\* The status is sent first; a completed analysis has no more to say.
Look(v) ==
  /\ watch[v] = Silent
  /\ \E a \in Analyses :
       /\ row[a] # NoRow
       /\ watch' = [watch EXCEPT ![v] =
            [at |-> IF row[a].status = "completed" THEN "heard" ELSE "looked",
             id |-> a, late |-> FALSE]]
  /\ UNCHANGED <<db, queue, submission, work, told, lost, twins>>

\* Then the stream subscribes, and misses what was published in between; or
\* Redis is away, and it polls.
Listen(v) ==
  /\ watch[v].at = "looked"
  /\ \E how \in {"subscribed", "polling"} :
       watch' = [watch EXCEPT ![v].at = how,
                              ![v].late = told[watch[v].id] # "nothing"]
  /\ UNCHANGED <<db, queue, submission, work, told, lost, twins>>

\* A bounded number of rounds.  Polling reads the row again and again, but the
\* session answers with the object that it has, as it first read it.
GiveUp(v) ==
  /\ watch[v].at \in {"subscribed", "polling"}
  /\ watch' = [watch EXCEPT ![v].at = "gave up"]
  /\ UNCHANGED <<db, queue, submission, work, told, lost, twins>>

-----------------------------------------------------------------------------
AnalystWrites ==
  /\ DeskWrites
  /\ UNCHANGED <<row, result, queue, submission, work, told, watch, lost, twins>>

AnalysisNext ==
  \/ \E r \in Submissions :
       SubmitBegin(r) \/ SubmitCommit(r) \/ SubmitFinished(r) \/ SubmitCutShort(r)
  \/ \E w \in Workers : Take(w) \/ Analyse(w) \/ Finish(w) \/ Crash(w)
  \/ \E v \in Watchers : Look(v) \/ Listen(v) \/ GiveUp(v)
  \/ AnalystWrites

-----------------------------------------------------------------------------
\* Workers take and run their jobs, and a stream's loop is bounded.
Fairness ==
  /\ \A w \in Workers : WF_analysisVars(Take(w)) /\ WF_analysisVars(Analyse(w)) /\ WF_analysisVars(Finish(w))
  /\ \A v \in Watchers : WF_analysisVars(Listen(v)) /\ WF_analysisVars(GiveUp(v))

AnalysisSpec == AnalysisInit /\ [][AnalysisNext]_analysisVars /\ Fairness

-----------------------------------------------------------------------------
(* Properties. *)

\* Status, result and alert of an analysis appear together: it has a result if
\* and only if it is completed, and then a malicious one has its alert and a
\* result without an alert is one that asked for none (run_pipeline in one
\* transaction, whether a worker or the request itself runs it).
CompletedWhole ==
  \A a \in Analyses :
    /\ (row[a].status = "completed") = (result[a] # NoFinding)
    /\ result[a] # NoFinding /\ alert[a] = "none" =>
         /\ ~result[a].alert
         /\ result[a].verdict # "malicious"

\* A content is analysed twice only if it was submitted twice at the same time:
\* the second submission otherwise finds the first (submit_analysis).  One that
\* comes without any content has no digest to be found by.
OneAnalysisPerContent ==
  \A a, b \in Analyses :
    a # b /\ row[a] # NoRow /\ row[b] # NoRow /\ row[a].content = row[b].content =>
      row[a].content.digest = NoDigest \/ row[a].content \in twins

\* What is said of an analysis is true and heard.  Completion is announced before
\* the commit, so an analysis that was announced is completed, unless the commit
\* is still to come or was lost; and a stream that still listens although the last
\* word is out has subscribed too late to hear it, for it reads the status before
\* it subscribes (run_pipeline, event_generator).
LastWordHeard ==
  /\ \A a \in Analyses :
       told[a] = "completed" =>
         \/ row[a].status = "completed"
         \/ \E w \in Workers : work[w].at = "worked" /\ work[w].id = a
         \/ \E r \in Submissions : submission[r].at = "finishing" /\ submission[r].id = a
         \/ a \in lost
  /\ \A v \in Watchers :
       watch[v].at = "subscribed" /\ told[watch[v].id] # "nothing" => watch[v].late

\* The analyses as a record of questions and answers.
Questions == [content : Contents, context : Contexts]
AnswersTo ==
  [q \in Questions |-> {Found[o][q.context] : o \in {q.content.whole, q.content.head}}]
Asked ==
  [a \in Analyses |-> IF row[a] = NoRow THEN NoRow
                      ELSE [content |-> row[a].content, context |-> row[a].context]]
Completed == {a \in Analyses : row[a].status = "completed"}
Alerted == {a \in Analyses : alert[a] # "none"}

Record == INSTANCE AnalysisRecord WITH
  Answers <- AnswersTo, NoQuestion <- NoRow, NoAnswer <- NoFinding,
  question <- Asked, answer <- result, completed <- Completed, alerted <- Alerted

\* Whoever runs the pipeline, and whatever is taken twice, lost or cut short: an
\* analysis is answered at most once, from its own content, and status, result and
\* alert appear in one step and are never replaced (run_pipeline in one transaction).
ImplementsRecord == Record!Spec

\* A job on the queue comes to an end while workers run: its analysis is
\* completed, or lost.
JobsSettle ==
  \A a \in Analyses :
    a \in queue ~> row[a].status = "completed" \/ a \in lost

==============================================================================
