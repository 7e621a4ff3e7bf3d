# Formal models of CYBERHUB

CYBERHUB investigates where images of a person appear on the public web: an
analyst opens a case, uploads a reference image, lets reverse image search
providers look for it, triages what they find, seals evidence, and exports risk
assessments, reports and response packages; a monitoring rule repeats the search.
Beside that it keeps a registry of consenting participants with their faces, a
gallery of face vectors, an analysis queue for suspicious texts and files, and a
desk of alerts and incidents. The backend is a FastAPI application
(`src/backend/app`) over PostgreSQL, with files on disk, vectors in Qdrant, faces
in AWS Rekognition and an RQ worker.

This directory holds TLA+ models of its core logic, the TLC configurations that
check them on small instances, and theorems that TLAPS proves for every instance.
`PROJECT.json` says which lines of the source each definition models, which runs
and theorems there are, and which fault each property was seen to detect.

    tlc -workers 2 -config EvidenceVault.cfg MCEvidenceVault.tla
    tlapm EvidenceVaultProofs.tla

## 1. The system

### What runs concurrently

The server is one asyncio event loop. Between two `await`s a request runs alone;
at every `await` others may run. `get_db` (`db/session.py`) gives each request a
session of its own (read committed, `autoflush=False`, `expire_on_commit=False`)
and commits it when the endpoint returns or rolls it back when it raises. Almost
no read locks a row, so what a request read may be stale when it writes, and the
ORM writes only the columns that differ from what was loaded. The RQ worker
(`workers/jobs.py`) and the import scripts run the same services in processes of
their own. Circuit breakers, temporary images, event streams, rate and cost
counters, and the in-memory fallback of the vector store live in the memory of a
process and are lost when it ends; files, faces in AWS, vectors and Redis jobs are
written outside any transaction.

All models share this view: a request *begins* (one action that reads committed rows
into `req[r]`, `submission[r]` or `doing[r]`) and *commits* (one action that writes), or
is cut short in between. Where it acts on something outside the database, that is an
action of its own, or part of the one before the commit.

### Components

| Component | State | Operations | What is hard, what makes it correct |
|---|---|---|---|
| Evidence vault (`image_investigations.py`, `evidence_service.py`) | `evidence_vault` rows with custody number and hash pointer, `evidence_events`, artifact files, finding status | triage a finding on either route, capture (seal) an artifact | two sessions extend the chain at once, captures reseal rows, aborts orphan files; the chain stays linked, verified evidence has an approval, every seal is logged |
| Monitoring (`monitoring_service.py`, and the other writers of findings) | findings with observation state, runs, rules | scheduled or manual re-scan, discovery, scan of a case, rule configuration | three writers of findings that do not know of each other, re-scans that overlap the switch of the rule; duplicates explained, true delta states, one rule, counters that add up |
| Dossier (`exposure_risk_service.py`, `risk_service.py`, report and package services) | risk assessments, reports, files, packages | assess under two policies, export, package | documents derive from rows read at different times; only verified evidence counts, nothing is lost from one document to the next, no assessment falls |
| Provider mesh (`provider_orchestration_service.py`, `temporary_image_service.py`) | breaker per provider, calls in flight, temporary images | parallel discovery, retries, polls, crawler fetches | late answers, half-open trials, expiry; breakers shed load, images are withdrawn, scans return |
| Case lifecycle and scan pipeline (`exposure_scan_orchestrator.py`, `cases.py`, ...) | status and stage of the case, search jobs, event queues, rate slots, spend | eleven endpoints that write the case, the scan in three commits, event streams | torn columns, aborts and restarts in the middle of a scan, streams without a timeout |
| Erasure (`retention_service.py`, `secure_storage_service.py`, `qdrant_service.py`) | files, vectors, rows of an investigation | upload, photo, capture, export, purge | deletion across three stores that do not commit together; files follow rows, vectors have owners |
| Participants (`participant_service.py`, `aws_rekognition_service.py`) | participants, consent, images, AWS faces, matches | enrol, import, ingest, upload, index, search, verify, erase | AWS is changed before the commit; no face without consent, erasure leaves nothing |
| Dataset ingestion (`dataset_ingestion_service.py`, scripts) | gallery rows, vectors, checkpoint file | import a directory, resume an import | killed anywhere; nothing is skipped, nothing embedded twice |
| Analysis workflow (`analysis_orchestrator.py`, `workers/`, rules, risk engine) | analyses, results, Redis queue, events | submit, run, watch | queued before the commit, announced before the commit, jobs never retried; whole outcomes, one analysis for one content |
| Alerts and incidents (`alert.py`, `incident.py`) | alerts by key, incidents, links | raise, update, link, move, note | read, check and write apart; linked alerts are escalated, settled incidents stay |
| Accounts and tokens (`auth.py`, `users.py`) | organizations, users, refresh tokens | register, log in, refresh, change a user | rotation under overlap, lost updates, capitals in addresses |
| Matching, correlation, deduplication | none (pure) | classify, merge, cluster | thresholds and merge order |
| Web investigation (`web_investigation_orchestrator.py`, crawl, fetch and rendering services) | robots cache, per-domain clock | polite fetch, fallback to renderers | used by one script only |
| Notifications, dashboard, audit, timeline, health, frontend | rows and views | queries | no state that the rest depends on |

They meet in the database (`search_results` is written by both scans and the monitoring
and read by triage; `participant_images` by the registry and by the ingestion of
directories; `reference_images` by uploads and by the camera; `evidence_vault` is
written by the vault and read by the dossier; alerts are written by the pipeline of the
analyses and by the desk; every component writes `cases.status`), in the vector index,
through calls (the scan calls the provider mesh) and through event queues.

## 2. Modules

| Module | Models | Checked by | Proved in |
|---|---|---|---|
| `EvidenceVault` | the vault | `MCEvidenceVault` with `EvidenceVault.cfg`, `EvidenceVaultChain.cfg` | `EvidenceVaultProofs` |
| `CustodyLedger` | abstract specification: what a chain of custody promises | as the property `ImplementsLedger` | `EvidenceVaultProofs` |
| `Monitoring` | re-scans, discoveries, scans of a case and rules over the findings | `MCMonitoring` | `MonitoringProofs` |
| `RiskPolicy` | the two risk policies, pure | through `ExposureDossier` | `ExposureDossierProofs` |
| `ExposureDossier` | assessments, reports, packages over the evidence | `MCExposureDossier` | `ExposureDossierProofs` |
| `ProviderMesh` | breakers, calls, temporary images | `MCProviderMesh` | `ProviderMeshProofs` |
| `CaseLifecycle` | the row of a case, scans, jobs, streams, counters | `MCCaseLifecycle` | `CaseLifecycleProofs` |
| `VectorIndex` | the vector index with its fallback, as each process sees it | through the next two | `VectorStoresProofs` |
| `BiometricStores` | rows, files and vectors of an investigation, and the gallery | `MCBiometricStores` | `VectorStoresProofs` |
| `GalleryImport` | the checkpointed import of a directory | `MCGalleryImport` | `VectorStoresProofs` |
| `ParticipantRegistry` | participants, their images, files and AWS faces, ingested directories | `MCParticipantRegistry` | `ParticipantRegistryProofs` |
| `ThreatAssessment` | the analyzer from signals to verdict, pure | through `AnalysisQueue` | `TenantProofs` |
| `AlertBook` | alerts and the service that writes them | through `AnalysisQueue` and `IncidentDesk` | `TenantProofs` |
| `AnalysisQueue` | submissions, workers, results, event streams | `MCAnalysisQueue` | `TenantProofs` |
| `AnalysisRecord` | abstract specification: what an analysis promises to those who submit it | as the property `ImplementsRecord` | `TenantProofs` |
| `IncidentDesk` | alerts, incidents and their links | `MCIncidentDesk` | `TenantProofs` |
| `TenantAccounts` | organizations, users, refresh tokens | `MCTenantAccounts` | `TenantProofs` |

`ExposureDossier` extends `RiskPolicy`; `EvidenceVault` instantiates `CustodyLedger`
with the entries and digests that its rows stand for; `BiometricStores` (two processes
with one index) and `GalleryImport` extend `VectorIndex`; `AnalysisQueue` composes
`ThreatAssessment`, the queue and `AlertBook`, which `IncidentDesk` extends too, and
instantiates `AnalysisRecord` with what its rows, results and alerts say. Each proof
module extends the components that it is about: what is proved of one of them uses the
assumptions of that one only. The other modules meet only in tables; each lists the
operations of the others on those tables as its own actions (the dossier's `Decide` is
the vault's verification, reduced to what the documents read; `Monitoring` has the
inserts of the scan pipeline and of the scan of a case; the ingestion of a directory is
in `BiometricStores` as the vectors it writes and in `ParticipantRegistry` as the rows;
`DeskWrites` in `AnalysisQueue` is whatever analysts do to the alerts).

Operators that begin with the comment `Seeded fault` are not part of the models:
each is a plausible error in one operation, and `PROJECT.json` names the property
that detects it when it replaces that operation. A variable marked *history* is not
in the program; it remembers what a property has to make an exception for.

### EvidenceVault

`vault` is the sequence of committed rows; `custodyLog` the `evidence_events` with
a digest; `disk` the artifact files, written before the commit; `verdict` and
`approved` the audited decisions; `findingStatus` the JSON field that is meant to
hold them. `Triage` is a decision other than VERIFIED; `BeginVerify`/`CommitVerify`
the VERIFIED path of `verify_finding`, split where the custody chain has been read
and not yet extended; `LegacyVerify` is `EvidenceService.verify_finding`, which
keeps no chain; `BeginCapture` writes the file and reads the row of the finding,
`CommitCapture` reseals that row and logs the seal. Without a row the capture fails
(`RejectCapture`): its log entry takes the identifier of the new row before the row
has one, so that all is rolled back and the file stays. A refusal of the fetch is an
event on the stream and changes nothing here.
A digest is tagged by its source, so equal digests are equal contents.

### Monitoring

`findings` are the `search_results` of a case with their observation state,
`runs` the `monitoring_runs` with their counters, `rules` the `monitoring_rules`.
`TriggerScan` and `JobScan` read the findings and the rule and get a list of items,
with repetitions, as the providers returned them; `CommitScan` computes new,
unchanged, reappeared and missing findings from what was read, writes them, the run,
and what has changed of the rule. The rule is scheduled again whatever its switch
says. `BeginConfigure`/`CommitConfigure` are `create_or_update_rule`: there is no
unique constraint on the case, and once it has two rules `scalar_one_or_none`
raises in every request that looks for it. `BeginDiscovery`/`CommitDiscovery` are
the persistence of the scan pipeline, keyed by provider string and URL. `CaseScan` is
the third writer, `DiscoveryService.execute_scan` behind `POST /cases/{id}/scan` and
`job_web_discovery`: it stores what its provider finds, always the same mock findings
(`MockFindings`), under the one provider string `CaseScanner`, and looks at no row.
Two scans of a case, one after the other, therefore store every finding twice, which
`DuplicatesExplained` names as the exception; of the other two writers it says that
they duplicate these findings no more than their own. The endpoint of the web search
would be a fourth writer and fails before it searches; scripts that fill a
demonstration database are left out.

### RiskPolicy and ExposureDossier

Scores are integers scaled by four, so that every quotient and factor of the
policies is exact. A document records which evidence rows it derives from, how
many documents existed when it was begun, and its content; files are named by
content, as the exporter names them by the content hash. `BeginRisk` reads the
evidence, `CommitRisk` scores it; a report reads the evidence (`BeginReport`),
then the latest assessment and saves its file (`SaveReport`), then commits.
`RiskOnlyRises` puts rows and policies together: what is assessed for one policy
never falls from one assessment to the next, although an analyst may have taken back
verifications in between, and only overlapping assessments may end in the other order.

### ProviderMesh

A call (a scan and a provider) is queued by `BeginScan`, sent by `Start`, retried,
and finished by `Answered`, `Failed` or `Unparsed`, which update the breaker and
withdraw the temporary image. `Allowed` is the side effect of asking a breaker.
Time is two nondeterministic actions: `Cool` (the recovery time has passed) and
`Expire` (the lifetime of an image has passed). Access counts of images are not
kept: any fetch may be the one that removes the image. `reachable` says whether
`PUBLIC_BASE_URL` is accepted by the provider's check.

### CaseLifecycle

`Target` is the table of what nine endpoints assign to the row of the case;
`Written` is the UPDATE that the ORM makes of it. A scan is `BeginScan` (charged,
job committed), `RunScan`, `CompleteScan` or `FailScan` (commits two and three),
`Announce` (the final event). `Abort` is a database failure or a cancelled
request, after which nothing is committed or announced; a request that was cut off
is remembered as `Cut` until its place is reused. The existence checks of an
endpoint are made when it loads the case, although some are a statement later.

### VectorIndex and BiometricStores

A process finds out once whether it can reach Qdrant (`link`, never asked again)
and then writes there or into its own `memory`, which `Forget` takes when it ends;
a caller is told that all went well in either case. `strayed` remembers what went
into a memory. In `BiometricStores` the server makes rows with files, and with
vectors for uploaded reference images (`AddBegin` writes file and vector, `AddCommit`
the row, which fails if the investigation has been deleted). A capture gives its
artifact to a row of evidence of its finding: one that names none yet, or one whose
artifact it takes the place of (`Replaced`); that one's file is then named by no row,
and a purge leaves it where it is (`kept`). `CapturePhoto` is `process_capture`, which
stores the digest of a photo and the identifier of a vector that is in no store, and
neither file nor vector. `PurgeBegin` deletes the
files that rows name and the vectors, any of which the disk or the index may refuse,
and `PurgeCommit` the rows. Report documents are never deleted by a purge. The
script fills the gallery: `IngestOne` writes one vector under the number of the run,
`RunCommit` all rows, or none if one content has a row already; `EraseIdentity`
takes rows away and leaves the vectors, because nothing in the program deletes one.

### GalleryImport

One run of `run_full_real_dataset_ingestion.py` goes through `Order`, which the
sorted folders give; `Read` counts an image and sets it aside or not, `Embed` writes
its vector under a new identifier, `SaveBegin` empties the checkpoint file and
`SaveEnd` fills it, at the end of a folder if half a minute has passed. `Killed` may
come at any step; a torn checkpoint is one that cannot be parsed.

### ParticipantRegistry

`person` keeps the row of each identifier, its code, whether it was typed and its
consent; `image` one row for one content in the organization; `faces` is the AWS
collection, which knows a face by the external name of its participant. Creation counts
the participants for the next code and meets the unique constraint at its commit; an
import inserts row and consent first, which reserves the code, then writes the files.
`IndexOne` sends one face to AWS or is refused, `IndexCommit` records them all; an
erasure sends the deletion of the faces that rows name (`EraseBegin`), deletes the files
that rows name (`EraseFiles`), then commits. A refusal of AWS or of the disk, and a
request that is cut short after it has changed something outside, is remembered in
`marred` and `spoiled`. `IngestBegin` and `IngestCommit` are `ingest_lfw_directory`, one
identity in one transaction: it finds the participant by the code of the directory,
whatever its consent, or inserts one with consent, and adds image rows that name a file
it never writes (`saved` is false) and say INDEXED if a local vector was computed,
without a face in AWS. Such a row is passed over by the indexing, which looks at the
status, fails it if it is pending, for lack of the file, and leaves an erasure nothing
to delete. `RecordedIsStored` says so: it holds of the rows of uploads and imports, and
of the ingested ones it says that they never record a face. The verdicts VERIFIED,
REJECTED and UNCERTAIN are stored alike; PENDING_REVIEW is accepted as one, too, is
recorded beside the match and leaves its status as it was (`Judged`). What a request
brings along and no other request can see before its commit (consent, verdict, which
images could be embedded) is chosen at the commit. A match keeps its verdict when its
participant is erased and loses only the name.

### ThreatAssessment, AlertBook and AnalysisQueue

Weights, confidences and multipliers are counted in twentieths, so that the comparisons
of the engine's floating point scores are ones of integers. An `Observation` is what the
analyzer finds in a text: the rules that match, words of the model, entropy, the worst
reputation. `AnalysisQueue` submits contents: of each it keeps the observation of the
whole and that of its first 200 characters, because the worker is left with the latter.
A submission without a text or file has no digest (`NoDigest`) and is never answered
with an earlier one. `SubmitBegin` answers with a known analysis, or puts the job on the
queue, or runs the pipeline in the request when Redis is away; `SubmitCommit` commits
the row, perhaps after a worker has looked for it (`Take` then loses the job). `Analyse`
computes the outcome and publishes it, `Finish` commits result, alert and status
together or nothing: the alert's unique key may be taken. A failed job is rolled back
and not tried again, so that a row is only ever seen queued or completed.
`AnalysisRecord` has none of this: an identifier stands for a question (`Ask`), which is
answered once (`Answer`) with something that the analyzer finds in it, and with the
alert that the answer asks for. A stream looks at the status, then listens, or polls a
session that answers with the object it first read.

### IncidentDesk

`Transitions` is the map of stages. `MoveBegin` reads the stage and checks the
transition, `MoveCommit` writes it whatever the stage is by then, with the note.
`LinkBegin`/`LinkCommit` link an alert and escalate it; `CreateIncident` does so for
a list of identifiers from the request, which it compares with nothing: one of another
organization (`Foreign`) is linked, and the UPDATE that should escalate it is limited
to the organization and finds no row. `LinkedEscalated` is about the alerts of the
organization. `RaiseBegin`/`RaiseCommit` deduplicate an alert by key, `UpdateAlert` sets
any status.

### TenantAccounts

An address is a mailbox and whether it is spelled in small letters; `register` and
`login` lower it, `update_user` does not. A token knows the first token of its session.
An organization is joined by who types its slug, with the random suffix that its founder
was given; a name that is no slug founds one (`Founds`), unless the name is taken, and
then the request fails. `RefreshBegin` reads the token, `RefreshCommit` revokes it and
issues the next, also when another request has done so since. `ChangedColumns` is the
UPDATE of `update_user`: the columns that differ from what was read.

## 3. Runs

| Run | Instance | Shows |
|---|---|---|
| `vault` | 2 findings, 2 sessions, 2 contents, 4 rows and files together | forks only by overlap, gate, mismatches traceable, refinement of `CustodyLedger` |
| `monitoring` | 1 URL, 2 sessions, scans of up to 2 items, discoveries of 1, 1 mock finding, 2 findings, 2 runs, 2 rules | duplicates explained, states of the last covering scan, rules and their schedule, counters |
| `dossier` | 2 findings on 2 domains, one of them a breach index, 2 sessions, 2 rows, 3 documents, 2 files | documents derive from verified rows, lose nothing, stay downloadable, show a current assessment; assessments do not fall |
| `providers` | 2 providers, 2 scans, threshold 2, 1 retry | breakers, images, load shedding, scans return |
| `lifecycle` | 2 requests, operations `graph` and `monitor`, 1 stream, 2 jobs, 2 rules, 1 restart, 1 slot, budget of 2 | status earned, events after commits, outcomes stand, scans and streams end |
| `participants` | 2 people, 1 picture, 2 requests, 1 match, 1 typed code, 1 directory, 2 verdicts beside PENDING_REVIEW | consent, erasure, rows and stores agree, matches, codes |
| `stores` | 1 reference image, 1 photo, 2 artifacts of one finding, 1 document, 2 requests, 1 picture, 2 runs of the script | files follow rows, indexed vectors are in Qdrant, vectors are owned |
| `analyses` | 2 analyses of 3 contents, one of them empty, 2 submissions, 2 workers, 1 stream | refinement of `AnalysisRecord`, one analysis for one content, last words heard, jobs settle |
| `incidents` | 1 incident, 2 alerts and 1 of another organization, 2 requests | linked alerts escalated, settled incidents stay |
| `accounts` | 2 organizations, 2 accounts, 2 mailboxes, 3 tokens, 2 requests | addresses, rotation, deactivation |
| `gallery` | 4 images in 3 folders (two equal, one without a face), 3 runs | nothing skipped, nothing embedded twice |

Why the bounds are enough. Every property is about one actor or a pair (a pair of rows,
documents, sessions, calls, tokens), so two sessions and two rows or documents show
every way one step can interfere with another; `RiskNotOutdated` relates a report to two
assessments and has three documents for it. In `dossier` one of the two domains is a
breach index, as both policies ask for one. One URL suffices in `monitoring`, as
findings with other URLs are compared apart, and one mock finding, which two scans of
the case store twice. One picture suffices in `participants`, as a content has one row,
and one directory, which may name a participant that is enrolled or a new one. In
`stores` two artifacts of one finding are an artifact and the one that takes its place.
In `analyses` one of the contents is empty. The threshold of 2 distinguishes the first
failure from the tripping one; one retry distinguishes a retried call from a final
failure. In `lifecycle` the operations are `graph` and `monitor`: the first writes only
one column after a scan (its stage is the scan's), the second both, and both depend on
data of other requests; the clauses of `StatusEarned` on the statuses of the other
endpoints are covered by its proof. `MaxRules` and `MaxScansPerHour` are the smallest
that let two rules be created and a scan be refused; `SlotExpires` lets a second scan
in. The typed code 2 is the one that the second generated code may meet. In `accounts`
three tokens are a chain of two exchanges. In `gallery` the third run resumes from what
the second has saved after the first was killed. In `analyses` one content hides its
attack behind the first 200 characters: whether the request or a worker analyses it
decides on the alert.

`CHECK_DEADLOCK FALSE` stands where the bounds end every behaviour (rows, documents,
identifiers and runs are never given back). Permutation symmetry is used only in
runs without temporal properties but one: `DeactivationStands` is an action
property, which is symmetric itself.

The run `vault_chain` is expected to fail: its property `ChainVerifiable` is the
documented promise (`docs/SECURITY_BOUNDARIES.md`) that evidence items keep
immutable digests and custody numbers, and a capture replaces the digest that the
successor's pointer holds.

Other places where the code and what is written about it disagree. The models have
the code's behaviour; no run is spent on them, as each is one call or one obvious
sequence:

* The decision on a finding is written into a JSON dict in place
  (`image_investigations.py:1163`) and never stored.
* A finding that was verified and then rejected still counts
  (`image_investigations.py:1668`, against `ARCHITECTURE.md:78`).
* An equal export overwrites the file of the earlier one, whose row keeps its hash
  (`image_investigations.py:1881`).
* A new URL that one scan returns twice is stored twice (`monitoring_service.py:286`,
  against `ARCHITECTURE.md:91`).
* The matcher confirms without an analyst (`matching_orchestrator.py:199`).
* "Orphaned data is always cleaned up on retry" (`participant_service.py:804`): the
  rows that name the data are gone by then.
* "Zero orphaned vectors" after a purge (`test_cross_store_deletion_consistency.py`):
  a refused deletion of vectors does not stop the purge.
* A scan of a case is run "idempotently" (`jobs.py:20`) and inserts its findings again
  each time (`discovery_service.py:160`).
* "Coordinated cross-store purge across storage, Qdrant, and PostgreSQL"
  (`retention_service.py:70`): the receipt says COMPLETED, while the first file of a
  finding captured twice is named by no row and stays.
* "Auto update alert status to escalated" (`incident.py:82`): not if the alert of the
  request belongs to another organization, which is linked nonetheless.
* "Store FaceEmbedding in dedicated table" (`face_service.py:142`): the row names a
  vector that no store has.
* A verdict is one of "VERIFIED | REJECTED | UNCERTAIN" (`participants.py:119`):
  PENDING_REVIEW passes the check, changes nothing of the match and is audited as
  DATASET_MATCH_REJECTED (`participant_service.py:778`).
* Images of an ingested directory say INDEXED and name a storage key that was never
  saved (`dataset_ingestion_service.py:220`).
* The job of a scheduled scan unpacks the run it gets as a tuple (`jobs.py:38`) and
  fails each time, after the scan has committed.

### Fairness

The safety models have none. `ProviderMesh` assumes weak fairness of starting a
queued call, of ending or retrying a sent one, and of the gather: the event loop
runs every ready task and `httpx` is called with a timeout; nothing is assumed of
what a provider answers. `CaseLifecycle` assumes it of the scan's own steps (the
coroutine never waits for another request) and of a stream with an event.
`AnalysisQueue` assumes that every worker takes, runs and finishes jobs, as
`workers/worker.py` does until it is stopped, and that the loop of a stream goes on,
which counts its rounds. Nothing is assumed of clients, aborts, crashes, restarts or
time.

## 4. Proofs

TLAPS proves, for any number of findings, sessions, contents and any bounds:

* `EvidenceVaultProofs`: the vault's type invariant and its safety invariants, those
  of the run and two more: `CustodyLinked` (every row is a root or follows an earlier
  row whose digest its pointer has been) and `SealsLogged`. The properties are not
  inductive: a commit uses what a session read long ago. `IInv` adds what is still
  true of it then: a verification in flight still has a place in the chain that comes
  after all rows it has seen (`VerifiesPlaced`), a capture's row and file exist and
  its seals are logged (`CapturesInRange`, `CapturesAccounted`), every row's digest is
  one it has carried and, once captured, a logged one (`DigestsAccounted`). `Growth`
  (nothing in the vault, log or disk is taken back) carries these facts over the steps
  of other sessions; each conjunct then has one lemma with one step per action.
  The refinement follows: initial states map to initial states of `CustodyLedger`,
  every step maps to `Admit`, `Reseal` or a stutter, hence `ImplementsLedger`; and
  `AppendOnly`.
* `MonitoringProofs`: types and all four properties of the run. `ScanGood`,
  `ConfigureGood` and `DiscoveryGood` say what is still true of what a session has
  loaded when it commits: one row for every key it has seen, a run that missed each
  row it has loaded as missing, the count of its rule unless a newer run of the rule
  is there. They outlast the steps of the others (`SessionStays`) because rows keep
  their identity and a count changes only with a new run (`Grows`). That the counts
  of a run add up is a bijection: the first items of the keys that reappear are as
  many as the rows that do (`RunAddsUp`). The scan of a case inserts without having
  read; its rows have its own provider string, and what was said of the other rows
  stands.
* `ExposureDossierProofs`: all five properties of the run. Evidence, documents and
  files only grow; `Good` says of a document, and of the session that is making it,
  that its rows are verified and cover those of the documents committed before it
  began, and of a report that its assessment was the latest when it was read and its
  file is there. One lemma shows that `Good` stays through every step. `RiskOnlyRises`
  joins this with the policies: every assessment has the score of the rows it is over
  (`Scored`), a later one is over more rows (`MoreRows`), and more rows never score
  less (`ScoreOf`, from the monotone policies). Of the two
  policies: scores stay within the scale, scores and levels are monotone in the
  evidence, CRITICAL needs a breach domain.
* `ProviderMeshProofs`: types, `BreakerCounts`, `ImagesWithdrawn`,
  `OpenShedsLoad`, `TrialsDecide`. One step changes a breaker to one of six
  `Outcomes`, each of which keeps `BreakerCounts`; the images and load shedding
  need only the types of calls, the trials need `BreakerCounts` (a half-open
  breaker has counted to its threshold, so one failure more opens it).
* `CaseLifecycleProofs`: types, `StatusEarned` for every endpoint,
  `EventAfterCommit`, `EveryScanCharged`, `OutcomeStands`. None is inductive:
  a request writes what it decided on when it loaded the case. `IInv` adds that
  its checks still hold then (`ChecksHold`, because nothing that is checked is
  taken back), that every scan finds its job in the phase it left it in
  (`JobPhases`) and shares it with no other (`JobsApart`), and that no job is
  younger than the process (`JobBoots`, for the count after a restart).
* `VectorStoresProofs`, of the stores: types and the three properties of the run. The
  investigation and the gallery share nothing but the index and are proved apart.
  The claim on files excepts those that a second capture replaced, the claim on
  vectors the identifiers of the camera, which were never written anywhere.
  `AddsPrepared` says what a request that is about to insert a row has left on disk
  and in the index; `PurgeLeavesNone` and `FilesAccounted` carry over from a purge in
  flight to the deleted investigation; `RunIndexed` ties the vectors of the index to
  what the runs have embedded. Of the import: types, `NothingSkipped` and
  `TwiceOnlyIfLost`, for any directory and any number of runs killed anywhere.
  `InPlace` keeps a run within the directory; `SeenAccounted` is `NothingSkipped` of
  the list of the run itself, but for the content in its hand; `IndexedKnown` is the
  converse, that a content in Qdrant is in that list, or in the checkpoint between two
  runs, unless it was lost; from it `HandedOnce` follows when a content is taken up.
* `ParticipantRegistryProofs`: types and all five properties of the run. What a request
  has stored and not yet recorded is in `InFlightStored`; `StoredKnown` is the converse,
  that every file and face is recorded, in flight, or one that may stay. A request to
  index works only on images that have been saved (`IndexingSaved`), which keeps the
  rows of an ingestion, whose files never were, apart from the others. From
  `StoredKnown`, `ErasureClears` follows at the moment an erasure deletes what rows
  name, and lasts: nothing that ends later adds to it without a mark. A code is not
  above the number of participants (`CodesCounted`), which needs the cardinality
  theorems and that there are finitely many identifiers.
* `TenantProofs`, of the desk: types, `LinkedEscalated`, `SettledStays` and
  `JustifiedClosure` (a stage that needs a note is reached with one only).
  `LinkedEscalated` is of the alerts of the organization: a linked one of another is out
  of reach of the desk. `MovesChecked` says that a transition in flight is one of the
  map from the stage it has read. Of the analyses: types, `OneAnalysisPerContent`,
  `LastWordHeard`, `CompletedWhole` (status and result appear together, a malicious
  result has its alert), and `ImplementsRecord`. `IdsApart` says that what is in flight
  has identifiers of its own, because they are drawn afresh and a job keeps its own in
  use; `JobsOnce`, that only one of queue, workers and submissions may still complete an
  analysis; `FoundAlertsStay` and `OutcomesFound`, that what a pipeline has found when
  it looked is still there, and still about the row, when it commits; `TwinsNoted` is
  `OneAnalysisPerContent` of the submissions in flight. The rows, alerts and words that
  are out are never taken back (`RowsStay`, `AlertsStay`, `AnnouncedStays`), which
  carries these facts over the steps of the others. The refinement maps a commit of a
  queued row to `Ask`, a commit of the pipeline to `Answer`, what analysts write to
  `Alert`, all else to a stutter. `MaliciousAlerts` closes the gap between the two
  thresholds of the engine: a verdict is given by the score, an alert by the rounded
  score or the severity. Of the accounts: types, `FoundByAddress`, `OneLiveToken` and
  `DeactivationStands`. `AboutRows` says that what requests have read exists and keeps
  its identity; `AddressesApart` and `SmallUnlessRewritten` give `FoundByAddress`. That
  a session has one live token counts all its usable tokens, the expired ones too
  (`OneUsable`), since a token is exchanged by revoking it; it needs the cardinality
  theorems.

The constants satisfy what the `ASSUME` of a module says and nothing else is assumed.
Most of these are types. Those of substance: the forms of an admin cannot move a user
to another organization (`schemas/user.py:21`, `UserUpdate` has no such field), and an
import run has an identifier for each of its vectors.
The strengthened invariants were checked with TLC on the instances of the runs before
they were proved.

Only model-checked: liveness (`ScansReturn`, `ScansSettle`, `JobsSettle`), because the
prover has neither fairness nor ENABLED. Every other property of a run that is expected
to pass is a theorem. The scores of `ThreatAssessment` are folds over sets, of which
nothing is proved but how severity, verdict and alert follow from them.

## 5. Not modelled

* Pure computation: parsing of provider answers, URL canonicalisation, clustering and
  deduplication, matching thresholds; face, hash and embedding functions are numeric
  libraries. SSRF checks, layout of documents and wording of events are abstracted to
  their outcome.
* The web investigation: its crawl and page services are called by one script
  (`run_phase3_real_e2e.py`) alone, and the endpoint of the web search fails before it
  searches, after it has charged a slot (`ScanRefused` of `CaseLifecycle`).
* Endpoints that fail on every path: logging out (`auth.py:119`, an undefined name),
  creating and listing users, renaming an organization, the ingestion of a data set,
  the legacy `/evidence` routes.
* Reviews of complaint drafts, public sources of a participant, the status columns of
  a data set: rows that nothing else reads.
* Notifications, dashboards, audit and timeline rows, health checks and diagnostics;
  the frontend.

## 6. Plan

In order of importance:

1. An abstract specification of erasure (a store that forgets), which
   `ParticipantRegistry` and `BiometricStores` implement but for what they name.
2. `Discovery` (pure): URL canonicalisation, deduplication of provider results,
   matching thresholds and clustering against reference definitions.
3. `WebCrawl`: robots cache and domain limiter, if the crawl gets an endpoint.
