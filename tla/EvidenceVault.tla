--------------------------- MODULE EvidenceVault ---------------------------
(***************************************************************************)
(* The evidence vault of one investigation: the evidence_vault rows, the   *)
(* evidence_events custody log, the artifact files on disk and the HTTP    *)
(* requests that triage findings and seal artifacts.                       *)
(*                                                                         *)
(* A request is a database session: it reads committed rows in one step    *)
(* and flushes and commits its own writes in a later one (read committed,  *)
(* autoflush off, no row lock is taken by the reads), so the rows it read  *)
(* may be stale when it writes.  Several requests are in flight at once.   *)
(***************************************************************************)
EXTENDS Integers, Sequences, FiniteSets

CONSTANTS
  Findings,     \* search_results rows of the case
  Requests,     \* sessions that can be in flight together
  Contents,     \* what a captured URL may serve, one value per SHA-256 digest
  Outcomes,     \* the statuses analysts submit
  MaxObjects    \* bound on evidence_vault rows and artifact files together


VARIABLES
  vault,          \* evidence_vault rows in commit order
  custodyLog,     \* evidence_events rows that carry a digest
  disk,           \* artifact files; file i holds disk[i]
  findingStatus,  \* search_results.metadata_json["verification_status"]
  verdict,        \* status of the last audited result_verified entry
  approved,       \* findings with an audited VERIFIED decision
  req             \* what each session has read and not yet written

vars == <<vault, custodyLog, disk, findingStatus, verdict, approved, req>>

-----------------------------------------------------------------------------
(* Data: digests are tagged by where the code takes them from. *)

Decision == {"VERIFIED", "REJECTED", "UNCERTAIN"}
Status   == Decision \cup {"UNVERIFIED"}   \* VerificationStatus
NoFile   == 0

ASSUME ConstantsAssumption ==
  /\ Outcomes \subseteq Status
  /\ MaxObjects \in Nat

Genesis        == <<"GENESIS_EVIDENCE_ROOT">>
Placeholder(f) == <<"finding", f>>     \* VERIFIED_<finding id>: one per finding
LegacyHash(i)  == <<"legacy", i>>      \* hash over the wall clock: unique
Sha256(c)      == <<"artifact", c>>

Digests ==
  {Genesis} \cup ({"finding"} \X Findings)
            \cup ({"legacy"} \X Nat)
            \cup ({"artifact"} \X Contents)

\* "seen" is history: how many rows were committed when the chain was read.
Evidence ==
  [finding : Findings, origin : {"review", "legacy"}, status : Status,
   seq : Nat \ {0}, prev : Digests, digest : Digests,
   file : Nat, seals : Seq(Nat), seen : Nat]

EvidenceEvent == [row : Nat \ {0}, digest : Digests, file : Nat]

IdleRequest    == [op : {"idle"}]
VerifyRequest  == [op : {"verify"}, finding : Findings, seq : Nat \ {0},
                   prev : Digests, seen : Nat]
CaptureRequest == [op : {"capture"}, finding : Findings, file : Nat \ {0},
                   row : Nat, digest : Digests, seals : Seq(Nat)]

Idle == [op |-> "idle"]

Room == Len(vault) + Len(disk) < MaxObjects

Rows       == DOMAIN vault
RowsOf(f)  == {i \in Rows : vault[i].finding = f}

\* Seeded fault: the chain is read in ascending order.
ChainTopAscending == {i \in Rows : \A j \in Rows : vault[i].seq <= vault[j].seq}

\* order_by(custody_sequence.desc()).first(): ties come in any order.
ChainTop == {i \in Rows : \A j \in Rows : vault[j].seq <= vault[i].seq}

\* Every digest row i has had: the one it was created with, and those logged.
Carried(i) ==
  (IF vault[i].origin = "review" THEN {Placeholder(vault[i].finding)} ELSE {})
    \cup {e.digest : e \in {x \in custodyLog : x.row = i}}

-----------------------------------------------------------------------------
Init ==
  /\ vault = <<>>
  /\ custodyLog = {}
  /\ disk = <<>>
  /\ findingStatus = [f \in Findings |-> "PENDING_REVIEW"]
  /\ verdict = [f \in Findings |-> "PENDING_REVIEW"]
  /\ approved = {}
  /\ req = [r \in Requests |-> Idle]

\* The audit entry (and timeline event) of a triage decision.
Audit(f, s) ==
  /\ verdict' = [verdict EXCEPT ![f] = s]
  /\ approved' = IF s = "VERIFIED" THEN approved \cup {f} ELSE approved

\* verify_finding with REJECTED or UNCERTAIN: no evidence row is touched.  The
\* new status is written into the loaded JSON dict in place, which the session
\* does not see as a change of the column, so findingStatus keeps its value.
Triage(r, f, s) ==
  /\ req[r] = Idle
  /\ s # "VERIFIED"
  /\ Audit(f, s)
  /\ UNCHANGED <<vault, custodyLog, disk, findingStatus, req>>

\* verify_finding with VERIFIED reads the end of the custody chain ...
BeginVerify(r, f) ==
  /\ req[r] = Idle
  /\ \/ /\ vault = <<>>
        /\ req' = [req EXCEPT ![r] =
             [op |-> "verify", finding |-> f, seq |-> 1, prev |-> Genesis,
              seen |-> 0]]
     \/ \E i \in ChainTop :
          req' = [req EXCEPT ![r] =
            [op |-> "verify", finding |-> f, seq |-> vault[i].seq + 1,
             prev |-> vault[i].digest, seen |-> Len(vault)]]
  /\ UNCHANGED <<vault, custodyLog, disk, findingStatus, verdict, approved>>

ReviewedEvidence(q) ==
  [finding |-> q.finding, origin |-> "review", status |-> "VERIFIED",
   seq |-> q.seq, prev |-> q.prev, digest |-> Placeholder(q.finding),
   file |-> NoFile, seals |-> <<>>, seen |-> q.seen]

\* ... and commits a new row after it, whatever was committed meanwhile.
CommitVerify(r) ==
  /\ req[r].op = "verify"
  /\ Room
  /\ vault' = Append(vault, ReviewedEvidence(req[r]))
  /\ Audit(req[r].finding, "VERIFIED")
  /\ req' = [req EXCEPT ![r] = Idle]
  /\ UNCHANGED <<custodyLog, disk, findingStatus>>

\* Seeded fault: every reviewed finding is stored as verified.
LegacyEvidenceUngated(f, s, i) ==
  [finding |-> f, origin |-> "legacy", status |-> "VERIFIED",
   seq |-> 1, prev |-> Genesis, digest |-> LegacyHash(i),
   file |-> NoFile, seals |-> <<>>, seen |-> 0]

\* Seeded fault: the row takes the next number but keeps the root pointer.
LegacyEvidenceNumbered(f, s, i) ==
  [finding |-> f, origin |-> "legacy", status |-> s,
   seq |-> i, prev |-> Genesis, digest |-> LegacyHash(i),
   file |-> NoFile, seals |-> <<>>, seen |-> 0]

LegacyEvidence(f, s, i) ==
  [finding |-> f, origin |-> "legacy", status |-> s,
   seq |-> 1, prev |-> Genesis, digest |-> LegacyHash(i),
   file |-> NoFile, seals |-> <<>>, seen |-> 0]

\* EvidenceService.verify_finding behind /cases: a row for every status, with
\* the column defaults for its place in the chain; it reads no other row.
LegacyVerify(r, f, s) ==
  /\ req[r] = Idle
  /\ Room
  /\ LET i == Len(vault) + 1 IN
       /\ vault' = Append(vault, LegacyEvidence(f, s, i))
       /\ custodyLog' = custodyLog \cup
            {[row |-> i, digest |-> LegacyHash(i), file |-> NoFile]}
  /\ Audit(f, s)
  /\ UNCHANGED <<disk, findingStatus, req>>

\* capture_evidence fetches the URL, saves the bytes under a fresh name and then
\* loads some row of the finding, or none.
BeginCapture(r, f, c) ==
  /\ req[r] = Idle
  /\ Room
  /\ disk' = Append(disk, c)
  /\ LET file == Len(disk) + 1 IN
       \/ /\ RowsOf(f) = {}
          /\ req' = [req EXCEPT ![r] =
               [op |-> "capture", finding |-> f, file |-> file,
                row |-> 0, digest |-> Genesis, seals |-> <<>>]]
       \/ \E i \in RowsOf(f) :
            req' = [req EXCEPT ![r] =
              [op |-> "capture", finding |-> f, file |-> file,
               row |-> i, digest |-> vault[i].digest, seals |-> vault[i].seals]]
  /\ UNCHANGED <<vault, custodyLog, findingStatus, verdict, approved>>

\* Seeded fault: the artifact is attached, its digest is not stored.
ResealedStale(e, q) ==
  [e EXCEPT !.file = q.file, !.seals = Append(q.seals, q.file)]

\* The UPDATE of a capture.  The session writes a column only when it differs
\* from the value it loaded: the digest column is left out when the new digest
\* equals the one read, even if the row has another one by now.
Resealed(e, q) ==
  LET d == Sha256(disk[q.file]) IN
    [e EXCEPT !.digest = IF d = q.digest THEN @ ELSE d,
              !.file   = q.file,
              !.seals  = Append(q.seals, q.file)]

CommitCapture(r) ==
  LET q == req[r] IN
    /\ q.op = "capture"
    /\ q.row # 0
    /\ vault' = [vault EXCEPT ![q.row] = Resealed(@, q)]
    /\ custodyLog' = custodyLog \cup
         {[row |-> q.row, digest |-> Sha256(disk[q.file]), file |-> q.file]}
    /\ req' = [req EXCEPT ![r] = Idle]
    /\ UNCHANGED <<disk, findingStatus, verdict, approved>>

\* With no row to update, the code builds the EvidenceEvent from ev.id before
\* the flush that assigns it: evidence_id is NULL, the flush fails, the whole
\* transaction rolls back and only the saved file remains.
RejectCapture(r) ==
  /\ req[r].op = "capture"
  /\ req[r].row = 0
  /\ req' = [req EXCEPT ![r] = Idle]
  /\ UNCHANGED <<vault, custodyLog, disk, findingStatus, verdict, approved>>

\* The client disconnects, the process dies or the commit fails.
Abort(r) ==
  /\ req[r] # Idle
  /\ req' = [req EXCEPT ![r] = Idle]
  /\ UNCHANGED <<vault, custodyLog, disk, findingStatus, verdict, approved>>

Next ==
  \E r \in Requests :
    \/ \E f \in Findings, s \in Outcomes \cap Decision : Triage(r, f, s)
    \/ \E f \in Findings : BeginVerify(r, f)
    \/ CommitVerify(r)
    \/ \E f \in Findings, s \in Outcomes : LegacyVerify(r, f, s)
    \/ \E f \in Findings, c \in Contents : BeginCapture(r, f, c)
    \/ CommitCapture(r)
    \/ RejectCapture(r)
    \/ Abort(r)

Spec == Init /\ [][Next]_vars

-----------------------------------------------------------------------------
(* Properties. *)

TypeOK ==
  /\ vault \in Seq(Evidence)
  /\ custodyLog \subseteq EvidenceEvent
  /\ disk \in Seq(Contents)
  /\ findingStatus \in [Findings -> Decision \cup {"PENDING_REVIEW"}]
  /\ verdict \in [Findings -> Status \cup {"PENDING_REVIEW"}]
  /\ approved \subseteq Findings
  /\ req \in [Requests -> IdleRequest \cup VerifyRequest \cup CaptureRequest]

\* A place in the chain after the first n rows: a root, or one past one of them
\* with a pointer at a digest that row has carried.
Follows(seq, prev, n) ==
  \/ seq = 1 /\ prev = Genesis
  \/ \E j \in 1..n : seq = vault[j].seq + 1 /\ prev \in Carried(j)

\* Custody sequence numbers have no gaps and no row points at a digest that was
\* never in the vault, however verifications, captures and aborted sessions
\* interleave.  (ARCHITECTURE 6: sequence tracking and hash pointers.)
CustodyLinked == \A i \in Rows : Follows(vault[i].seq, vault[i].prev, i - 1)

\* Two reviewed rows share a custody_sequence only when the later one read the
\* chain before the earlier one was committed: nothing but overlapping
\* verify_finding requests forks the chain.
ForksNeedOverlap ==
  \A i, j \in Rows :
    (/\ i < j
     /\ vault[i].origin = "review" /\ vault[j].origin = "review"
     /\ vault[i].seq = vault[j].seq) => vault[j].seen < i

\* The human gate: evidence is VERIFIED only for a finding that an analyst has
\* verified, although capture_evidence never looks at the decision.
GateRespected ==
  \A i \in Rows : vault[i].status = "VERIFIED" => vault[i].finding \in approved

SealLogged(i, k) ==
  /\ k \in DOMAIN disk
  /\ [row |-> i, digest |-> Sha256(disk[k]), file |-> k] \in custodyLog

\* Every artifact a row names, now or in its chain_of_custody JSON, is a file on
\* disk whose sealing is an EvidenceEvent with the digest of that file.
SealsLogged ==
  \A i \in Rows :
    /\ vault[i].file # NoFile => SealLogged(i, vault[i].file)
    /\ \A n \in DOMAIN vault[i].seals : SealLogged(i, vault[i].seals[n])

\* What verify_evidence_integrity reports as is_valid for a captured row.
ArtifactMatches(i) == vault[i].digest = Sha256(disk[vault[i].file])

\* A row whose artifact no longer has its digest was sealed at least twice, with
\* different contents, and the custody log names both: no single capture and no
\* aborted one can produce a mismatch.
MismatchIsTraceable ==
  \A i \in Rows :
    (vault[i].file # NoFile /\ ~ArtifactMatches(i)) =>
      \E a, b \in custodyLog :
        /\ a.row = i /\ b.row = i
        /\ a.digest = vault[i].digest
        /\ b.file = vault[i].file
        /\ a.digest # b.digest

-----------------------------------------------------------------------------
(* The inductive invariant behind the safety properties: what the sessions in *)
(* flight still know of the vault, and what the log knows of the rows.        *)

\* The files and rows that a capture in flight refers to exist.
CapturesInRange ==
  \A r \in Requests :
    req[r].op = "capture" =>
      /\ req[r].file \in DOMAIN disk
      /\ req[r].row \in Rows \cup {0}

\* A verification in flight still has a place in the chain, later than all rows
\* it has seen, although the row it read may have changed.
VerifiesPlaced ==
  \A r \in Requests :
    req[r].op = "verify" =>
      /\ req[r].seen <= Len(vault)
      /\ \A k \in Rows : k <= req[r].seen => vault[k].seq < req[r].seq
      /\ Follows(req[r].seq, req[r].prev, Len(vault))

\* So does every reviewed row.
ReviewsAfterSeen ==
  \A i \in Rows :
    /\ vault[i].seen < i
    /\ vault[i].origin = "review" =>
         \A k \in 1..vault[i].seen : vault[k].seq < vault[i].seq

ArtifactDigests == {Sha256(c) : c \in Contents}

\* What a capture in flight has read of its row is still accounted for.
CapturesAccounted ==
  \A r \in Requests :
    (req[r].op = "capture" /\ req[r].row # 0) =>
      /\ \A n \in DOMAIN req[r].seals : SealLogged(req[r].row, req[r].seals[n])
      /\ req[r].digest \in ArtifactDigests => vault[req[r].row].file # NoFile

\* The digest of a row is one it has carried, an artifact digest only when there
\* is an artifact, and then a logged one.
DigestsAccounted ==
  \A i \in Rows :
    /\ vault[i].digest \in Carried(i)
    /\ vault[i].digest \in ArtifactDigests => vault[i].file # NoFile
    /\ vault[i].file # NoFile =>
         \E a \in custodyLog : a.row = i /\ a.digest = vault[i].digest

LogInRange == \A e \in custodyLog : e.row \in Rows

IInv ==
  /\ TypeOK
  /\ CapturesInRange /\ VerifiesPlaced /\ ReviewsAfterSeen
  /\ CapturesAccounted /\ DigestsAccounted /\ LogInRange
  /\ CustodyLinked /\ GateRespected /\ SealsLogged

-----------------------------------------------------------------------------
\* The vault is append-only: no step removes a row or changes its finding, its
\* decision or its place in the chain, its digest changes only to one that the
\* same step logs, and no log entry, file or approval is ever taken back.
AppendOnly ==
  [][/\ Len(vault) <= Len(vault')
     /\ \A i \in Rows :
          /\ vault'[i].finding = vault[i].finding
          /\ vault'[i].status = vault[i].status
          /\ vault'[i].seq = vault[i].seq
          /\ vault'[i].prev = vault[i].prev
          /\ vault'[i].digest # vault[i].digest =>
               \E e \in custodyLog' :
                 /\ e.row = i
                 /\ e.digest = vault'[i].digest
                 /\ e.file = vault'[i].file
     /\ custodyLog \subseteq custodyLog'
     /\ approved \subseteq approved'
     /\ Len(disk) <= Len(disk')
     /\ \A k \in DOMAIN disk : disk'[k] = disk[k]]_vars

\* The vault as an abstract ledger: an entry per row, with its place and the
\* digests the row has carried.
Entries  == [i \in Rows |-> [seq |-> vault[i].seq, prev |-> vault[i].prev]]
Digested == [i \in Rows |-> Carried(i)]

Ledger == INSTANCE CustodyLedger WITH
  Root <- Genesis, ledger <- Entries, carried <- Digested

\* Whatever the sessions do, verify_finding, the /cases verification and
\* capture_evidence only ever admit linked entries and reseal them in place.
ImplementsLedger == Ledger!Spec

\* What verify_evidence_integrity reports as chain_intact: the pointer is the
\* digest the predecessor has now.
ChainIntact(i) ==
  vault[i].seq > 1 =>
    \E j \in Rows :
      /\ vault[j].seq = vault[i].seq - 1
      /\ vault[j].digest = vault[i].prev

\* SECURITY_BOUNDARIES 3: evidence items keep immutable SHA-256 digests, so that
\* every hash pointer of the chain stays checkable.
ChainVerifiable == \A i \in Rows : ChainIntact(i)

=============================================================================
