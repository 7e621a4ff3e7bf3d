-------------------------- MODULE ExposureDossier --------------------------
(***************************************************************************)
(* What is derived from the evidence of one investigation: risk            *)
(* assessments, reports with their files, takedown packages and complaint  *)
(* drafts.  Each is made by a database session that opens a transaction,   *)
(* reads in one or two steps and commits later, while analysts go on       *)
(* deciding on findings.                                                   *)
(*                                                                         *)
(* Decisions are taken from EvidenceVault, one step each: what matters     *)
(* here is which rows and decisions they leave.  UNCERTAIN is left out: a  *)
(* derived document treats it as it does REJECTED.  Reports are exported   *)
(* in one format and without the audit trail, the default.                 *)
(***************************************************************************)
EXTENDS Integers, Sequences, FiniteSets, RiskPolicy

CONSTANTS
  Findings,     \* search_results rows of the case
  Domain,       \* Domain[f]: the domain of a finding
  Breach,       \* the domains named like a breach or darkweb index
  Requests,     \* sessions that can be in flight together
  MaxEvidence,  \* bound on evidence_vault rows
  MaxDocs,      \* bound on documents
  MaxSaves      \* bound on report files written

VARIABLES
  evidence,     \* evidence_vault rows in commit order
  approved,     \* the findings an analyst has ever verified
  docs,         \* risk_assessments, case_reports, response_packages, as committed
  files,        \* report content -> the document stored under its hash
  saves,        \* documents written so far
  req           \* what each session has read and not yet written

vars == <<evidence, approved, docs, files, saves, req>>

Domains == {Domain[f] : f \in Findings}

ASSUME ConstantsAssumption ==
  /\ DOMAIN Domain = Findings
  /\ IsFiniteSet(Findings)
  /\ MaxEvidence \in Nat /\ MaxDocs \in Nat /\ MaxSaves \in Nat

-----------------------------------------------------------------------------
Decision == {"VERIFIED", "REJECTED"}

(* A document has its kind ("risk", "report" or "package"), the evidence rows it *)
(* is made from, and in "began" its created_at, whose server default now() is    *)
(* the time at which the transaction began: the documents committed by then.  An *)
(* assessment also has a policy, a score and a level, a package its domains, and *)
(* a report the assessment it shows ("risk", 0: none), in "riskSeen", history,   *)
(* the documents committed when it read that, the content that its hash covers,  *)
(* and the document stored (0: none).                                            *)

Idle == [op |-> "idle"]

\* The documents in the making count towards the bound.
Room == Len(docs) + Cardinality({r \in Requests : req[r] # Idle}) < MaxDocs

Docs(kind) == {n \in DOMAIN docs : docs[n].kind = kind}

\* Seeded fault: every row is taken for verified.
VerifiedRowsUngated == DOMAIN evidence

\* Seeded fault: the newest verified row only.
VerifiedRowsNewest ==
  {i \in DOMAIN evidence :
     /\ evidence[i].status = "VERIFIED"
     /\ \A j \in DOMAIN evidence : evidence[j].status = "VERIFIED" => j <= i}

VerifiedRows == {i \in DOMAIN evidence : evidence[i].status = "VERIFIED"}

DomainsOf(rows) == {Domain[evidence[i].finding] : i \in rows}

-----------------------------------------------------------------------------
Init ==
  /\ evidence = <<>>
  /\ approved = {}
  /\ docs = <<>>
  /\ files = <<>>
  /\ saves = 0
  /\ req = [r \in Requests |-> Idle]

\* verify_finding: a verified finding becomes a new evidence row.  Any other
\* decision, also one that takes a verification back, is an audit entry and
\* changes nothing that a document is made from.
Decide(f) ==
  /\ Len(evidence) < MaxEvidence
  /\ evidence' = Append(evidence, [finding |-> f, status |-> "VERIFIED"])
  /\ approved' = approved \cup {f}
  /\ UNCHANGED <<docs, files, saves, req>>

\* The verification behind /cases: a row whatever the decision.
DecideCase(f, s) ==
  /\ Len(evidence) < MaxEvidence
  /\ evidence' = Append(evidence, [finding |-> f, status |-> s])
  /\ approved' = IF s = "VERIFIED" THEN approved \cup {f} ELSE approved
  /\ UNCHANGED <<docs, files, saves, req>>

\* The first statement of a request, which loads its user, opens the transaction.
Open(r) ==
  /\ req[r] = Idle
  /\ Room
  /\ req' = [req EXCEPT ![r] = [op |-> "open", began |-> Len(docs)]]
  /\ UNCHANGED <<evidence, approved, docs, files, saves>>

\* evaluate_risk and compute_case_risk read the verified rows.
BeginRisk(r, policy) ==
  /\ req[r].op = "open"
  /\ req' = [req EXCEPT ![r] =
       [op |-> "risk", policy |-> policy, rows |-> VerifiedRows,
        began |-> req[r].began]]
  /\ UNCHANGED <<evidence, approved, docs, files, saves>>

\* Seeded fault: all() in the place of any().
OnlyBreach(rows) == rows # {} /\ DomainsOf(rows) \subseteq Breach

HasBreach(rows) == DomainsOf(rows) \cap Breach # {}

Assessed(q) ==
  LET n      == Cardinality(q.rows)
      d      == Cardinality(DomainsOf(q.rows))
      breach == HasBreach(q.rows)
      score  == IF q.policy = "v1" THEN ExposureScore(n, d, d, breach)
                ELSE CaseScore(n, d, breach, FALSE)
  IN
    [kind |-> "risk", rows |-> q.rows, began |-> q.began, policy |-> q.policy,
     score |-> score,
     level |-> IF q.policy = "v1" THEN ExposureLevel(n, score, breach)
               ELSE CaseLevel(score)]

CommitRisk(r) ==
  /\ req[r].op = "risk"
  /\ docs' = Append(docs, Assessed(req[r]))
  /\ req' = [req EXCEPT ![r] = Idle]
  /\ UNCHANGED <<evidence, approved, files, saves>>

\* A report loads the evidence ...
BeginReport(r) ==
  /\ req[r].op = "open"
  /\ req' = [req EXCEPT ![r] =
       [op |-> "list", rows |-> VerifiedRows, listed |-> Len(evidence),
        began |-> req[r].began]]
  /\ UNCHANGED <<evidence, approved, docs, files, saves>>

\* Seeded fault: the assessment that was committed first.
LatestRiskOldest ==
  IF Docs("risk") = {} THEN {0}
  ELSE {n \in Docs("risk") : \A m \in Docs("risk") : n <= m}

\* order_by(created_at.desc()).first(): created_at is the time at which the
\* transaction of an assessment began, not the time of its commit.  Of those
\* with the same number of documents before them, it may be any.
LatestRisk ==
  IF Docs("risk") = {} THEN {0}
  ELSE {n \in Docs("risk") : \A m \in Docs("risk") : docs[m].began <= docs[n].began}

\* What compute_deterministic_content_hash covers: the evidence as listed, here
\* the number of rows (the digests that a capture changes are left out), and the
\* risk.  The generation time is not in it.
ContentOf(q, n) ==
  [listed |-> q.listed,
   level |-> IF n = 0 THEN "LOW" ELSE docs[n].level,
   score |-> IF n = 0 THEN 0 ELSE docs[n].score]

Compiled(q, n, document) ==
  [op |-> "report", rows |-> q.rows, began |-> q.began, risk |-> n,
   riskSeen |-> Len(docs), content |-> ContentOf(q, n), document |-> document]

\* The renderers for JSON, CSV, text and PDF put the generation time in what they
\* write: every document is a new one.
Rendered == saves + 1

\* Seeded fault: the document is not stored.
SaveReportUnsaved(r) ==
  /\ req[r].op = "list"
  /\ saves < MaxSaves
  /\ \E n \in LatestRisk :
       req' = [req EXCEPT ![r] = Compiled(req[r], n, Rendered)]
  /\ saves' = Rendered
  /\ UNCHANGED <<evidence, approved, docs, files>>

\* ... then the latest assessment, and writes the document, which does contain
\* the generation time, to a file named by the content hash.
SaveReport(r) ==
  /\ req[r].op = "list"
  /\ saves < MaxSaves
  /\ \E n \in LatestRisk :
       LET c == ContentOf(req[r], n) IN
         /\ req' = [req EXCEPT ![r] = Compiled(req[r], n, Rendered)]
         /\ files' = [k \in DOMAIN files \cup {c} |->
                        IF k = c THEN Rendered ELSE files[k]]
  /\ saves' = Rendered
  /\ UNCHANGED <<evidence, approved, docs>>

\* generate_case_report reads the same; it names a file that nothing writes.
CompileCaseReport(r) ==
  /\ req[r].op = "list"
  /\ \E n \in LatestRisk : req' = [req EXCEPT ![r] = Compiled(req[r], n, 0)]
  /\ UNCHANGED <<evidence, approved, docs, files, saves>>

ReportOf(q) ==
  [kind |-> "report", rows |-> q.rows, began |-> q.began, risk |-> q.risk,
   riskSeen |-> q.riskSeen, content |-> q.content, document |-> q.document]

\* The row of the report is committed with the hash of the document.
CommitReport(r) ==
  /\ req[r].op = "report"
  /\ docs' = Append(docs, ReportOf(req[r]))
  /\ req' = [req EXCEPT ![r] = Idle]
  /\ UNCHANGED <<evidence, approved, files, saves>>

\* create_package lists the verified rows of a domain, and finding_ids is ignored;
\* create_complaint_draft lists those of all domains.
BeginPackage(r, domains) ==
  /\ req[r].op = "open"
  /\ req' = [req EXCEPT ![r] =
       [op |-> "package", domains |-> domains, began |-> req[r].began,
        rows |-> {i \in VerifiedRows : Domain[evidence[i].finding] \in domains}]]
  /\ UNCHANGED <<evidence, approved, docs, files, saves>>

PackageOf(q) ==
  [kind |-> "package", rows |-> q.rows, began |-> q.began, domains |-> q.domains]

CommitPackage(r) ==
  /\ req[r].op = "package"
  /\ docs' = Append(docs, PackageOf(req[r]))
  /\ req' = [req EXCEPT ![r] = Idle]
  /\ UNCHANGED <<evidence, approved, files, saves>>

\* What a download of report n returns: what its file contains by now.
Served(n) == files[docs[n].content]

\* An exception, a disconnect or a crash before the commit; files stay.
Abort(r) ==
  /\ req[r] # Idle
  /\ req' = [req EXCEPT ![r] = Idle]
  /\ UNCHANGED <<evidence, approved, docs, files, saves>>

\* A response package is asked for one domain, a complaint for none.
PackageScopes == {{d} : d \in Domains}
Scopes == PackageScopes \cup {Domains}

Next ==
  \/ \E f \in Findings : Decide(f)
  \/ \E f \in Findings, s \in Decision : DecideCase(f, s)
  \/ \E r \in Requests :
       \/ Open(r)
       \/ \E policy \in {"v1", "case"} : BeginRisk(r, policy)
       \/ CommitRisk(r)
       \/ BeginReport(r)
       \/ SaveReport(r)
       \/ CompileCaseReport(r)
       \/ CommitReport(r)
       \/ \E domains \in Scopes : BeginPackage(r, domains)
       \/ CommitPackage(r)
       \/ Abort(r)

Spec == Init /\ [][Next]_vars

-----------------------------------------------------------------------------
(* Properties. *)

\* The human gate: whatever an assessment counts, a report lists or a package
\* demands to be taken down is evidence of a finding that an analyst verified.
OnlyVerifiedDerived ==
  \A n \in DOMAIN docs : \A i \in docs[n].rows :
    i \in DOMAIN evidence /\ evidence[i].finding \in approved

InScope(n, i) ==
  docs[n].kind = "package" => Domain[evidence[i].finding] \in docs[n].domains

\* Nothing is lost from one document to the next: a document that was begun
\* after another was committed covers all rows of that one in its scope.
LaterDocumentsCover ==
  \A m, n \in DOMAIN docs :
    m <= docs[n].began =>
      \A i \in docs[m].rows : InScope(n, i) => i \in docs[n].rows

\* Neither policy lowers its score or level from one assessment to the next, also
\* not after an analyst has taken a verification back, whose row stays.  Only of
\* two assessments that overlapped may the one committed later be the lower.
RiskOnlyRises ==
  \A m, n \in Docs("risk") :
    m <= docs[n].began /\ docs[m].policy = docs[n].policy =>
      /\ docs[m].score <= docs[n].score
      /\ Rank[docs[m].level] <= Rank[docs[n].level]

\* A report never shows an assessment when another one, begun after that was committed,
\* had itself been committed: only overlapping assessments can be out of order.
RiskNotOutdated ==
  \A n \in Docs("report") : \A b \in Docs("risk") :
    b <= docs[n].riskSeen =>
      docs[n].risk # 0 /\ docs[b].began < docs[n].risk

\* The file of every exported report is there, with its content, in its version
\* or, when the same content was exported again, in a later one.
ReportsDownloadable ==
  \A n \in Docs("report") :
    docs[n].document # 0 =>
      /\ docs[n].content \in DOMAIN files
      /\ docs[n].document <= Served(n)

=============================================================================
