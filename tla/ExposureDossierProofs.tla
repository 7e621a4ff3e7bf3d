------------------------- MODULE ExposureDossierProofs -------------------------
(***************************************************************************)
(* The properties of ExposureDossier for any findings, domains, sessions   *)
(* and bounds.  Evidence, documents and files only grow: what a session    *)
(* has read, and what a document was made from, stays true until its       *)
(* commit and after it.  The last section is about the two risk policies.  *)
(***************************************************************************)
EXTENDS ExposureDossier, SequenceTheorems, FiniteSetTheorems, TLAPS

-----------------------------------------------------------------------------
(* The inductive invariant. *)

IsSeq(s) == s \in Seq({s[n] : n \in DOMAIN s})

WellFormed ==
  /\ IsSeq(evidence) /\ IsSeq(docs)
  /\ DOMAIN req = Requests
  /\ saves \in Nat
  /\ \A c \in DOMAIN files : files[c] \in 0..saves

\* Verified rows have an approval behind them.
Approvals == \A i \in VerifiedRows : evidence[i].finding \in approved

\* The assessment a report shows was there when it was read, and no other had
\* begun after its commit; the file of the report is there.
GoodReport(d) ==
  /\ d.risk \in {0} \cup Docs("risk")
  /\ d.riskSeen \in 0..Len(docs)
  /\ \A b \in Docs("risk") : b <= d.riskSeen => d.risk # 0 /\ docs[b].began < d.risk
  /\ d.document \in Nat
  /\ d.document # 0 => d.content \in DOMAIN files /\ d.document <= files[d.content]

\* The rows of a document of kind k, or of the session that makes it: verified, and
\* all those of the documents committed before it began.
Good(d, k) ==
  /\ d.began \in 0..Len(docs)
  /\ d.rows \subseteq VerifiedRows
  /\ \A m \in 1..d.began : \A i \in docs[m].rows :
       (k = "package" => Domain[evidence[i].finding] \in d.domains) => i \in d.rows
  /\ k = "report" => GoodReport(d)

DocsGood ==
  \A n \in 1..Len(docs) : Good(docs[n], docs[n].kind) /\ docs[n].began < n

SessionsGood ==
  \A r \in Requests :
    /\ req[r].op = "open" => req[r].began \in 0..Len(docs)
    /\ req[r].op \in {"risk", "list", "report", "package"} => Good(req[r], req[r].op)

IInv == WellFormed /\ Approvals /\ DocsGood /\ SessionsGood

LEMMA SeqDomain == \A s : IsSeq(s) => Len(s) \in Nat /\ DOMAIN s = 1..Len(s)
<1> SUFFICES ASSUME NEW s, IsSeq(s) PROVE Len(s) \in Nat /\ DOMAIN s = 1..Len(s)
  OBVIOUS
<1> QED
  BY LenProperties DEF IsSeq

LEMMA IInvImplies ==
  ASSUME IInv
  PROVE  /\ OnlyVerifiedDerived /\ LaterDocumentsCover
         /\ RiskNotOutdated /\ ReportsDownloadable
<1>1. Len(docs) \in Nat /\ DOMAIN docs = 1..Len(docs)
  BY SeqDomain DEF IInv, WellFormed
<1>2. \A n \in DOMAIN docs :
        Good(docs[n], docs[n].kind) /\ docs[n].began < n /\ docs[n].began \in Nat
  BY <1>1 DEF IInv, DocsGood, Good
<1>3. OnlyVerifiedDerived
  BY <1>2 DEF IInv, Approvals, Good, OnlyVerifiedDerived, VerifiedRows
<1>4. LaterDocumentsCover
  BY <1>1, <1>2 DEF Good, LaterDocumentsCover, InScope
<1>5. \A n \in Docs("report") : n \in DOMAIN docs /\ docs[n].kind = "report" /\ GoodReport(docs[n])
  BY <1>2 DEF Docs, Good
<1>6. RiskNotOutdated
  BY <1>5 DEF GoodReport, RiskNotOutdated
<1>7. ReportsDownloadable
  BY <1>5 DEF GoodReport, ReportsDownloadable, Served
<1> QED
  BY <1>3, <1>4, <1>6, <1>7

-----------------------------------------------------------------------------
(* What never shrinks. *)

LEMMA Appended ==
  ASSUME NEW s, IsSeq(s), NEW d
  PROVE  /\ IsSeq(Append(s, d))
         /\ Len(Append(s, d)) = Len(s) + 1
         /\ \A n \in 1..Len(s) : Append(s, d)[n] = s[n]
         /\ Append(s, d)[Len(s) + 1] = d
<1> DEFINE S == {s[n] : n \in DOMAIN s} \cup {d}
           t == Append(s, d)
<1>1. s \in Seq(S) /\ d \in S
  BY SeqMonotonic DEF IsSeq
<1> HIDE DEF S
<1>2. /\ t \in Seq(S) /\ Len(t) = Len(s) + 1
      /\ \A n \in 1..Len(s) : t[n] = s[n]
      /\ t[Len(s) + 1] = d
  BY <1>1, AppendProperties
<1>3. IsSeq(t)
  <2> HIDE DEF t
  <2>1. Len(t) \in Nat /\ t = [n \in 1..Len(t) |-> t[n]] /\ DOMAIN t = 1..Len(t)
    BY <1>2, LenProperties
  <2>2. t \in [1..Len(t) -> {t[n] : n \in DOMAIN t}]
    BY <2>1
  <2> QED
    BY <2>1, <2>2, SeqDef DEF IsSeq
<1> QED
  BY <1>2, <1>3

Grows ==
  /\ \A i \in DOMAIN evidence : i \in DOMAIN evidence' /\ evidence'[i] = evidence[i]
  /\ Len(docs') \in Nat /\ Len(docs) <= Len(docs')
  /\ \A n \in 1..Len(docs) : docs'[n] = docs[n]
  /\ \A c \in DOMAIN files : c \in DOMAIN files' /\ files'[c] \in Nat /\ files[c] <= files'[c]
  /\ IsSeq(docs')

LEMMA StaysGood ==
  ASSUME IInv, Grows, NEW d, NEW k, Good(d, k)
  PROVE  Good(d, k)'
<1>1. /\ Len(docs) \in Nat /\ DOMAIN docs = 1..Len(docs)
      /\ Len(docs') \in Nat /\ DOMAIN docs' = 1..Len(docs')
  BY SeqDomain DEF IInv, WellFormed, Grows
<1>2. \A i \in VerifiedRows : i \in VerifiedRows' /\ evidence'[i] = evidence[i]
  BY DEF VerifiedRows, Grows
<1>3. d.began \in 0..Len(docs') /\ d.began \in 0..Len(docs) /\ d.rows \subseteq VerifiedRows'
  BY <1>1, <1>2 DEF Good, Grows
<1>4. \A m \in 1..d.began :
        m \in 1..Len(docs) /\ docs'[m] = docs[m] /\ docs[m].rows \subseteq VerifiedRows
  BY <1>1, <1>3 DEF Grows, IInv, DocsGood, Good
<1>5. \A m \in 1..d.began : \A i \in docs'[m].rows :
        (k = "package" => Domain[evidence'[i].finding] \in d.domains) => i \in d.rows
  BY <1>2, <1>4 DEF Good
<1>6. ASSUME GoodReport(d) PROVE GoodReport(d)'
  <2>1. d.risk \in {0} \cup Docs("risk")'
    BY <1>1, <1>6 DEF GoodReport, Docs, Grows
  <2>2. d.riskSeen \in 0..Len(docs')
    BY <1>1, <1>6 DEF GoodReport, Grows
  <2>3. \A b \in Docs("risk")' : b <= d.riskSeen => b \in Docs("risk") /\ docs'[b] = docs[b]
    BY <1>1, <1>6 DEF GoodReport, Docs, Grows
  <2>4. \A b \in Docs("risk")' : b <= d.riskSeen => d.risk # 0 /\ docs'[b].began < d.risk
    BY <2>3, <1>6 DEF GoodReport
  <2>5. d.document # 0 => d.content \in DOMAIN files' /\ d.document <= files'[d.content]
    BY <1>6 DEF GoodReport, Grows, IInv, WellFormed
  <2> QED
    BY <2>1, <2>2, <2>4, <2>5, <1>6 DEF GoodReport
<1> QED
  BY <1>3, <1>5, <1>6 DEF Good

\* A step that adds no document leaves the documents good, and the sessions that it
\* does not move.
LEMMA DocsKept ==
  ASSUME IInv, Grows, docs' = docs
  PROVE  DocsGood'
<1> SUFFICES ASSUME NEW n \in 1..Len(docs) PROVE (Good(docs[n], docs[n].kind) /\ docs[n].began < n)'
  BY DEF DocsGood
<1>1. PICK d : d = docs[n]
  OBVIOUS
<1>2. Good(d, d.kind) /\ d.began < n
  BY <1>1 DEF IInv, DocsGood
<1>3. Good(d, d.kind)'
  BY <1>2, StaysGood
<1> QED
  BY <1>1, <1>2, <1>3 DEF Good, GoodReport, Docs, VerifiedRows

\* What is asked of the state of a session.
SessionGood(q) ==
  /\ q.op = "open" => q.began \in 0..Len(docs)
  /\ q.op \in {"risk", "list", "report", "package"} => Good(q, q.op)

LEMMA SessionStays ==
  ASSUME IInv, Grows, NEW q, SessionGood(q)
  PROVE  SessionGood(q)'
<1>1. Len(docs) \in Nat
  BY SeqDomain DEF IInv, WellFormed
<1>2. q.op = "open" => q.began \in 0..Len(docs')
  BY <1>1 DEF SessionGood, Grows
<1>3. q.op \in {"risk", "list", "report", "package"} => Good(q, q.op)'
  BY StaysGood DEF SessionGood
<1> QED
  BY <1>2, <1>3 DEF SessionGood

LEMMA SessionsKept ==
  ASSUME IInv, Grows, NEW r \in Requests, NEW q, req' = [req EXCEPT ![r] = q],
         SessionGood(q)'
  PROVE  SessionsGood'
<1> SUFFICES ASSUME NEW s \in Requests PROVE SessionGood(req[s])'
  BY DEF SessionsGood, SessionGood
<1>1. CASE s = r
  <2>1. req'[s] = q
    BY <1>1 DEF IInv, WellFormed
  <2> QED
    BY <2>1 DEF SessionGood, Good, GoodReport, Docs, VerifiedRows
<1>2. CASE s # r
  <2>1. PICK p : p = req[s]
    OBVIOUS
  <2>2. SessionGood(p)
    BY <2>1 DEF IInv, SessionsGood, SessionGood
  <2>3. SessionGood(p)'
    BY <2>2, SessionStays
  <2>4. req'[s] = p
    BY <1>2, <2>1
  <2> QED
    BY <2>3, <2>4 DEF SessionGood, Good, GoodReport, Docs, VerifiedRows
<1> QED
  BY <1>1, <1>2

LEMMA DocAdded ==
  ASSUME IInv, Grows, NEW d, docs' = Append(docs, d), Good(d, d.kind)
  PROVE  DocsGood'
<1>1. /\ Len(docs) \in Nat /\ Len(docs') = Len(docs) + 1
      /\ docs'[Len(docs) + 1] = d
  BY SeqDomain, Appended DEF IInv, WellFormed
<1> SUFFICES ASSUME NEW n \in 1..Len(docs')
             PROVE  (Good(docs[n], docs[n].kind))' /\ docs'[n].began < n
  BY DEF DocsGood
<1>2. PICK e : e = docs'[n]
  OBVIOUS
<1>3. Good(e, e.kind) /\ e.began < n
  <2>1. CASE n \in 1..Len(docs)
    BY <2>1, <1>2 DEF IInv, DocsGood, Grows
  <2>2. CASE n = Len(docs) + 1
    BY <2>2, <1>1, <1>2 DEF Good
  <2> QED
    BY <2>1, <2>2, <1>1
<1>4. Good(e, e.kind)'
  BY <1>3, StaysGood
<1> QED
  BY <1>2, <1>3, <1>4 DEF Good, GoodReport, Docs, VerifiedRows

\* A session that reads the verified rows, or those in its scope, reads all that the
\* documents before it have.
LEMMA ReadsAll ==
  ASSUME IInv, NEW d, NEW k, k # "report", d.began \in 0..Len(docs),
         d.rows \subseteq VerifiedRows,
         \A i \in VerifiedRows :
           (k = "package" => Domain[evidence[i].finding] \in d.domains) => i \in d.rows
  PROVE  Good(d, k)
<1>1. \A m \in 1..d.began : m \in 1..Len(docs) /\ docs[m].rows \subseteq VerifiedRows
  BY SeqDomain DEF IInv, WellFormed, DocsGood, Good
<1> QED
  BY <1>1 DEF Good

-----------------------------------------------------------------------------
(* The steps. *)

\* A session moves and nothing else does.
LEMMA MoveStep ==
  ASSUME IInv, NEW r \in Requests, NEW q, req' = [req EXCEPT ![r] = q],
         SessionGood(q), UNCHANGED <<evidence, approved, docs, files, saves>>
  PROVE  IInv'
<1>1. Grows
  BY SeqDomain DEF IInv, WellFormed, Grows
<1>2. WellFormed' /\ Approvals'
  BY DEF IInv, WellFormed, Approvals, VerifiedRows
<1>3. SessionGood(q)'
  BY <1>1, SessionStays
<1> QED
  BY <1>1, <1>2, <1>3, DocsKept, SessionsKept DEF IInv

LEMMA ReadStep ==
  ASSUME IInv, NEW r \in Requests,
         \/ Open(r) \/ BeginReport(r) \/ Abort(r)
         \/ \E policy \in {"v1", "case"} : BeginRisk(r, policy)
         \/ \E domains \in Scopes : BeginPackage(r, domains)
  PROVE  IInv'
<1>1. req[r].op = "open" => req[r].began \in 0..Len(docs)
  BY DEF IInv, SessionsGood
<1>2. Len(docs) \in Nat
  BY SeqDomain DEF IInv, WellFormed
<1>3. CASE Open(r) \/ Abort(r)
  <2>1. PICK q \in {Idle, [op |-> "open", began |-> Len(docs)]} : req' = [req EXCEPT ![r] = q]
    BY <1>3 DEF Open, Abort
  <2>2. SessionGood(q)
    BY <2>1, <1>2 DEF SessionGood, Idle
  <2> QED
    BY <2>1, <2>2, <1>3, MoveStep DEF Open, Abort
<1>4. CASE BeginReport(r)
  <2>1. PICK q : q = [op |-> "list", rows |-> VerifiedRows, listed |-> Len(evidence),
                      began |-> req[r].began]
    OBVIOUS
  <2>2. Good(q, "list")
    BY <2>1, <1>1, <1>4, ReadsAll DEF BeginReport
  <2> QED
    BY <2>1, <2>2, <1>4, MoveStep DEF BeginReport, SessionGood
<1>5. ASSUME NEW policy, BeginRisk(r, policy) PROVE IInv'
  <2>1. PICK q : q = [op |-> "risk", policy |-> policy, rows |-> VerifiedRows,
                      began |-> req[r].began]
    OBVIOUS
  <2>2. Good(q, "risk")
    BY <2>1, <1>1, <1>5, ReadsAll DEF BeginRisk
  <2> QED
    BY <2>1, <2>2, <1>5, MoveStep DEF BeginRisk, SessionGood
<1>6. ASSUME NEW domains, BeginPackage(r, domains) PROVE IInv'
  <2>1. PICK q : q = [op |-> "package", domains |-> domains, began |-> req[r].began,
                      rows |-> {i \in VerifiedRows : Domain[evidence[i].finding] \in domains}]
    OBVIOUS
  <2>2. Good(q, "package")
    BY <2>1, <1>1, <1>6, ReadsAll DEF BeginPackage
  <2> QED
    BY <2>1, <2>2, <1>6, MoveStep DEF BeginPackage, SessionGood
<1> QED
  BY <1>3, <1>4, <1>5, <1>6

\* Both routes add an evidence row, a verified one with the approval of its finding.
LEMMA DecideStep ==
  ASSUME IInv, (\E f \in Findings : Decide(f))
               \/ \E f \in Findings, s \in Decision : DecideCase(f, s)
  PROVE  IInv'
<1>1. PICK f \in Findings, s \in Decision :
        /\ evidence' = Append(evidence, [finding |-> f, status |-> s])
        /\ approved' = IF s = "VERIFIED" THEN approved \cup {f} ELSE approved
        /\ UNCHANGED <<docs, files, saves, req>>
  BY DEF Decide, DecideCase, Decision
<1>2. /\ IsSeq(evidence') /\ Len(evidence) \in Nat /\ Len(evidence') = Len(evidence) + 1
      /\ DOMAIN evidence = 1..Len(evidence) /\ DOMAIN evidence' = 1..Len(evidence')
      /\ \A i \in 1..Len(evidence) : evidence'[i] = evidence[i]
      /\ evidence'[Len(evidence) + 1] = [finding |-> f, status |-> s]
  BY <1>1, SeqDomain, Appended DEF IInv, WellFormed
<1>3. Grows
  BY <1>1, <1>2, SeqDomain DEF IInv, WellFormed, Grows
<1>4. WellFormed'
  BY <1>1, <1>2 DEF IInv, WellFormed
<1>5. Approvals'
  <2> SUFFICES ASSUME NEW i \in VerifiedRows' PROVE evidence'[i].finding \in approved'
    BY DEF Approvals
  <2>1. CASE i \in 1..Len(evidence)
    BY <2>1, <1>1, <1>2 DEF IInv, Approvals, VerifiedRows
  <2>2. CASE i = Len(evidence) + 1
    BY <2>2, <1>1, <1>2 DEF VerifiedRows
  <2> QED
    BY <2>1, <2>2, <1>2 DEF VerifiedRows
<1>6. SessionsGood'
  <2> SUFFICES ASSUME NEW r \in Requests PROVE SessionGood(req[r])'
    BY DEF SessionsGood, SessionGood
  <2>1. PICK p : p = req[r]
    OBVIOUS
  <2>2. SessionGood(p)'
    BY <2>1, <1>3, SessionStays DEF IInv, SessionsGood, SessionGood
  <2> QED
    BY <2>1, <2>2, <1>1 DEF SessionGood, Good, GoodReport, Docs, VerifiedRows
<1> QED
  BY <1>1, <1>3, <1>4, <1>5, <1>6, DocsKept DEF IInv

\* What LatestRisk finds makes a good report of a session that has listed the rows.
LEMMA CompiledGood ==
  ASSUME IInv, NEW r \in Requests, req[r].op = "list", NEW n \in LatestRisk,
         NEW q, NEW document \in Nat, q = Compiled(req[r], n, document)
  PROVE  /\ n \in {0} \cup Docs("risk")
         /\ \A b \in Docs("risk") : n # 0 /\ docs[b].began < n
         /\ Good(req[r], "list")
         /\ q.began = req[r].began /\ q.rows = req[r].rows /\ q.op = "report"
         /\ q.risk = n /\ q.riskSeen = Len(docs) /\ q.document = document
<1>1. Len(docs) \in Nat /\ DOMAIN docs = 1..Len(docs)
  BY SeqDomain DEF IInv, WellFormed
<1>2. \A b \in Docs("risk") : b \in 1..Len(docs) /\ docs[b].began \in Nat /\ docs[b].began < b
  BY <1>1 DEF Docs, IInv, DocsGood, Good
<1>3. /\ n \in {0} \cup Docs("risk")
      /\ \A b \in Docs("risk") : n \in Docs("risk") /\ docs[b].began <= docs[n].began
  BY DEF LatestRisk
<1>4. \A b \in Docs("risk") : n # 0 /\ docs[b].began < n
  BY <1>2, <1>3
<1> QED
  BY <1>3, <1>4 DEF Compiled, IInv, SessionsGood

LEMMA CompileStep ==
  ASSUME IInv, NEW r \in Requests, CompileCaseReport(r)
  PROVE  IInv'
<1>1. PICK n \in LatestRisk : req' = [req EXCEPT ![r] = Compiled(req[r], n, 0)]
  BY DEF CompileCaseReport
<1>2. PICK q : q = Compiled(req[r], n, 0)
  OBVIOUS
<1>3. /\ n \in {0} \cup Docs("risk") /\ Good(req[r], "list")
      /\ \A b \in Docs("risk") : n # 0 /\ docs[b].began < n
      /\ q.began = req[r].began /\ q.rows = req[r].rows /\ q.op = "report"
      /\ q.risk = n /\ q.riskSeen = Len(docs) /\ q.document = 0
  BY <1>2, CompiledGood DEF CompileCaseReport
<1>4. GoodReport(q)
  BY <1>3, SeqDomain DEF GoodReport, IInv, WellFormed
<1>5. Good(q, "report")
  BY <1>3, <1>4 DEF Good
<1> QED
  BY <1>1, <1>2, <1>3, <1>5, MoveStep DEF CompileCaseReport, SessionGood

\* The file is written, over an older one perhaps, before the report is committed.
LEMMA SaveStep ==
  ASSUME IInv, NEW r \in Requests, SaveReport(r)
  PROVE  IInv'
<1>1. PICK n \in LatestRisk :
        /\ req' = [req EXCEPT ![r] = Compiled(req[r], n, saves + 1)]
        /\ files' = [k \in DOMAIN files \cup {ContentOf(req[r], n)} |->
                       IF k = ContentOf(req[r], n) THEN saves + 1 ELSE files[k]]
        /\ req[r].op = "list" /\ saves' = saves + 1 /\ UNCHANGED <<evidence, approved, docs>>
  BY DEF SaveReport, Rendered
<1>2. PICK q : q = Compiled(req[r], n, saves + 1)
  OBVIOUS
<1>3. saves \in Nat /\ \A c \in DOMAIN files : files[c] \in 0..saves
  BY DEF IInv, WellFormed
<1>4. Grows
  BY <1>1, <1>3, SeqDomain DEF IInv, WellFormed, Grows
<1>5. WellFormed'
  BY <1>1, <1>3 DEF IInv, WellFormed
<1>6. Approvals'
  BY <1>1 DEF IInv, Approvals, VerifiedRows
<1>7. q.content \in DOMAIN files' /\ files'[q.content] = saves + 1
  BY <1>1, <1>2 DEF Compiled
<1>8. /\ n \in {0} \cup Docs("risk") /\ Good(req[r], "list")
      /\ \A b \in Docs("risk") : n # 0 /\ docs[b].began < n
      /\ q.began = req[r].began /\ q.rows = req[r].rows /\ q.op = "report"
      /\ q.risk = n /\ q.riskSeen = Len(docs) /\ q.document = saves + 1
  BY <1>1, <1>2, <1>3, CompiledGood
<1>9. GoodReport(q)'
  BY <1>1, <1>3, <1>7, <1>8, SeqDomain DEF GoodReport, Docs, IInv, WellFormed
<1>10. Good(q, "report")'
  BY <1>1, <1>8, <1>9 DEF Good, VerifiedRows
<1>11. SessionGood(q)'
  BY <1>8, <1>10 DEF SessionGood
<1> QED
  BY <1>1, <1>2, <1>4, <1>5, <1>6, <1>11, DocsKept, SessionsKept DEF IInv

\* The document that a session commits is as good as what the session has read.
LEMMA CommitStep ==
  ASSUME IInv, NEW r \in Requests, CommitRisk(r) \/ CommitReport(r) \/ CommitPackage(r)
  PROVE  IInv'
<1>1. PICK d : docs' = Append(docs, d) /\ Good(d, d.kind)
  <2>1. CASE CommitRisk(r)
    <3>1. PICK d : d = Assessed(req[r])
      OBVIOUS
    <3>2. d.kind = "risk" /\ d.rows = req[r].rows /\ d.began = req[r].began
      BY <3>1 DEF Assessed
    <3>3. Good(req[r], "risk")
      BY <2>1 DEF CommitRisk, IInv, SessionsGood
    <3> QED
      BY <2>1, <3>1, <3>2, <3>3 DEF CommitRisk, Good
  <2>2. CASE CommitReport(r)
    <3>1. PICK d : d = ReportOf(req[r])
      OBVIOUS
    <3>2. Good(req[r], "report")
      BY <2>2 DEF CommitReport, IInv, SessionsGood
    <3> QED
      BY <2>2, <3>1, <3>2 DEF CommitReport, ReportOf, Good, GoodReport
  <2>3. CASE CommitPackage(r)
    <3>1. PICK d : d = PackageOf(req[r])
      OBVIOUS
    <3>2. Good(req[r], "package")
      BY <2>3 DEF CommitPackage, IInv, SessionsGood
    <3> QED
      BY <2>3, <3>1, <3>2 DEF CommitPackage, PackageOf, Good
  <2> QED
    BY <2>1, <2>2, <2>3
<1>2. req' = [req EXCEPT ![r] = Idle] /\ UNCHANGED <<evidence, approved, files, saves>>
  BY DEF CommitRisk, CommitReport, CommitPackage
<1>3. /\ IsSeq(docs') /\ Len(docs') = Len(docs) + 1 /\ Len(docs) \in Nat
      /\ \A n \in 1..Len(docs) : docs'[n] = docs[n]
  BY <1>1, SeqDomain, Appended DEF IInv, WellFormed
<1>4. Grows
  BY <1>2, <1>3 DEF IInv, WellFormed, Grows
<1>5. WellFormed' /\ Approvals'
  BY <1>2, <1>3 DEF IInv, WellFormed, Approvals, VerifiedRows
<1>6. SessionGood(Idle)'
  BY DEF SessionGood, Idle
<1> QED
  BY <1>1, <1>2, <1>4, <1>5, <1>6, DocAdded, SessionsKept DEF IInv

-----------------------------------------------------------------------------
(* The invariant holds, and the properties with it. *)

LEMMA InitIInv == Init => IInv
<1> SUFFICES ASSUME Init PROVE IInv
  OBVIOUS
<1>1. IsSeq(<<>>) /\ Len(<<>>) = 0 /\ DOMAIN <<>> = {}
  BY EmptySeq DEF IsSeq
<1>2. \A r \in Requests : req[r].op = "idle"
  BY DEF Init, Idle
<1>3. WellFormed
  BY <1>1 DEF Init, WellFormed
<1>4. Approvals /\ DocsGood
  BY <1>1 DEF Init, Approvals, DocsGood, VerifiedRows
<1>5. SessionsGood
  BY <1>2 DEF SessionsGood
<1> QED
  BY <1>3, <1>4, <1>5 DEF IInv

LEMMA StepIInv == IInv /\ [Next]_vars => IInv'
<1>1. ASSUME IInv, UNCHANGED vars PROVE IInv'
  BY <1>1 DEF vars, IInv, WellFormed, Approvals, DocsGood, SessionsGood, Good, GoodReport,
              Docs, VerifiedRows
<1> QED
  BY <1>1, DecideStep, ReadStep, CompileStep, SaveStep, CommitStep DEF Next

\* The inductive invariant holds in every reachable state.
THEOREM Invariance == Spec => []IInv
<1> QED
  BY InitIInv, StepIInv, PTL DEF Spec

\* Nothing that an analyst has not verified is ever counted, reported or demanded to
\* be taken down, for any findings and any number of overlapping sessions.
THEOREM HumanGate == Spec => []OnlyVerifiedDerived
<1> QED
  BY IInvImplies, Invariance, PTL

\* A document covers what those committed before it began do.
THEOREM Coverage == Spec => []LaterDocumentsCover
<1> QED
  BY IInvImplies, Invariance, PTL

\* Only overlapping assessments are shown out of order.
THEOREM RiskCurrent == Spec => []RiskNotOutdated
<1> QED
  BY IInvImplies, Invariance, PTL

\* The file of every exported report is there, in its version or a later one.
THEOREM Downloads == Spec => []ReportsDownloadable
<1> QED
  BY IInvImplies, Invariance, PTL

-----------------------------------------------------------------------------
(* The two risk policies, for any number of rows and domains: a model of a  *)
(* handful of rows cannot reach all of their levels.                        *)

\* A capped weight grows with its argument.
LEMMA CapMonotone ==
  ASSUME NEW m \in Nat, NEW n \in Nat, m <= n, NEW most \in Nat
  PROVE  Cap(m, most) <= Cap(n, most)
BY DEF Cap

\* The score of evaluate_risk is between 0 and 100.
THEOREM ExposureScoreBounded ==
  ASSUME NEW n \in Nat, NEW d \in Nat, NEW c \in Nat, NEW breach \in BOOLEAN
  PROVE  ExposureScore(n, d, c, breach) \in 0..400
BY DEF ExposureScore, Cap, Points

\* The score of compute_case_risk is between its baseline of 20 and 100.
THEOREM CaseScoreBounded ==
  ASSUME NEW n \in Nat, NEW d \in Nat,
         NEW breach \in BOOLEAN, NEW paste \in BOOLEAN
  PROVE  CaseScore(n, d, breach, paste) \in 80..400
BY DEF CaseScore, Cap, Points

\* Without a breach domain the score of evaluate_risk stays at 70, so that its
\* level is not CRITICAL however many findings are verified on however many
\* domains: that level is reserved for breach repositories.
THEOREM CriticalNeedsBreach ==
  ASSUME NEW n \in Nat, NEW d \in Nat, NEW c \in Nat
  PROVE  /\ ExposureScore(n, d, c, FALSE) <= 280
         /\ ExposureLevel(n, ExposureScore(n, d, c, FALSE), FALSE) # "CRITICAL"
<1> DEFINE s == ExposureScore(n, d, c, FALSE)
<1>1. s \in 0..280
  BY DEF ExposureScore, Cap, Points
<1> HIDE DEF s
<1>2. s <= 280 /\ ExposureLevel(n, s, FALSE) # "CRITICAL"
  BY <1>1 DEF ExposureLevel
<1> QED  BY <1>2 DEF s

\* Verified findings, domains, clusters or a breach domain never lower the score
\* of evaluate_risk.
THEOREM ExposureScoreMonotone ==
  ASSUME NEW n1 \in Nat, NEW n2 \in Nat, n1 <= n2,
         NEW d1 \in Nat, NEW d2 \in Nat, d1 <= d2,
         NEW c1 \in Nat, NEW c2 \in Nat, c1 <= c2,
         NEW b1 \in BOOLEAN, NEW b2 \in BOOLEAN, b1 => b2
  PROVE  ExposureScore(n1, d1, c1, b1) <= ExposureScore(n2, d2, c2, b2)
<1>1. /\ Cap(14 * n1, 140) <= Cap(14 * n2, 140)
      /\ Cap(15 * d1, 100) <= Cap(15 * d2, 100)
      /\ Cap(4 * c1, 40) <= Cap(4 * c2, 40)
  <2>1. /\ 14 * n1 \in Nat /\ 14 * n2 \in Nat /\ 14 * n1 <= 14 * n2
        /\ 15 * d1 \in Nat /\ 15 * d2 \in Nat /\ 15 * d1 <= 15 * d2
        /\ 4 * c1 \in Nat /\ 4 * c2 \in Nat /\ 4 * c1 <= 4 * c2
    OBVIOUS
  <2> QED  BY <2>1, CapMonotone
<1>2. Points(b1, 120) <= Points(b2, 120)
  BY DEF Points
<1>3. /\ Cap(14 * n1, 140) \in Nat /\ Cap(14 * n2, 140) \in Nat
      /\ Cap(15 * d1, 100) \in Nat /\ Cap(15 * d2, 100) \in Nat
      /\ Cap(4 * c1, 40) \in Nat /\ Cap(4 * c2, 40) \in Nat
      /\ Points(b1, 120) \in Nat /\ Points(b2, 120) \in Nat
  BY DEF Cap, Points
<1> QED  BY <1>1, <1>2, <1>3 DEF ExposureScore

\* The order of the levels.
LEMMA RankValues ==
  /\ Rank["LOW"] = 0 /\ Rank["MEDIUM"] = 1
  /\ Rank["HIGH"] = 2 /\ Rank["CRITICAL"] = 3
BY DEF Rank, Level

\* The thresholds and the breach rule together respect the order of the levels.
LEMMA LevelsOrdered ==
  ASSUME NEW n1 \in Nat, NEW n2 \in Nat, n1 <= n2,
         NEW s1 \in 0..400, NEW s2 \in 0..400, s1 <= s2,
         NEW b1 \in BOOLEAN, NEW b2 \in BOOLEAN, b1 => b2,
         n1 = 0 => s1 = 0, n2 = 0 => s2 = 0
  PROVE  Rank[ExposureLevel(n1, s1, b1)] <= Rank[ExposureLevel(n2, s2, b2)]
<1>1. CASE s2 >= 320 \/ (b2 /\ n2 >= 10)
  <2>1. ExposureLevel(n2, s2, b2) = "CRITICAL"
    BY <1>1 DEF ExposureLevel
  <2>2. ExposureLevel(n1, s1, b1) \in Level
    BY DEF ExposureLevel, Level
  <2> QED  BY <2>1, <2>2, RankValues DEF Level
<1>2. CASE s2 < 320 /\ ~(b2 /\ n2 >= 10)
  <2>1. ~(b1 /\ n1 >= 10)
    <3>1. CASE b1  BY <1>2, <3>1
    <3>2. CASE ~b1  BY <3>2
    <3> QED  BY <3>1, <3>2
  <2>2. CASE s1 >= 240
    <3>1. ExposureLevel(n1, s1, b1) = "HIGH"
      BY <1>2, <2>1, <2>2, SMTT(30) DEF ExposureLevel
    <3>2. s2 >= 240 /\ s2 < 320  BY <1>2, <2>2
    <3>3. ExposureLevel(n2, s2, b2) = "HIGH"  BY <1>2, <3>2 DEF ExposureLevel
    <3> QED  BY <3>1, <3>3, RankValues
  <2>3. CASE s1 < 240 /\ s1 >= 100
    <3>1. ExposureLevel(n1, s1, b1) = "MEDIUM"  BY <1>2, <2>1, <2>3 DEF ExposureLevel
    <3>2. ExposureLevel(n2, s2, b2) \in {"MEDIUM", "HIGH"}
      BY <1>2, <2>3, SMTT(30) DEF ExposureLevel
    <3> QED  BY <3>1, <3>2, RankValues
  <2>4. CASE s1 < 100
    <3>1. ExposureLevel(n1, s1, b1) = "LOW"  BY <2>1, <2>4 DEF ExposureLevel
    <3>2. ExposureLevel(n2, s2, b2) \in Level  BY DEF ExposureLevel, Level
    <3> QED  BY <3>1, <3>2, RankValues DEF Level
  <2> QED  BY <2>2, <2>3, <2>4
<1> QED  BY <1>1, <1>2

\* Nor do they lower its level, although the rule for ten findings in a breach
\* repository overrides the thresholds.
THEOREM ExposureLevelMonotone ==
  ASSUME NEW n1 \in Nat, NEW n2 \in Nat, n1 <= n2,
         NEW d1 \in Nat, NEW d2 \in Nat, d1 <= d2,
         NEW c1 \in Nat, NEW c2 \in Nat, c1 <= c2,
         NEW b1 \in BOOLEAN, NEW b2 \in BOOLEAN, b1 => b2
  PROVE  Rank[ExposureLevel(n1, ExposureScore(n1, d1, c1, b1), b1)]
           <= Rank[ExposureLevel(n2, ExposureScore(n2, d2, c2, b2), b2)]
<1> DEFINE s1 == ExposureScore(n1, d1, c1, b1)
           s2 == ExposureScore(n2, d2, c2, b2)
<1>1. s1 \in 0..400 /\ s2 \in 0..400
  <2>1. s1 \in 0..400  BY SMTT(30) DEF ExposureScore, Cap, Points
  <2>2. s2 \in 0..400  BY SMTT(30) DEF ExposureScore, Cap, Points
  <2> QED  BY <2>1, <2>2
<1>2. s1 <= s2
  BY ExposureScoreMonotone
<1>3. (n1 = 0 => s1 = 0) /\ (n2 = 0 => s2 = 0)
  BY DEF ExposureScore
<1> HIDE DEF s1, s2
<1>4. Rank[ExposureLevel(n1, s1, b1)] <= Rank[ExposureLevel(n2, s2, b2)]
  BY <1>1, <1>2, <1>3, LevelsOrdered, ZenonT(60)
<1> QED  BY <1>4 DEF s1, s2

\* Nor do they lower the score of compute_case_risk ...
LEMMA CaseScoreMonotone ==
  ASSUME NEW n1 \in Nat, NEW n2 \in Nat, n1 <= n2,
         NEW d1 \in Nat, NEW d2 \in Nat, d1 <= d2,
         NEW b1 \in BOOLEAN, NEW b2 \in BOOLEAN, b1 => b2,
         NEW p1 \in BOOLEAN, NEW p2 \in BOOLEAN, p1 => p2
  PROVE  CaseScore(n1, d1, b1, p1) <= CaseScore(n2, d2, b2, p2)
<1>1. /\ Cap(28 * n1, 140) <= Cap(28 * n2, 140)
      /\ Cap(20 * d1, 100) <= Cap(20 * d2, 100)
  <2>1. /\ 28 * n1 \in Nat /\ 28 * n2 \in Nat /\ 28 * n1 <= 28 * n2
        /\ 20 * d1 \in Nat /\ 20 * d2 \in Nat /\ 20 * d1 <= 20 * d2
    OBVIOUS
  <2> QED  BY <2>1, CapMonotone
<1>2. Points(b1, 80) <= Points(b2, 80) /\ Points(p1, 40) <= Points(p2, 40)
  BY DEF Points
<1>3. /\ Cap(28 * n1, 140) \in Nat /\ Cap(28 * n2, 140) \in Nat
      /\ Cap(20 * d1, 100) \in Nat /\ Cap(20 * d2, 100) \in Nat
      /\ Points(b1, 80) \in Nat /\ Points(b2, 80) \in Nat
      /\ Points(p1, 40) \in Nat /\ Points(p2, 40) \in Nat
  BY DEF Cap, Points
<1> DEFINE t1 == 80 + Cap(28 * n1, 140) + Cap(20 * d1, 100)
                   + Points(b1, 80) + Points(p1, 40)
           t2 == 80 + Cap(28 * n2, 140) + Cap(20 * d2, 100)
                   + Points(b2, 80) + Points(p2, 40)
<1>4. t1 \in Nat /\ t2 \in Nat /\ t1 <= t2
  <2>1. t1 \in Nat  BY <1>3
  <2>2. t2 \in Nat  BY <1>3
  <2>3. t1 <= t2  BY <1>1, <1>2, <1>3
  <2> QED  BY <2>1, <2>2, <2>3
<1> HIDE DEF t1, t2
<1>5. Cap(t1, 400) <= Cap(t2, 400)
  BY <1>4, CapMonotone
<1> QED  BY <1>5 DEF CaseScore, t1, t2

\* ... or its level.
THEOREM CaseLevelMonotone ==
  ASSUME NEW n1 \in Nat, NEW n2 \in Nat, n1 <= n2,
         NEW d1 \in Nat, NEW d2 \in Nat, d1 <= d2,
         NEW b1 \in BOOLEAN, NEW b2 \in BOOLEAN, b1 => b2,
         NEW p1 \in BOOLEAN, NEW p2 \in BOOLEAN, p1 => p2
  PROVE  Rank[CaseLevel(CaseScore(n1, d1, b1, p1))]
           <= Rank[CaseLevel(CaseScore(n2, d2, b2, p2))]
<1> DEFINE s1 == CaseScore(n1, d1, b1, p1)
           s2 == CaseScore(n2, d2, b2, p2)
<1>1. s1 \in 80..400 /\ s2 \in 80..400
  <2>1. s1 \in 80..400  BY SMTT(30) DEF CaseScore, Cap, Points
  <2>2. s2 \in 80..400  BY SMTT(30) DEF CaseScore, Cap, Points
  <2> QED  BY <2>1, <2>2
<1>2. s1 <= s2
  BY CaseScoreMonotone
<1> HIDE DEF s1, s2
<1>3. Rank[CaseLevel(s1)] <= Rank[CaseLevel(s2)]
  <2>1. CASE s1 >= 320
    BY <1>1, <1>2, <2>1, RankValues, SMTT(30) DEF CaseLevel
  <2>2. CASE s1 >= 240 /\ s1 < 320
    BY <1>1, <1>2, <2>2, RankValues, SMTT(30) DEF CaseLevel
  <2>3. CASE s1 >= 140 /\ s1 < 240  BY <1>1, <1>2, <2>3, RankValues DEF CaseLevel
  <2>4. CASE s1 < 140  BY <1>1, <1>2, <2>4, RankValues DEF CaseLevel
  <2> QED  BY <1>1, <2>1, <2>2, <2>3, <2>4
<1> QED  BY <1>3 DEF s1, s2

-----------------------------------------------------------------------------
(* An assessment is what its policy makes of its rows: they stay, and so do *)
(* score and level.                                                         *)

Scored == \A n \in Docs("risk") : docs[n] = Assessed(docs[n])

LEMMA InitScored == Init => Scored
<1> QED
  BY EmptySeq DEF Init, Scored, Docs

\* What is made of rows that are there is the same when others have come.
LEMMA AssessedStays ==
  ASSUME IInv, IInv', [Next]_vars, NEW q, q.rows \subseteq VerifiedRows
  PROVE  Assessed(q)' = Assessed(q)
<1>1. \A i \in DOMAIN evidence : evidence'[i] = evidence[i]
  <2>1. CASE evidence' = evidence
    BY <2>1
  <2>2. ASSUME NEW f, NEW t, evidence' = Append(evidence, [finding |-> f, status |-> t])
        PROVE  \A i \in DOMAIN evidence : evidence'[i] = evidence[i]
    BY <2>2, SeqDomain, Appended DEF IInv, WellFormed
  <2> QED
    BY <2>1, <2>2 DEF Next, vars, Decide, DecideCase, Open, BeginRisk, CommitRisk, BeginReport,
       SaveReport, CompileCaseReport, CommitReport, BeginPackage, CommitPackage, Abort
<1>2. DomainsOf(q.rows)' = DomainsOf(q.rows)
  BY <1>1 DEF DomainsOf, VerifiedRows
<1> QED
  BY <1>2 DEF Assessed, HasBreach

LEMMA StepScored ==
  ASSUME IInv, IInv', Scored, [Next]_vars
  PROVE  Scored'
<1> SUFFICES ASSUME NEW n \in Docs("risk")' PROVE docs'[n] = Assessed(docs[n])'
  BY DEF Scored
<1>1. /\ Len(docs) \in Nat /\ DOMAIN docs = 1..Len(docs)
      /\ DOMAIN docs' = 1..Len(docs') /\ n \in DOMAIN docs' /\ docs'[n].kind = "risk"
  BY SeqDomain DEF IInv, WellFormed, Docs
<1>2. ASSUME NEW d, d = Assessed(d), d.rows \subseteq VerifiedRows, docs'[n] = d
      PROVE  docs'[n] = Assessed(docs[n])'
  BY <1>2, AssessedStays DEF Assessed, HasBreach, DomainsOf
<1>3. ASSUME n \in DOMAIN docs, docs'[n] = docs[n]
      PROVE  docs'[n] = Assessed(docs[n])'
  <2>1. docs[n] = Assessed(docs[n])
    BY <1>1, <1>3 DEF Scored, Docs
  <2>2. docs[n].rows \subseteq VerifiedRows
    BY <1>1, <1>3 DEF IInv, DocsGood, Good
  <2> QED
    BY <2>1, <2>2, <1>2, <1>3
<1>4. CASE docs' = docs
  BY <1>1, <1>3, <1>4
<1>5. ASSUME NEW r \in Requests, CommitRisk(r)
      PROVE  docs'[n] = Assessed(docs[n])'
  <2>1. PICK d : d = Assessed(req[r])
    OBVIOUS
  <2>2. d = Assessed(d) /\ d.rows = req[r].rows
    BY <2>1 DEF Assessed
  <2>3. d.rows \subseteq VerifiedRows
    BY <2>2, <1>5 DEF CommitRisk, IInv, SessionsGood, Good
  <2>4. /\ Len(docs') = Len(docs) + 1 /\ docs'[Len(docs) + 1] = d
        /\ \A k \in 1..Len(docs) : docs'[k] = docs[k]
    BY <2>1, <1>5, SeqDomain, Appended DEF CommitRisk, IInv, WellFormed
  <2>5. CASE n \in DOMAIN docs
    BY <2>4, <2>5, <1>1, <1>3
  <2>6. CASE n = Len(docs) + 1
    BY <2>2, <2>3, <2>4, <2>6, <1>2
  <2> QED
    BY <2>4, <2>5, <2>6, <1>1
<1>6. ASSUME NEW d, d.kind # "risk", docs' = Append(docs, d)
      PROVE  docs'[n] = Assessed(docs[n])'
  <2>1. /\ Len(docs') = Len(docs) + 1 /\ docs'[Len(docs) + 1] = d
        /\ \A k \in 1..Len(docs) : docs'[k] = docs[k]
    BY <1>6, SeqDomain, Appended DEF IInv, WellFormed
  <2>2. n \in DOMAIN docs
    BY <2>1, <1>1, <1>6
  <2> QED
    BY <2>1, <2>2, <1>1, <1>3
<1>7. ASSUME NEW r \in Requests, CommitReport(r) \/ CommitPackage(r)
      PROVE  docs'[n] = Assessed(docs[n])'
  BY <1>6, <1>7 DEF CommitReport, CommitPackage, ReportOf, PackageOf
<1> QED
  BY <1>4, <1>5, <1>7 DEF Next, vars, Decide, DecideCase, Open, BeginRisk, BeginReport,
     SaveReport, CompileCaseReport, BeginPackage, Abort

\* More rows have no fewer domains, and a breach domain if they had one before.
LEMMA MoreRows ==
  ASSUME IInv, NEW A, NEW B, A \subseteq B, B \subseteq VerifiedRows
  PROVE  /\ Cardinality(A) \in Nat /\ Cardinality(B) \in Nat
         /\ Cardinality(A) <= Cardinality(B)
         /\ Cardinality(DomainsOf(A)) \in Nat /\ Cardinality(DomainsOf(B)) \in Nat
         /\ Cardinality(DomainsOf(A)) <= Cardinality(DomainsOf(B))
         /\ HasBreach(A) \in BOOLEAN /\ HasBreach(B) \in BOOLEAN
         /\ HasBreach(A) => HasBreach(B)
<1>1. IsFiniteSet(B)
  <2>1. Len(evidence) \in Nat /\ B \subseteq 1..Len(evidence)
    BY SeqDomain DEF IInv, WellFormed, VerifiedRows
  <2>2. IsFiniteSet(1..Len(evidence))
    BY <2>1, FS_Interval
  <2> QED
    BY <2>1, <2>2, FS_Subset
<1>2. IsFiniteSet(DomainsOf(B))
  <2> DEFINE f == [i \in B |-> Domain[evidence[i].finding]]
  <2>1. f \in Surjection(B, DomainsOf(B))
    BY DEF DomainsOf, Surjection
  <2> QED
    BY <1>1, <2>1, FS_Surjection
<1>3. DomainsOf(A) \subseteq DomainsOf(B)
  BY DEF DomainsOf
<1> QED
  BY <1>1, <1>2, <1>3, FS_Subset, FS_CardinalityType DEF HasBreach

LEMMA ScoreOf ==
  ASSUME NEW d, d = Assessed(d)
  PROVE  LET n == Cardinality(d.rows)
             k == Cardinality(DomainsOf(d.rows))
             b == HasBreach(d.rows)
         IN /\ d.policy = "v1" =>
                 /\ d.score = ExposureScore(n, k, k, b)
                 /\ d.level = ExposureLevel(n, ExposureScore(n, k, k, b), b)
            /\ d.policy # "v1" =>
                 /\ d.score = CaseScore(n, k, b, FALSE)
                 /\ d.level = CaseLevel(CaseScore(n, k, b, FALSE))
<1> DEFINE n == Cardinality(d.rows)
           k == Cardinality(DomainsOf(d.rows))
           b == HasBreach(d.rows)
<1>1. d.score = Assessed(d).score /\ d.level = Assessed(d).level
  OBVIOUS
<1>2. Assessed(d).score = IF d.policy = "v1" THEN ExposureScore(n, k, k, b)
                          ELSE CaseScore(n, k, b, FALSE)
  BY Zenon DEF Assessed
<1>3. Assessed(d).level =
        IF d.policy = "v1" THEN ExposureLevel(n, Assessed(d).score, b)
        ELSE CaseLevel(Assessed(d).score)
  BY Zenon DEF Assessed
<1> HIDE DEF n, k, b
<1>4. /\ d.policy = "v1" => d.score = ExposureScore(n, k, k, b)
                           /\ d.level = ExposureLevel(n, d.score, b)
      /\ d.policy # "v1" => d.score = CaseScore(n, k, b, FALSE)
                           /\ d.level = CaseLevel(d.score)
  BY <1>1, <1>2, <1>3, Zenon
<1> QED
  BY <1>4, Zenon DEF n, k, b

LEMMA ScoredImplies ==
  ASSUME IInv, Scored
  PROVE  RiskOnlyRises
<1> SUFFICES ASSUME NEW m \in Docs("risk"), NEW n \in Docs("risk"),
                    m <= docs[n].began, docs[m].policy = docs[n].policy
             PROVE  /\ docs[m].score <= docs[n].score
                    /\ Rank[docs[m].level] <= Rank[docs[n].level]
  BY DEF RiskOnlyRises
<1>1. docs[m].rows \subseteq docs[n].rows /\ docs[n].rows \subseteq VerifiedRows
  <2>1. LaterDocumentsCover
    BY IInvImplies
  <2>2. docs[n].rows \subseteq VerifiedRows
    BY SeqDomain DEF IInv, WellFormed, DocsGood, Good, Docs
  <2> QED
    BY <2>1, <2>2 DEF LaterDocumentsCover, InScope, Docs
<1> DEFINE n1 == Cardinality(docs[m].rows)
           n2 == Cardinality(docs[n].rows)
           d1 == Cardinality(DomainsOf(docs[m].rows))
           d2 == Cardinality(DomainsOf(docs[n].rows))
           b1 == HasBreach(docs[m].rows)
           b2 == HasBreach(docs[n].rows)
<1>2. /\ n1 \in Nat /\ n2 \in Nat /\ n1 <= n2
      /\ d1 \in Nat /\ d2 \in Nat /\ d1 <= d2
      /\ b1 \in BOOLEAN /\ b2 \in BOOLEAN /\ (b1 => b2)
  BY <1>1, MoreRows
<1>3. docs[m] = Assessed(docs[m]) /\ docs[n] = Assessed(docs[n])
  BY DEF Scored
<1>4. CASE docs[m].policy = "v1"
  <2>1. /\ docs[m].score = ExposureScore(n1, d1, d1, b1)
        /\ docs[n].score = ExposureScore(n2, d2, d2, b2)
        /\ docs[m].level = ExposureLevel(n1, ExposureScore(n1, d1, d1, b1), b1)
        /\ docs[n].level = ExposureLevel(n2, ExposureScore(n2, d2, d2, b2), b2)
    BY <1>3, <1>4, ScoreOf
  <2> HIDE DEF n1, n2, d1, d2, b1, b2
  <2> QED
    BY <2>1, <1>2, ExposureScoreMonotone, ExposureLevelMonotone
<1>5. CASE docs[m].policy # "v1"
  <2>1. /\ docs[m].score = CaseScore(n1, d1, b1, FALSE)
        /\ docs[m].level = CaseLevel(CaseScore(n1, d1, b1, FALSE))
    BY <1>3, <1>5, ScoreOf
  <2>2. /\ docs[n].score = CaseScore(n2, d2, b2, FALSE)
        /\ docs[n].level = CaseLevel(CaseScore(n2, d2, b2, FALSE))
    BY <1>3, <1>5, ScoreOf
  <2> HIDE DEF n1, n2, d1, d2, b1, b2
  <2> QED
    <3> DEFINE s1 == CaseScore(n1, d1, b1, FALSE)
               s2 == CaseScore(n2, d2, b2, FALSE)
    <3>1. s1 <= s2 /\ Rank[CaseLevel(s1)] <= Rank[CaseLevel(s2)]
      BY <1>2, CaseScoreMonotone, CaseLevelMonotone
    <3> QED
      BY <2>1, <2>2, <3>1
<1> QED
  BY <1>4, <1>5

\* Neither policy ever lowers a score or a level, for any findings, breach domains
\* and overlapping sessions: taking a verification back does not either.
THEOREM RiskRises == Spec => []RiskOnlyRises
<1>1. Spec => [](IInv /\ Scored)
  <2>1. Init => IInv /\ Scored
    BY InitIInv, InitScored
  <2>2. (IInv /\ Scored) /\ [Next]_vars => (IInv /\ Scored)'
    BY StepIInv, StepScored
  <2> QED
    BY <2>1, <2>2, PTL DEF Spec
<1> QED
  BY <1>1, ScoredImplies, PTL

================================================================================
