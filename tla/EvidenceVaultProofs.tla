------------------------ MODULE EvidenceVaultProofs ------------------------
(* Proofs about EvidenceVault, for every set of findings, sessions, contents *)
(* and outcomes and every bound.                                             *)
EXTENDS EvidenceVault, TLAPS

USE ConstantsAssumption

(***************************************************************************)
(* Type correctness.                                                       *)
(***************************************************************************)

\* The digests of the model are digests, and the four kinds never coincide.
LEMMA DigestTypes ==
  /\ Genesis \in Digests
  /\ \A f \in Findings : Placeholder(f) \in Digests
  /\ \A i \in Nat : LegacyHash(i) \in Digests
  /\ \A c \in Contents : Sha256(c) \in Digests
BY DEF Genesis, Placeholder, LegacyHash, Sha256, Digests

\* A session in flight holds the record of its operation.
LEMMA RequestTypes ==
  ASSUME TypeOK, NEW r \in Requests
  PROVE  /\ req[r].op = "verify" => req[r] \in VerifyRequest
         /\ req[r].op = "capture" => req[r] \in CaptureRequest
BY DEF TypeOK, IdleRequest, VerifyRequest, CaptureRequest

\* The rows that the actions build have the type of a row.
LEMMA RowTypes ==
  /\ \A q \in VerifyRequest : ReviewedEvidence(q) \in Evidence
  /\ \A f \in Findings, s \in Status, i \in Nat : LegacyEvidence(f, s, i) \in Evidence
<1>1. ASSUME NEW q \in VerifyRequest PROVE ReviewedEvidence(q) \in Evidence
  BY DigestTypes DEF VerifyRequest, ReviewedEvidence, Evidence, Status, Decision, NoFile
<1>2. ASSUME NEW f \in Findings, NEW s \in Status, NEW i \in Nat
      PROVE  LegacyEvidence(f, s, i) \in Evidence
  BY DigestTypes DEF LegacyEvidence, Evidence, NoFile
<1>. QED BY <1>1, <1>2

LEMMA ResealedType ==
  ASSUME disk \in Seq(Contents), NEW e \in Evidence, NEW q \in CaptureRequest,
         q.file \in DOMAIN disk
  PROVE  Resealed(e, q) \in Evidence
<1>1. disk[q.file] \in Contents
  OBVIOUS
<1>2. Sha256(disk[q.file]) \in Digests
  BY <1>1, DigestTypes
<1>3. q.file \in Nat /\ Append(q.seals, q.file) \in Seq(Nat)
  BY DEF CaptureRequest
<1>. QED BY <1>2, <1>3 DEF Resealed, Evidence

LEMMA TypeStep ==
  TypeOK /\ CapturesInRange /\ [Next]_vars => TypeOK'
<1>. SUFFICES ASSUME TypeOK, CapturesInRange, [Next]_vars PROVE TypeOK'
  OBVIOUS
<1>. USE DEF TypeOK
<1>0. Idle \in IdleRequest
  BY DEF Idle, IdleRequest
<1>1. ASSUME NEW f \in Findings, NEW s \in Status, Audit(f, s)
      PROVE  /\ verdict' \in [Findings -> Status \cup {"PENDING_REVIEW"}]
             /\ approved' \subseteq Findings
  BY <1>1 DEF Audit
<1>2. ASSUME NEW r \in Requests, NEW f \in Findings, NEW s \in Outcomes \cap Decision,
             Triage(r, f, s)
      PROVE  TypeOK'
  BY <1>1, <1>2 DEF Triage, Status
<1>3. ASSUME NEW r \in Requests, NEW f \in Findings, BeginVerify(r, f)
      PROVE  TypeOK'
  <2>1. CASE vault = <<>> /\ req' = [req EXCEPT ![r] =
               [op |-> "verify", finding |-> f, seq |-> 1, prev |-> Genesis,
                seen |-> 0]]
    <3>1. [op |-> "verify", finding |-> f, seq |-> 1, prev |-> Genesis, seen |-> 0]
            \in VerifyRequest
      BY DigestTypes DEF VerifyRequest
    <3>. QED BY <1>3, <2>1, <3>1 DEF BeginVerify
  <2>2. ASSUME NEW i \in ChainTop,
               req' = [req EXCEPT ![r] =
                 [op |-> "verify", finding |-> f, seq |-> vault[i].seq + 1,
                  prev |-> vault[i].digest, seen |-> Len(vault)]]
        PROVE  TypeOK'
    <3>1. /\ vault[i].seq + 1 \in Nat \ {0}
          /\ vault[i].digest \in Digests
          /\ Len(vault) \in Nat
      <4>1. vault[i] \in Evidence
        BY DEF ChainTop, Rows
      <4>2. vault[i].seq \in Nat /\ vault[i].digest \in Digests
        BY <4>1 DEF Evidence
      <4>3. Len(vault) \in Nat
        BY DEF TypeOK
      <4>. QED BY <4>2, <4>3
    <3>2. [op |-> "verify", finding |-> f, seq |-> vault[i].seq + 1,
           prev |-> vault[i].digest, seen |-> Len(vault)] \in VerifyRequest
      BY <3>1 DEF VerifyRequest
    <3>. QED BY <1>3, <2>2, <3>2 DEF BeginVerify
  <2>. QED BY <1>3, <2>1, <2>2 DEF BeginVerify
<1>4. ASSUME NEW r \in Requests, CommitVerify(r) PROVE TypeOK'
  <2>1. req[r] \in VerifyRequest /\ req[r].finding \in Findings
    BY <1>4, RequestTypes DEF CommitVerify, VerifyRequest
  <2>2. vault' \in Seq(Evidence)
    BY <1>4, <2>1, RowTypes DEF CommitVerify
  <2>3. "VERIFIED" \in Status
    BY DEF Status, Decision
  <2>. QED BY <1>0, <1>1, <1>4, <2>1, <2>2, <2>3 DEF CommitVerify
<1>5. ASSUME NEW r \in Requests, NEW f \in Findings, NEW s \in Outcomes,
             LegacyVerify(r, f, s)
      PROVE  TypeOK'
  <2>1. vault' \in Seq(Evidence)
    BY <1>5, RowTypes DEF LegacyVerify
  <2>2. custodyLog' \subseteq EvidenceEvent
    BY <1>5, DigestTypes DEF LegacyVerify, EvidenceEvent, NoFile
  <2>. QED BY <1>1, <1>5, <2>1, <2>2 DEF LegacyVerify
<1>6. ASSUME NEW r \in Requests, NEW f \in Findings, NEW c \in Contents,
             BeginCapture(r, f, c)
      PROVE  TypeOK'
  <2>1. disk' \in Seq(Contents)
    BY <1>6 DEF BeginCapture
  <2>2. CASE req' = [req EXCEPT ![r] =
               [op |-> "capture", finding |-> f, file |-> Len(disk) + 1,
                row |-> 0, digest |-> Genesis, seals |-> <<>>]]
    <3>1. [op |-> "capture", finding |-> f, file |-> Len(disk) + 1,
           row |-> 0, digest |-> Genesis, seals |-> <<>>] \in CaptureRequest
      BY DigestTypes DEF CaptureRequest
    <3>. QED BY <1>6, <2>1, <2>2, <3>1 DEF BeginCapture
  <2>3. ASSUME NEW i \in RowsOf(f),
               req' = [req EXCEPT ![r] =
                 [op |-> "capture", finding |-> f, file |-> Len(disk) + 1,
                  row |-> i, digest |-> vault[i].digest, seals |-> vault[i].seals]]
        PROVE  TypeOK'
    <3>1. vault[i] \in Evidence /\ i \in Nat
      BY DEF RowsOf, Rows
    <3>2. [op |-> "capture", finding |-> f, file |-> Len(disk) + 1,
           row |-> i, digest |-> vault[i].digest, seals |-> vault[i].seals]
            \in CaptureRequest
      BY <3>1 DEF CaptureRequest, Evidence
    <3>. QED BY <1>6, <2>1, <2>3, <3>2 DEF BeginCapture
  <2>. QED BY <1>6, <2>2, <2>3 DEF BeginCapture
<1>7. ASSUME NEW r \in Requests, CommitCapture(r) PROVE TypeOK'
  <2>. DEFINE q == req[r]
  <2>1. q \in CaptureRequest /\ q.file \in DOMAIN disk /\ q.row \in Rows
    BY <1>7, RequestTypes DEF CommitCapture, CapturesInRange
  <2>2. Resealed(vault[q.row], q) \in Evidence
    BY <2>1, ResealedType DEF Rows
  <2>3. vault' \in Seq(Evidence)
    BY <1>7, <2>1, <2>2 DEF CommitCapture, Rows
  <2>4. [row |-> q.row, digest |-> Sha256(disk[q.file]), file |-> q.file]
          \in EvidenceEvent
    BY <2>1, DigestTypes DEF EvidenceEvent, Rows, CaptureRequest
  <2>. QED BY <1>0, <1>7, <2>3, <2>4 DEF CommitCapture
<1>8. ASSUME NEW r \in Requests, RejectCapture(r) \/ Abort(r) PROVE TypeOK'
  BY <1>0, <1>8 DEF RejectCapture, Abort
<1>9. CASE UNCHANGED vars
  BY <1>9 DEF vars
<1>. QED BY <1>2, <1>3, <1>4, <1>5, <1>6, <1>7, <1>8, <1>9 DEF Next

(***************************************************************************)
(* What a step can do to a row, to the log and to a session.               *)
(***************************************************************************)

\* Nothing a step finds is removed: rows keep their identity, decision and
\* place, the log, the files and the approvals only grow.
Grows ==
  /\ Rows \subseteq Rows'
  /\ \A i \in Rows :
       /\ vault'[i].finding = vault[i].finding
       /\ vault'[i].origin = vault[i].origin
       /\ vault'[i].status = vault[i].status
       /\ vault'[i].seq = vault[i].seq
       /\ vault'[i].prev = vault[i].prev
       /\ vault'[i].seen = vault[i].seen
  /\ custodyLog \subseteq custodyLog'
  /\ approved \subseteq approved'
  /\ DOMAIN disk \subseteq DOMAIN disk'
  /\ \A k \in DOMAIN disk : disk'[k] = disk[k]

\* A row is changed only by the capture that was to update it.
LEMMA RowChange ==
  ASSUME TypeOK, CapturesInRange, [Next]_vars, NEW i \in Rows
  PROVE  /\ i \in Rows'
         /\ \/ vault'[i] = vault[i]
            \/ \E r \in Requests :
                 /\ CommitCapture(r)
                 /\ req[r].row = i
                 /\ vault'[i] = Resealed(vault[i], req[r])
<1>. USE DEF Rows
<1>0. vault \in Seq(Evidence)
  BY DEF TypeOK
<1>1. ASSUME NEW x, vault' = Append(vault, x)
      PROVE  i \in Rows' /\ vault'[i] = vault[i]
  BY <1>0, <1>1
<1>2. ASSUME NEW r \in Requests, CommitVerify(r)
      PROVE  i \in Rows' /\ vault'[i] = vault[i]
  BY <1>1, <1>2 DEF CommitVerify
<1>3. ASSUME NEW r \in Requests, NEW f \in Findings, NEW s \in Outcomes,
             LegacyVerify(r, f, s)
      PROVE  i \in Rows' /\ vault'[i] = vault[i]
  BY <1>1, <1>3 DEF LegacyVerify
<1>4. ASSUME NEW r \in Requests, CommitCapture(r)
      PROVE  /\ i \in Rows'
             /\ \/ vault'[i] = vault[i]
                \/ req[r].row = i /\ vault'[i] = Resealed(vault[i], req[r])
  BY <1>0, <1>4 DEF CommitCapture
<1>5. CASE UNCHANGED vault
  BY <1>5
<1>. QED BY <1>2, <1>3, <1>4, <1>5
         DEF Next, vars, Triage, BeginVerify, BeginCapture, RejectCapture, Abort

\* A row is new only at the end, and one of the two verifications made it.
LEMMA RowNew ==
  ASSUME TypeOK, [Next]_vars, NEW i \in Rows', i \notin Rows
  PROVE  /\ i = Len(vault) + 1
         /\ Len(vault') = Len(vault) + 1
         /\ \/ \E r \in Requests :
                 CommitVerify(r) /\ vault'[i] = ReviewedEvidence(req[r])
            \/ \E r \in Requests, f \in Findings, s \in Outcomes :
                 LegacyVerify(r, f, s) /\ vault'[i] = LegacyEvidence(f, s, i)
<1>. USE DEF Rows
<1>0. vault \in Seq(Evidence)
  BY DEF TypeOK
<1>1. ASSUME NEW x, vault' = Append(vault, x)
      PROVE  i = Len(vault) + 1 /\ Len(vault') = Len(vault) + 1 /\ vault'[i] = x
  BY <1>0, <1>1
<1>2. ASSUME NEW r \in Requests, CommitVerify(r)
      PROVE  /\ i = Len(vault) + 1 /\ Len(vault') = Len(vault) + 1
             /\ vault'[i] = ReviewedEvidence(req[r])
  BY <1>1, <1>2 DEF CommitVerify
<1>3. ASSUME NEW r \in Requests, NEW f \in Findings, NEW s \in Outcomes,
             LegacyVerify(r, f, s)
      PROVE  /\ i = Len(vault) + 1 /\ Len(vault') = Len(vault) + 1
             /\ vault'[i] = LegacyEvidence(f, s, i)
  BY <1>1, <1>3 DEF LegacyVerify
<1>4. ASSUME NEW r \in Requests, CommitCapture(r)
      PROVE  FALSE
  BY <1>0, <1>4 DEF CommitCapture
<1>5. CASE UNCHANGED vault
  BY <1>5
<1>. QED BY <1>2, <1>3, <1>4, <1>5
         DEF Next, vars, Triage, BeginVerify, BeginCapture, RejectCapture, Abort

\* A session that is in flight after a step was so before, or has just begun.
LEMMA RequestChange ==
  ASSUME TypeOK, [Next]_vars, NEW r \in Requests, req'[r].op # "idle"
  PROVE  \/ req'[r] = req[r]
         \/ \E f \in Findings : BeginVerify(r, f)
         \/ \E f \in Findings, c \in Contents : BeginCapture(r, f, c)
<1>0. \A x \in Requests : req' = [req EXCEPT ![x] = Idle] => req'[r] = req[r]
  BY DEF TypeOK, Idle
<1>1. ASSUME NEW x \in Requests, NEW f \in Findings, BeginVerify(x, f)
      PROVE  req'[r] = req[r] \/ BeginVerify(r, f)
  <2>1. CASE x = r
    BY <1>1, <2>1
  <2>2. CASE x # r
    BY <1>1, <2>2 DEF BeginVerify, TypeOK
  <2>. QED BY <2>1, <2>2
<1>2. ASSUME NEW x \in Requests, NEW f \in Findings, NEW c \in Contents,
             BeginCapture(x, f, c)
      PROVE  req'[r] = req[r] \/ BeginCapture(r, f, c)
  <2>1. CASE x = r
    BY <1>2, <2>1
  <2>2. CASE x # r
    BY <1>2, <2>2 DEF BeginCapture, TypeOK
  <2>. QED BY <2>1, <2>2
<1>3. CASE UNCHANGED req
  BY <1>3
<1>. QED BY <1>0, <1>1, <1>2, <1>3
         DEF Next, vars, Triage, CommitVerify, LegacyVerify, CommitCapture,
             RejectCapture, Abort

\* The log, the files and the approvals are append-only.
LEMMA StoresGrow ==
  ASSUME TypeOK, [Next]_vars
  PROVE  /\ custodyLog \subseteq custodyLog'
         /\ approved \subseteq approved'
         /\ DOMAIN disk \subseteq DOMAIN disk'
         /\ \A k \in DOMAIN disk : disk'[k] = disk[k]
<1>1. custodyLog \subseteq custodyLog'
  BY DEF Next, vars, Triage, BeginVerify, CommitVerify, LegacyVerify,
         BeginCapture, CommitCapture, RejectCapture, Abort
<1>2. approved \subseteq approved'
  BY DEF Next, vars, Triage, BeginVerify, CommitVerify, LegacyVerify,
         BeginCapture, CommitCapture, RejectCapture, Abort, Audit
<1>3. disk' = disk \/ \E c \in Contents : disk' = Append(disk, c)
  BY DEF Next, vars, Triage, BeginVerify, CommitVerify, LegacyVerify,
         BeginCapture, CommitCapture, RejectCapture, Abort
<1>4. disk \in Seq(Contents)
  BY DEF TypeOK
<1>. QED BY <1>1, <1>2, <1>3, <1>4

LEMMA Growth ==
  ASSUME TypeOK, CapturesInRange, [Next]_vars
  PROVE  Grows
<1>1. ASSUME NEW i \in Rows
      PROVE  /\ i \in Rows'
             /\ vault'[i].finding = vault[i].finding
             /\ vault'[i].origin = vault[i].origin
             /\ vault'[i].status = vault[i].status
             /\ vault'[i].seq = vault[i].seq
             /\ vault'[i].prev = vault[i].prev
             /\ vault'[i].seen = vault[i].seen
  <2>1. vault[i] \in Evidence
    BY DEF TypeOK, Rows
  <2>2. ASSUME NEW r \in Requests, vault'[i] = Resealed(vault[i], req[r])
        PROVE  /\ vault'[i].finding = vault[i].finding
               /\ vault'[i].origin = vault[i].origin
               /\ vault'[i].status = vault[i].status
               /\ vault'[i].seq = vault[i].seq
               /\ vault'[i].prev = vault[i].prev
               /\ vault'[i].seen = vault[i].seen
    BY <2>1, <2>2 DEF Resealed, Evidence
  <2>. QED BY <2>2, RowChange
<1>. QED BY <1>1, StoresGrow DEF Grows

\* Hence a digest that a row has carried stays one, a place in the chain stays a
\* place, and a logged seal stays logged.
LEMMA CarriedKept ==
  ASSUME Grows, NEW i \in Rows
  PROVE  Carried(i) \subseteq Carried(i)'
BY DEF Grows, Carried

FollowsAfter(seq, prev, n) ==
  \/ seq = 1 /\ prev = Genesis
  \/ \E j \in 1..n : seq = vault'[j].seq + 1 /\ prev \in Carried(j)'

LEMMA FollowsKept ==
  ASSUME TypeOK, Grows, NEW seq, NEW prev, NEW n \in Nat, n <= Len(vault),
         Follows(seq, prev, n)
  PROVE  FollowsAfter(seq, prev, n)
<1>1. CASE seq = 1 /\ prev = Genesis
  BY <1>1 DEF FollowsAfter
<1>2. ASSUME NEW j \in 1..n, seq = vault[j].seq + 1, prev \in Carried(j)
      PROVE  FollowsAfter(seq, prev, n)
  <2>1. j \in Rows
    BY DEF Rows, TypeOK
  <2>2. vault'[j].seq = vault[j].seq /\ prev \in Carried(j)'
    BY <1>2, <2>1, CarriedKept DEF Grows
  <2>. QED BY <1>2, <2>2 DEF FollowsAfter
<1>. QED BY <1>1, <1>2 DEF Follows

LEMMA SealKept ==
  ASSUME Grows, NEW i, NEW k, SealLogged(i, k)
  PROVE  SealLogged(i, k)'
BY DEF Grows, SealLogged

(***************************************************************************)
(* The inductive invariant, one lemma per conjunct.                        *)
(***************************************************************************)

LEMMA InitIInv == Init => IInv
<1>. SUFFICES ASSUME Init PROVE IInv
  OBVIOUS
<1>1. TypeOK
  BY DEF Init, TypeOK, Idle, IdleRequest, Decision
<1>2. Rows = {} /\ custodyLog = {} /\ \A r \in Requests : req[r].op = "idle"
  BY DEF Init, Rows, Idle
<1>. QED BY <1>1, <1>2
         DEF IInv, CapturesInRange, VerifiesPlaced, ReviewsAfterSeen,
             CapturesAccounted, DigestsAccounted, LogInRange, CustodyLinked,
             GateRespected, SealsLogged

LEMMA LogStep == IInv /\ [Next]_vars => LogInRange'
<1>. SUFFICES ASSUME IInv, [Next]_vars, NEW e \in custodyLog' PROVE e.row \in Rows'
  BY DEF LogInRange
<1>0. Rows \subseteq Rows'
  BY Growth DEF IInv, Grows
<1>1. CASE e \in custodyLog
  BY <1>0, <1>1 DEF IInv, LogInRange
<1>2. ASSUME NEW r \in Requests, NEW f \in Findings, NEW s \in Outcomes,
             LegacyVerify(r, f, s), e \notin custodyLog
      PROVE  e.row \in Rows'
  BY <1>2 DEF LegacyVerify, IInv, TypeOK, Rows
<1>3. ASSUME NEW r \in Requests, CommitCapture(r), e \notin custodyLog
      PROVE  e.row \in Rows'
  BY <1>0, <1>3 DEF CommitCapture, IInv, CapturesInRange
<1>4. CASE UNCHANGED custodyLog
  BY <1>1, <1>4
<1>. QED BY <1>1, <1>2, <1>3, <1>4
         DEF Next, vars, Triage, BeginVerify, CommitVerify, BeginCapture,
             RejectCapture, Abort

LEMMA CapturesInRangeStep == IInv /\ [Next]_vars => CapturesInRange'
<1>. SUFFICES ASSUME IInv, [Next]_vars, NEW r \in Requests, req'[r].op = "capture"
              PROVE  req'[r].file \in DOMAIN disk' /\ req'[r].row \in Rows' \cup {0}
  BY DEF CapturesInRange
<1>0. Rows \subseteq Rows' /\ DOMAIN disk \subseteq DOMAIN disk'
  BY Growth DEF IInv, Grows
<1>1. CASE req'[r] = req[r]
  BY <1>0, <1>1 DEF IInv, CapturesInRange
<1>2. ASSUME NEW f \in Findings, BeginVerify(r, f) PROVE FALSE
  BY <1>2 DEF BeginVerify, IInv, TypeOK
<1>3. ASSUME NEW f \in Findings, NEW c \in Contents, BeginCapture(r, f, c)
      PROVE  req'[r].file \in DOMAIN disk' /\ req'[r].row \in Rows' \cup {0}
  <2>1. disk \in Seq(Contents) /\ req \in [Requests -> IdleRequest \cup VerifyRequest
                                              \cup CaptureRequest]
    BY DEF IInv, TypeOK
  <2>2. Len(disk) + 1 \in DOMAIN disk'
    BY <1>3, <2>1 DEF BeginCapture
  <2>3. req'[r].file = Len(disk) + 1 /\ req'[r].row \in Rows \cup {0}
    BY <1>3, <2>1 DEF BeginCapture, RowsOf
  <2>. QED BY <1>0, <2>2, <2>3
<1>. QED BY <1>1, <1>2, <1>3, RequestChange DEF IInv

LEMMA VerifiesPlacedStep == IInv /\ [Next]_vars => VerifiesPlaced'
<1>. SUFFICES ASSUME IInv, [Next]_vars, NEW r \in Requests, req'[r].op = "verify"
              PROVE  /\ req'[r].seen <= Len(vault')
                     /\ \A k \in Rows' : k <= req'[r].seen => vault'[k].seq < req'[r].seq
                     /\ FollowsAfter(req'[r].seq, req'[r].prev, Len(vault'))
  BY DEF VerifiesPlaced, Follows, FollowsAfter
<1>0. /\ TypeOK /\ Grows
      /\ vault \in Seq(Evidence) /\ vault' \in Seq(Evidence)
  BY Growth, TypeStep DEF IInv, TypeOK
<1>1. Len(vault) <= Len(vault')
  BY <1>0 DEF Grows, Rows
<1>2. \A n \in Nat : n <= Len(vault) =>
        \A k \in Rows' : k <= n => k \in Rows /\ vault'[k].seq = vault[k].seq
  BY <1>0 DEF Grows, Rows
<1>3. ASSUME NEW seq, NEW prev, Follows(seq, prev, Len(vault))
      PROVE  FollowsAfter(seq, prev, Len(vault'))
  <2>1. FollowsAfter(seq, prev, Len(vault))
    BY <1>0, <1>3, FollowsKept
  <2>. QED BY <1>0, <1>1, <2>1 DEF FollowsAfter
<1>4. CASE req'[r] = req[r]
  <2>1. /\ req[r].seen <= Len(vault)
        /\ \A k \in Rows : k <= req[r].seen => vault[k].seq < req[r].seq
        /\ Follows(req[r].seq, req[r].prev, Len(vault))
    BY <1>4 DEF IInv, VerifiesPlaced
  <2>2. req[r].seen \in Nat
    BY <1>0, <1>4, RequestTypes DEF VerifyRequest
  <2>3. \A k \in Rows' : k <= req'[r].seen => vault'[k].seq < req'[r].seq
    BY <1>2, <1>4, <2>1, <2>2
  <2>4. req[r].seen <= Len(vault')
    BY <1>0, <1>1, <2>1, <2>2
  <2>. QED BY <1>3, <1>4, <2>1, <2>3, <2>4
<1>5. ASSUME NEW f \in Findings, BeginVerify(r, f)
      PROVE  /\ req'[r].seen <= Len(vault')
             /\ \A k \in Rows' : k <= req'[r].seen => vault'[k].seq < req'[r].seq
             /\ FollowsAfter(req'[r].seq, req'[r].prev, Len(vault'))
  <2>0. req \in [Requests -> IdleRequest \cup VerifyRequest \cup CaptureRequest]
    BY <1>0 DEF TypeOK
  <2>1. CASE /\ vault = <<>>
             /\ req'[r] = [op |-> "verify", finding |-> f, seq |-> 1,
                           prev |-> Genesis, seen |-> 0]
    BY <1>0, <1>5, <2>1 DEF BeginVerify, FollowsAfter, Rows
  <2>2. ASSUME NEW i \in ChainTop,
               req'[r] = [op |-> "verify", finding |-> f, seq |-> vault[i].seq + 1,
                          prev |-> vault[i].digest, seen |-> Len(vault)]
        PROVE  /\ req'[r].seen <= Len(vault')
               /\ \A k \in Rows' : k <= req'[r].seen => vault'[k].seq < req'[r].seq
               /\ FollowsAfter(req'[r].seq, req'[r].prev, Len(vault'))
    <3>1. i \in Rows /\ i \in 1..Len(vault) /\ Len(vault) \in Nat
      BY <1>0 DEF ChainTop, Rows
    <3>2. \A k \in Rows : vault[k].seq \in Nat
      <4>1. \A k \in Rows : vault[k] \in Evidence
        BY <1>0 DEF Rows
      <4>. QED BY <4>1 DEF Evidence
    <3>3. \A k \in Rows : vault[k].seq < vault[i].seq + 1
      BY <3>1, <3>2 DEF ChainTop
    <3>4. vault[i].digest \in Carried(i)
      BY <3>1 DEF IInv, DigestsAccounted
    <3>5. Follows(vault[i].seq + 1, vault[i].digest, Len(vault))
      BY <3>1, <3>4 DEF Follows
    <3>6. FollowsAfter(req'[r].seq, req'[r].prev, Len(vault'))
      BY <1>3, <2>2, <3>5
    <3>7. \A k \in Rows' : k <= req'[r].seen => vault'[k].seq < req'[r].seq
      <4>1. req'[r].seen = Len(vault) /\ req'[r].seq = vault[i].seq + 1
        BY <2>2
      <4>2. \A k \in Rows' : k <= Len(vault) => k \in Rows /\ vault'[k].seq = vault[k].seq
        BY <1>2, <3>1
      <4>. QED BY <3>3, <4>1, <4>2
    <3>. QED BY <1>1, <2>2, <3>6, <3>7
  <2>. QED BY <1>5, <2>0, <2>1, <2>2 DEF BeginVerify
<1>6. ASSUME NEW f \in Findings, NEW c \in Contents, BeginCapture(r, f, c)
      PROVE  FALSE
  BY <1>0, <1>6 DEF BeginCapture, TypeOK
<1>. QED BY <1>0, <1>4, <1>5, <1>6, RequestChange

LEMMA ReviewsStep == IInv /\ [Next]_vars => ReviewsAfterSeen'
<1>. DEFINE After(i) ==
       /\ vault'[i].seen < i
       /\ vault'[i].origin = "review" =>
            \A k \in 1..vault'[i].seen : vault'[k].seq < vault'[i].seq
<1>. SUFFICES ASSUME IInv, [Next]_vars, NEW i \in Rows' PROVE After(i)
  BY DEF ReviewsAfterSeen
<1>0. TypeOK /\ Grows /\ vault \in Seq(Evidence) /\ Len(vault) \in Nat
  BY Growth DEF IInv, TypeOK
<1>1. \A k \in 1..Len(vault) : vault'[k].seq = vault[k].seq
  BY <1>0 DEF Grows, Rows
<1>2. CASE i \in Rows
  <2>1. /\ vault'[i].seen = vault[i].seen /\ vault'[i].seq = vault[i].seq
        /\ vault'[i].origin = vault[i].origin
    BY <1>0, <1>2 DEF Grows
  <2>2. vault[i] \in Evidence /\ i \in 1..Len(vault)
    BY <1>0, <1>2 DEF Rows
  <2>3. vault[i].seen \in Nat
    BY <2>2 DEF Evidence
  <2>4. vault[i].seen < i
    BY <1>2 DEF IInv, ReviewsAfterSeen
  <2>5. ASSUME vault[i].origin = "review", NEW k \in 1..vault[i].seen
        PROVE  vault'[k].seq < vault[i].seq
    <3>1. k \in 1..Len(vault)
      BY <2>2, <2>3, <2>4
    <3>. QED BY <1>1, <1>2, <2>5, <3>1 DEF IInv, ReviewsAfterSeen
  <2>. QED BY <2>1, <2>4, <2>5
<1>3. ASSUME NEW r \in Requests, CommitVerify(r), vault'[i] = ReviewedEvidence(req[r]),
             i = Len(vault) + 1
      PROVE  After(i)
  <2>1. req[r].op = "verify" /\ req[r] \in VerifyRequest
    BY <1>0, <1>3, RequestTypes DEF CommitVerify
  <2>2. /\ req[r].seen \in Nat /\ req[r].seen <= Len(vault)
        /\ \A x \in Rows : x <= req[r].seen => vault[x].seq < req[r].seq
    BY <2>1 DEF IInv, VerifiesPlaced, VerifyRequest
  <2>3. vault'[i].seen = req[r].seen /\ vault'[i].seq = req[r].seq
    BY <1>3 DEF ReviewedEvidence
  <2>4. ASSUME NEW k \in 1..req[r].seen PROVE vault'[k].seq < req[r].seq
    <3>1. k \in 1..Len(vault) /\ k \in Rows
      BY <1>0, <2>2 DEF Rows
    <3>. QED BY <1>1, <2>2, <3>1
  <2>. QED BY <1>0, <1>3, <2>2, <2>3, <2>4
<1>4. ASSUME NEW f, NEW s, vault'[i] = LegacyEvidence(f, s, i), i = Len(vault) + 1
      PROVE  After(i)
  BY <1>0, <1>4 DEF LegacyEvidence
<1>. QED BY <1>0, <1>2, <1>3, <1>4, RowNew

LEMMA CustodyStep == IInv /\ [Next]_vars => CustodyLinked'
<1>. SUFFICES ASSUME IInv, [Next]_vars, NEW i \in Rows'
              PROVE  FollowsAfter(vault'[i].seq, vault'[i].prev, i - 1)
  BY DEF CustodyLinked, Follows, FollowsAfter
<1>0. TypeOK /\ Grows /\ vault \in Seq(Evidence)
  BY Growth DEF IInv, TypeOK
<1>1. CASE i \in Rows
  <2>1. i - 1 \in Nat /\ i - 1 <= Len(vault)
    BY <1>0, <1>1 DEF Rows
  <2>2. Follows(vault[i].seq, vault[i].prev, i - 1)
    BY <1>1 DEF IInv, CustodyLinked
  <2>. QED BY <1>0, <1>1, <2>1, <2>2, FollowsKept DEF Grows
<1>2. CASE i \notin Rows
  <2>1. i - 1 = Len(vault) /\ Len(vault) \in Nat
    BY <1>0, <1>2, RowNew
  <2>2. ASSUME NEW r \in Requests, CommitVerify(r), vault'[i] = ReviewedEvidence(req[r])
        PROVE  FollowsAfter(vault'[i].seq, vault'[i].prev, i - 1)
    <3>1. Follows(req[r].seq, req[r].prev, Len(vault))
      BY <2>2 DEF IInv, VerifiesPlaced, CommitVerify
    <3>2. FollowsAfter(req[r].seq, req[r].prev, Len(vault))
      BY <1>0, <2>1, <3>1, FollowsKept
    <3>. QED BY <2>1, <2>2, <3>2 DEF ReviewedEvidence
  <2>3. ASSUME NEW f \in Findings, NEW s \in Outcomes, vault'[i] = LegacyEvidence(f, s, i)
        PROVE  FollowsAfter(vault'[i].seq, vault'[i].prev, i - 1)
    BY <2>3 DEF LegacyEvidence, FollowsAfter
  <2>. QED BY <1>0, <1>2, <2>2, <2>3, RowNew
<1>. QED BY <1>1, <1>2

LEMMA GateStep == IInv /\ [Next]_vars => GateRespected'
<1>. SUFFICES ASSUME IInv, [Next]_vars, NEW i \in Rows', vault'[i].status = "VERIFIED"
              PROVE  vault'[i].finding \in approved'
  BY DEF GateRespected
<1>0. TypeOK /\ Grows
  BY Growth DEF IInv
<1>1. CASE i \in Rows
  BY <1>0, <1>1 DEF Grows, IInv, GateRespected
<1>2. ASSUME NEW r \in Requests, CommitVerify(r), vault'[i] = ReviewedEvidence(req[r])
      PROVE  vault'[i].finding \in approved'
  <2>1. vault'[i].finding = req[r].finding
    BY <1>2 DEF ReviewedEvidence
  <2>2. approved' = approved \cup {req[r].finding}
    BY <1>2 DEF CommitVerify, Audit
  <2>. QED BY <2>1, <2>2
<1>3. ASSUME NEW r \in Requests, NEW f \in Findings, NEW s \in Outcomes,
             LegacyVerify(r, f, s), vault'[i] = LegacyEvidence(f, s, i)
      PROVE  vault'[i].finding \in approved'
  <2>1. vault'[i].finding = f /\ s = "VERIFIED"
    BY <1>3 DEF LegacyEvidence
  <2>2. approved' = approved \cup {f}
    BY <1>3, <2>1 DEF LegacyVerify, Audit
  <2>. QED BY <2>1, <2>2
<1>. QED BY <1>0, <1>1, <1>2, <1>3, RowNew

LEMMA SealsStep == IInv /\ [Next]_vars => SealsLogged'
<1>. SUFFICES ASSUME IInv, [Next]_vars, NEW i \in Rows'
              PROVE  /\ vault'[i].file # NoFile => SealLogged(i, vault[i].file)'
                     /\ \A n \in DOMAIN vault'[i].seals : SealLogged(i, vault[i].seals[n])'
  BY DEF SealsLogged
<1>. DEFINE Logged(k) == k \in DOMAIN disk' /\
              [row |-> i, digest |-> Sha256(disk'[k]), file |-> k] \in custodyLog'
<1>. SUFFICES /\ vault'[i].file # NoFile => Logged(vault'[i].file)
              /\ \A n \in DOMAIN vault'[i].seals : Logged(vault'[i].seals[n])
  BY DEF SealLogged
<1>0. TypeOK /\ Grows
  BY Growth DEF IInv
<1>1. \A k : SealLogged(i, k) => Logged(k)
  BY <1>0 DEF Grows, SealLogged
<1>2. CASE i \in Rows /\ vault'[i] = vault[i]
  BY <1>1, <1>2 DEF IInv, SealsLogged
<1>3. ASSUME NEW r \in Requests, CommitCapture(r), req[r].row = i, i \in Rows,
             vault'[i] = Resealed(vault[i], req[r])
      PROVE  /\ vault'[i].file # NoFile => Logged(vault'[i].file)
             /\ \A n \in DOMAIN vault'[i].seals : Logged(vault'[i].seals[n])
  <2>. DEFINE q == req[r]
  <2>1. q.op = "capture" /\ q.row # 0 /\ q \in CaptureRequest /\ q.file \in DOMAIN disk
    BY <1>0, <1>3, RequestTypes DEF CommitCapture, IInv, CapturesInRange
  <2>2. vault[i] \in Evidence
    BY <1>0, <1>3 DEF TypeOK, Rows
  <2>3. vault'[i].file = q.file /\ vault'[i].seals = Append(q.seals, q.file)
    BY <1>3, <2>2 DEF Resealed, Evidence
  <2>4. Logged(q.file)
    BY <1>3, <2>1 DEF CommitCapture
  <2>5. \A n \in DOMAIN q.seals : Logged(q.seals[n])
    BY <1>1, <1>3, <2>1 DEF IInv, CapturesAccounted
  <2>6. q.seals \in Seq(Nat)
    BY <2>1 DEF CaptureRequest
  <2>7. \A n \in DOMAIN Append(q.seals, q.file) :
          \/ n \in DOMAIN q.seals /\ Append(q.seals, q.file)[n] = q.seals[n]
          \/ Append(q.seals, q.file)[n] = q.file
    BY <2>6
  <2>. QED BY <2>3, <2>4, <2>5, <2>7
<1>4. CASE i \notin Rows
  <2>1. vault'[i].file = NoFile /\ vault'[i].seals = <<>>
    <3>1. \A q : ReviewedEvidence(q).file = NoFile /\ ReviewedEvidence(q).seals = <<>>
      BY DEF ReviewedEvidence
    <3>2. \A f, s : /\ LegacyEvidence(f, s, i).file = NoFile
                    /\ LegacyEvidence(f, s, i).seals = <<>>
      BY DEF LegacyEvidence
    <3>. QED BY <1>0, <1>4, <3>1, <3>2, RowNew
  <2>. QED BY <2>1
<1>. QED BY <1>0, <1>2, <1>3, <1>4, RowChange DEF IInv

LEMMA CapturesAccountedStep == IInv /\ [Next]_vars => CapturesAccounted'
<1>. DEFINE Logged(i, k) == k \in DOMAIN disk' /\
              [row |-> i, digest |-> Sha256(disk'[k]), file |-> k] \in custodyLog'
            Accounted(r) ==
              /\ \A n \in DOMAIN req'[r].seals : Logged(req'[r].row, req'[r].seals[n])
              /\ req'[r].digest \in ArtifactDigests => vault'[req'[r].row].file # NoFile
<1>. SUFFICES ASSUME IInv, [Next]_vars, NEW r \in Requests,
                     req'[r].op = "capture", req'[r].row # 0
              PROVE  Accounted(r)
  BY DEF CapturesAccounted, SealLogged, ArtifactDigests
<1>0. TypeOK /\ Grows
  BY Growth DEF IInv
<1>1. \A i, k : SealLogged(i, k) => Logged(i, k)
  BY <1>0 DEF Grows, SealLogged
<1>2. ASSUME NEW i \in Rows, vault[i].file # NoFile
      PROVE  vault'[i].file # NoFile
  <2>1. ASSUME NEW x \in Requests, CommitCapture(x), vault'[i] = Resealed(vault[i], req[x])
        PROVE  vault'[i].file # NoFile
    <3>1. req[x] \in CaptureRequest
      BY <1>0, <2>1, RequestTypes DEF CommitCapture
    <3>2. vault[i] \in Evidence
      BY <1>0 DEF TypeOK, Rows
    <3>. QED BY <2>1, <3>1, <3>2 DEF Resealed, Evidence, CaptureRequest, NoFile
  <2>. QED BY <1>0, <1>2, <2>1, RowChange DEF IInv
<1>3. CASE req'[r] = req[r]
  <2>1. req[r].row \in Rows
    BY <1>3 DEF IInv, CapturesInRange
  <2>. QED BY <1>1, <1>2, <1>3, <2>1 DEF IInv, CapturesAccounted
<1>4. ASSUME NEW f \in Findings, BeginVerify(r, f) PROVE FALSE
  BY <1>0, <1>4 DEF BeginVerify, TypeOK
<1>5. ASSUME NEW f \in Findings, NEW c \in Contents, BeginCapture(r, f, c)
      PROVE  Accounted(r)
  <2>1. PICK i \in RowsOf(f) :
          req'[r] = [op |-> "capture", finding |-> f, file |-> Len(disk) + 1,
                     row |-> i, digest |-> vault[i].digest, seals |-> vault[i].seals]
    BY <1>0, <1>5 DEF BeginCapture, TypeOK
  <2>2. i \in Rows
    BY DEF RowsOf
  <2>. QED BY <1>1, <1>2, <2>1, <2>2 DEF IInv, SealsLogged, DigestsAccounted
<1>. QED BY <1>0, <1>3, <1>4, <1>5, RequestChange

\* The placeholders of rows without an artifact are not artifact digests.
LEMMA DigestKinds ==
  /\ \A f : Placeholder(f) \notin ArtifactDigests
  /\ \A i : LegacyHash(i) \notin ArtifactDigests
<1>1. "finding" # "artifact" /\ "legacy" # "artifact"
  OBVIOUS
<1>. QED BY <1>1 DEF Placeholder, LegacyHash, Sha256, ArtifactDigests

LEMMA DigestsStep == IInv /\ [Next]_vars => DigestsAccounted'
<1>. DEFINE Accounted(i) ==
       /\ vault'[i].digest \in Carried(i)'
       /\ vault'[i].digest \in ArtifactDigests => vault'[i].file # NoFile
       /\ vault'[i].file # NoFile =>
            \E a \in custodyLog' : a.row = i /\ a.digest = vault'[i].digest
<1>. SUFFICES ASSUME IInv, [Next]_vars, NEW i \in Rows' PROVE Accounted(i)
  BY DEF DigestsAccounted, ArtifactDigests
<1>0. TypeOK /\ Grows /\ custodyLog \subseteq custodyLog'
  BY Growth DEF IInv, Grows
<1>1. CASE i \in Rows /\ vault'[i] = vault[i]
  <2>1. Carried(i) \subseteq Carried(i)'
    BY <1>0, <1>1, CarriedKept
  <2>. QED BY <1>0, <1>1, <2>1 DEF IInv, DigestsAccounted
<1>2. ASSUME NEW r \in Requests, CommitCapture(r), req[r].row = i, i \in Rows,
             vault'[i] = Resealed(vault[i], req[r])
      PROVE  Accounted(i)
  <2>. DEFINE q == req[r]
              d == Sha256(disk[q.file])
              e == [row |-> i, digest |-> d, file |-> q.file]
  <2>1. q.row # 0 /\ q.op = "capture" /\ q \in CaptureRequest /\ q.file \in DOMAIN disk
    BY <1>0, <1>2, RequestTypes DEF CommitCapture, IInv, CapturesInRange
  <2>2. vault[i] \in Evidence
    BY <1>0, <1>2 DEF TypeOK, Rows
  <2>3. /\ vault'[i].file = q.file /\ q.file # NoFile
        /\ vault'[i].digest = IF d = q.digest THEN vault[i].digest ELSE d
    BY <1>2, <2>1, <2>2 DEF Resealed, Evidence, CaptureRequest, NoFile
  <2>4. e \in custodyLog' /\ e.row = i /\ e.digest = d
    BY <1>2, <2>1 DEF CommitCapture
  <2>5. CASE d # q.digest
    <3>1. d \in Carried(i)'
      BY <2>4 DEF Carried
    <3>. QED BY <2>3, <2>4, <2>5, <3>1
  <2>6. CASE d = q.digest
    <3>1. d \in ArtifactDigests
      BY <1>0, <2>1 DEF ArtifactDigests, TypeOK
    <3>2. vault[i].file # NoFile
      BY <1>2, <2>1, <2>6, <3>1 DEF IInv, CapturesAccounted
    <3>3. \E a \in custodyLog : a.row = i /\ a.digest = vault[i].digest
      BY <1>2, <3>2 DEF IInv, DigestsAccounted
    <3>4. vault[i].digest \in Carried(i)'
      BY <1>0, <1>2, CarriedKept DEF IInv, DigestsAccounted
    <3>. QED BY <1>0, <2>3, <2>6, <3>3, <3>4
  <2>. QED BY <2>5, <2>6
<1>3. ASSUME NEW r \in Requests, vault'[i] = ReviewedEvidence(req[r])
      PROVE  Accounted(i)
  <2>1. /\ vault'[i].digest = Placeholder(vault'[i].finding)
        /\ vault'[i].origin = "review" /\ vault'[i].file = NoFile
    BY <1>3 DEF ReviewedEvidence
  <2>2. vault'[i].digest \in Carried(i)'
    BY <2>1 DEF Carried
  <2>. QED BY <2>1, <2>2, DigestKinds
<1>4. ASSUME NEW r \in Requests, NEW f \in Findings, NEW s \in Outcomes,
             LegacyVerify(r, f, s), vault'[i] = LegacyEvidence(f, s, i),
             i = Len(vault) + 1
      PROVE  Accounted(i)
  <2>1. vault'[i].digest = LegacyHash(i) /\ vault'[i].file = NoFile
    BY <1>4 DEF LegacyEvidence
  <2>2. [row |-> i, digest |-> LegacyHash(i), file |-> NoFile] \in custodyLog'
    BY <1>4 DEF LegacyVerify
  <2>3. vault'[i].digest \in Carried(i)'
    BY <2>1, <2>2 DEF Carried
  <2>. QED BY <2>1, <2>3, DigestKinds
<1>. QED BY <1>0, <1>1, <1>2, <1>3, <1>4, RowChange, RowNew DEF IInv

(***************************************************************************)
(* The theorems.                                                           *)
(***************************************************************************)

LEMMA Inductive == IInv /\ [Next]_vars => IInv'
<1>. SUFFICES ASSUME IInv, [Next]_vars PROVE IInv'
  OBVIOUS
<1>1. TypeOK'
  BY TypeStep DEF IInv
<1>. QED BY <1>1, LogStep, CapturesInRangeStep, VerifiesPlacedStep, ReviewsStep,
            CustodyStep, GateStep, SealsStep, CapturesAccountedStep, DigestsStep
         DEF IInv

\* In every reachable state the inductive invariant holds: whatever a session
\* has read of the vault stays accounted for until it commits or aborts.
THEOREM Invariance == Spec => []IInv
BY InitIInv, Inductive, PTL DEF Spec

\* Every reachable state has the declared types: sequence numbers start at one
\* and requests refer to existing rows and files.
THEOREM TypeCorrect == Spec => []TypeOK
<1>1. IInv => TypeOK
  BY DEF IInv
<1>. QED BY <1>1, Invariance, PTL

\* The custody chain of verify_finding has no gaps and no dangling pointers, for
\* any number of overlapping, repeated and aborted requests.
THEOREM Linkage == Spec => []CustodyLinked
<1>1. IInv => CustodyLinked
  BY DEF IInv
<1>. QED BY <1>1, Invariance, PTL

\* Only overlapping verify_finding requests give two rows one sequence number.
THEOREM Forks == Spec => []ForksNeedOverlap
<1>1. IInv => ForksNeedOverlap
  <2>. SUFFICES ASSUME IInv, NEW i \in Rows, NEW j \in Rows, i < j,
                       vault[j].origin = "review", vault[i].seq = vault[j].seq,
                       ~(vault[j].seen < i)
                PROVE  FALSE
    BY DEF ForksNeedOverlap
  <2>1. vault \in Seq(Evidence) /\ i \in 1..Len(vault) /\ vault[i] \in Evidence
        /\ vault[j] \in Evidence
    BY DEF IInv, TypeOK, Rows
  <2>2. vault[j].seen \in Nat /\ vault[i].seq \in Nat
    BY <2>1 DEF Evidence
  <2>3. i \in 1..vault[j].seen
    BY <2>1, <2>2
  <2>4. vault[i].seq < vault[j].seq
    BY <2>3 DEF IInv, ReviewsAfterSeen
  <2>. QED BY <2>2, <2>4
<1>. QED BY <1>1, Invariance, PTL

\* VERIFIED evidence exists only for findings an analyst has verified, although
\* captures update rows without looking at the decision.
THEOREM HumanGate == Spec => []GateRespected
<1>1. IInv => GateRespected
  BY DEF IInv
<1>. QED BY <1>1, Invariance, PTL

\* Every artifact a row names is on disk and its sealing is in the custody log
\* with its digest.
THEOREM Seals == Spec => []SealsLogged
<1>1. IInv => SealsLogged
  BY DEF IInv
<1>. QED BY <1>1, Invariance, PTL

\* A row whose artifact does not have its digest was captured at least twice
\* with different contents, and the custody log shows it.
THEOREM Mismatches == Spec => []MismatchIsTraceable
<1>1. IInv => MismatchIsTraceable
  <2>. SUFFICES ASSUME IInv, NEW i \in Rows, vault[i].file # NoFile,
                       ~ArtifactMatches(i)
                PROVE  \E a, b \in custodyLog :
                         /\ a.row = i /\ b.row = i
                         /\ a.digest = vault[i].digest
                         /\ b.file = vault[i].file
                         /\ a.digest # b.digest
    BY DEF MismatchIsTraceable
  <2>1. PICK a \in custodyLog : a.row = i /\ a.digest = vault[i].digest
    BY DEF IInv, DigestsAccounted
  <2>. DEFINE b == [row |-> i, digest |-> Sha256(disk[vault[i].file]),
                    file |-> vault[i].file]
  <2>2. b \in custodyLog
    BY DEF IInv, SealsLogged, SealLogged
  <2>3. b.row = i /\ b.file = vault[i].file /\ b.digest # a.digest
    BY <2>1 DEF ArtifactMatches
  <2>. QED BY <2>1, <2>2, <2>3
<1>. QED BY <1>1, Invariance, PTL
-----------------------------------------------------------------------------
(* The evidence vault implements CustodyLedger, and is append-only. *)

\* A log entry adds its digest to those of its row and of no other.
LEMMA LogAdds ==
  ASSUME NEW x, custodyLog' = custodyLog \cup {x}, NEW i,
         vault'[i].origin = vault[i].origin, vault'[i].finding = vault[i].finding
  PROVE  Carried(i)' = IF x.row = i THEN Carried(i) \cup {x.digest} ELSE Carried(i)
<1>. DEFINE Logged == {e.digest : e \in {y \in custodyLog : y.row = i}}
            LoggedNext == {e.digest : e \in {y \in custodyLog' : y.row = i}}
<1>1. LoggedNext = IF x.row = i THEN Logged \cup {x.digest} ELSE Logged
  <2>1. CASE x.row = i
    BY <2>1
  <2>2. CASE x.row # i
    BY <2>2
  <2>. QED BY <2>1, <2>2
<1>. QED BY <1>1 DEF Carried

\* The digests of an old row after a step are those before it and, for the row a
\* capture updates, the new one; a new row has the digest it is created with.
LEMMA CarriedChange ==
  ASSUME IInv, [Next]_vars, NEW i \in Rows
  PROVE  \/ Carried(i)' = Carried(i)
         \/ \E r \in Requests : CommitCapture(r) /\ req[r].row = i
<1>. USE DEF Rows, IInv, TypeOK
<1>0. vault'[i].origin = vault[i].origin /\ vault'[i].finding = vault[i].finding
  BY Growth DEF Grows
<1>2. CASE UNCHANGED custodyLog
  BY <1>0, <1>2 DEF Carried
<1>3. ASSUME NEW r \in Requests, NEW f \in Findings, NEW s \in Outcomes,
             LegacyVerify(r, f, s)
      PROVE  Carried(i)' = Carried(i)
  <2>. DEFINE e == [row |-> Len(vault) + 1, digest |-> LegacyHash(Len(vault) + 1),
                    file |-> NoFile]
  <2>1. custodyLog' = custodyLog \cup {e} /\ e.row # i
    BY <1>3 DEF LegacyVerify
  <2>. HIDE DEF e
  <2>. QED BY <1>0, <2>1, LogAdds
<1>4. ASSUME NEW r \in Requests, CommitCapture(r), req[r].row # i
      PROVE  Carried(i)' = Carried(i)
  <2>. DEFINE e == [row |-> req[r].row, digest |-> Sha256(disk[req[r].file]),
                    file |-> req[r].file]
  <2>1. custodyLog' = custodyLog \cup {e} /\ e.row # i
    BY <1>4 DEF CommitCapture
  <2>. HIDE DEF e
  <2>. QED BY <1>0, <2>1, LogAdds
<1>. QED BY <1>2, <1>3, <1>4
         DEF Next, vars, Triage, BeginVerify, CommitVerify, BeginCapture,
             RejectCapture, Abort

LEMMA CarriedNew ==
  ASSUME IInv, [Next]_vars, NEW i \in Rows', i \notin Rows
  PROVE  \E d : Carried(i)' = {d}
<1>1. \A e \in custodyLog : e.row # i
  BY DEF IInv, LogInRange
<1>2. ASSUME NEW r \in Requests, CommitVerify(r), vault'[i] = ReviewedEvidence(req[r])
      PROVE  Carried(i)' = {Placeholder(req[r].finding)}
  <2>1. vault'[i].origin = "review" /\ vault'[i].finding = req[r].finding
    BY <1>2 DEF ReviewedEvidence
  <2>2. custodyLog' = custodyLog
    BY <1>2 DEF CommitVerify
  <2>. QED BY <1>1, <2>1, <2>2 DEF Carried
<1>3. ASSUME NEW r \in Requests, NEW f \in Findings, NEW s \in Outcomes,
             LegacyVerify(r, f, s), vault'[i] = LegacyEvidence(f, s, i),
             i = Len(vault) + 1
      PROVE  Carried(i)' = {LegacyHash(i)}
  <2>. DEFINE e == [row |-> i, digest |-> LegacyHash(i), file |-> NoFile]
  <2>1. vault'[i].origin = "legacy"
    BY <1>3 DEF LegacyEvidence
  <2>2. custodyLog' = custodyLog \cup {e} /\ e.row = i /\ e.digest = LegacyHash(i)
    BY <1>3 DEF LegacyVerify
  <2>. QED BY <1>1, <2>1, <2>2 DEF Carried
<1>. QED BY <1>2, <1>3, RowNew DEF IInv

LEMMA RefinesInit == Init => Ledger!Init
<1>. SUFFICES ASSUME Init PROVE Ledger!Init
  OBVIOUS
<1>1. Rows = {}
  BY DEF Init, Rows
<1>. QED BY <1>1 DEF Ledger!Init, Entries, Digested

LEMMA RefinesNext == IInv /\ [Next]_vars => [Ledger!Next]_(Ledger!lvars)
<1>. SUFFICES ASSUME IInv, [Next]_vars
              PROVE  Ledger!Next \/ (Entries' = Entries /\ Digested' = Digested)
  BY DEF Ledger!lvars
<1>0. Grows /\ Rows \subseteq Rows'
  BY Growth DEF IInv, Grows
<1>1. \A i \in Rows : Entries'[i] = Entries[i]
  BY <1>0 DEF Entries, Grows
<1>2. ASSUME NEW n \in Rows', n \notin Rows
      PROVE  Ledger!Admit
  <2>1. Rows' = Rows \cup {n}
    <3>1. vault \in Seq(Evidence) /\ vault' \in Seq(Evidence)
      BY Inductive DEF IInv, TypeOK
    <3>2. n = Len(vault) + 1 /\ Len(vault') = Len(vault) + 1
      BY <1>2, RowNew DEF IInv
    <3>. QED BY <3>1, <3>2 DEF Rows
  <2>2. \A i \in Rows : Carried(i)' = Carried(i)
    <3>1. ASSUME NEW r \in Requests, CommitCapture(r) PROVE FALSE
      BY <1>2, <3>1 DEF CommitCapture, Rows, IInv, TypeOK
    <3>. QED BY <3>1, CarriedChange
  <2>3. PICK d : Carried(n)' = {d}
    BY <1>2, CarriedNew
  <2>4. \/ vault'[n].seq = 1 /\ vault'[n].prev = Genesis
        \/ \E j \in Rows : /\ vault'[n].seq = vault[j].seq + 1
                           /\ vault'[n].prev \in Carried(j)
    <3>1. FollowsAfter(vault'[n].seq, vault'[n].prev, n - 1)
      BY Inductive DEF IInv, CustodyLinked, Follows, FollowsAfter
    <3>2. 1..(n - 1) = Rows
      BY <1>2, RowNew DEF IInv, TypeOK, Rows
    <3>. QED BY <1>0, <2>2, <3>1, <3>2 DEF FollowsAfter, Grows
  <2>5. Entries' = [i \in Rows \cup {n} |-> IF i = n THEN Entries'[n] ELSE Entries[i]]
    BY <1>1, <1>2, <2>1 DEF Entries
  <2>6. Digested' = [i \in Rows \cup {n} |-> IF i = n THEN {d} ELSE Digested[i]]
    BY <1>2, <2>1, <2>2, <2>3 DEF Digested
  <2>7. d \in Digested'[n]
    BY <2>1, <2>3 DEF Digested
  <2>8. /\ DOMAIN Entries = Rows /\ DOMAIN Entries' = Rows' /\ DOMAIN Digested = Rows
        /\ Entries'[n] = [seq |-> vault'[n].seq, prev |-> vault'[n].prev]
        /\ \A j \in Rows : Entries[j].seq = vault[j].seq /\ Digested[j] = Carried(j)
    BY DEF Entries, Digested
  <2>9. Ledger!Place(Entries'[n])
    BY <2>4, <2>8 DEF Ledger!Place
  <2>. QED BY <1>2, <2>5, <2>6, <2>7, <2>8, <2>9 DEF Ledger!Admit
<1>3. CASE Rows' = Rows
  <2>1. Entries' = Entries
    BY <1>1, <1>3 DEF Entries
  <2>2. ASSUME NEW r \in Requests, NEW i \in Rows, CommitCapture(r), req[r].row = i
        PROVE  Ledger!Reseal
    <3>. DEFINE d == Sha256(disk[req[r].file])
                e == [row |-> i, digest |-> d, file |-> req[r].file]
    <3>1. custodyLog' = custodyLog \cup {e} /\ e.row = i /\ e.digest = d
      BY <2>2 DEF CommitCapture
    <3>2. \A k \in Rows : /\ vault'[k].origin = vault[k].origin
                          /\ vault'[k].finding = vault[k].finding
      BY <1>0 DEF Grows
    <3>3. i \in Rows /\ i \in DOMAIN Entries
      BY <2>2 DEF Entries
    <3>. HIDE DEF d, e
    <3>4. Carried(i)' = Carried(i) \cup {d}
      BY <3>1, <3>2, <3>3, LogAdds
    <3>5. \A k \in Rows : k # i => Carried(k)' = Carried(k)
      BY <3>1, <3>2, LogAdds
    <3>6. Digested' = [Digested EXCEPT ![i] = @ \cup {d}]
      <4>1. \A k \in Rows : Digested'[k] = IF k = i THEN Digested[k] \cup {d} ELSE Digested[k]
        BY <1>3, <3>3, <3>4, <3>5 DEF Digested
      <4>2. Digested' = [k \in Rows |-> Digested'[k]] /\ DOMAIN Digested = Rows
        BY <1>3 DEF Digested
      <4>. QED BY <3>3, <4>1, <4>2
    <3>7. d \in Digested'[i]
      BY <1>3, <3>3, <3>4 DEF Digested
    <3>. QED BY <2>1, <3>3, <3>6, <3>7 DEF Ledger!Reseal
  <2>3. CASE \A i \in Rows : Carried(i)' = Carried(i)
    BY <1>3, <2>1, <2>3 DEF Digested
  <2>. QED BY <2>1, <2>2, <2>3, CarriedChange DEF Ledger!Next
<1>. QED BY <1>0, <1>2, <1>3 DEF Ledger!Next

\* The vault implements the abstract ledger: however the sessions interleave,
\* entries are only admitted at a place the ledger offers, or resealed in place.
THEOREM Refinement == Spec => ImplementsLedger
BY Invariance, RefinesInit, RefinesNext, PTL DEF Spec, ImplementsLedger, Ledger!Spec

\* No step takes back a row, a decision, a place in the chain, a log entry or a
\* file, and a digest changes only together with a log entry for it.
THEOREM Immutable == Spec => AppendOnly
<1>. DEFINE Kept ==
       /\ Len(vault) <= Len(vault')
       /\ \A i \in Rows :
            /\ vault'[i].finding = vault[i].finding
            /\ vault'[i].status = vault[i].status
            /\ vault'[i].seq = vault[i].seq
            /\ vault'[i].prev = vault[i].prev
            /\ vault'[i].digest # vault[i].digest =>
                 \E e \in custodyLog' :
                   /\ e.row = i
                   /\ e.digest = vault'[i].digest
                   /\ e.file = vault'[i].file
       /\ custodyLog \subseteq custodyLog'
       /\ approved \subseteq approved'
       /\ Len(disk) <= Len(disk')
       /\ \A k \in DOMAIN disk : disk'[k] = disk[k]
<1>1. IInv /\ [Next]_vars => [Kept]_vars
  <2>. SUFFICES ASSUME IInv, [Next]_vars PROVE Kept
    OBVIOUS
  <2>1. Grows
    BY Growth DEF IInv
  <2>2. Len(vault) <= Len(vault') /\ Len(disk) <= Len(disk')
    <3>1. /\ vault \in Seq(Evidence) /\ vault' \in Seq(Evidence)
          /\ disk \in Seq(Contents) /\ disk' \in Seq(Contents)
      BY Inductive DEF IInv, TypeOK
    <3>. QED BY <2>1, <3>1 DEF Grows, Rows
  <2>3. ASSUME NEW i \in Rows, vault'[i].digest # vault[i].digest
        PROVE  \E e \in custodyLog' :
                 /\ e.row = i /\ e.digest = vault'[i].digest /\ e.file = vault'[i].file
    <3>1. PICK r \in Requests :
            CommitCapture(r) /\ req[r].row = i /\ vault'[i] = Resealed(vault[i], req[r])
      BY <2>3, RowChange DEF IInv
    <3>. DEFINE e == [row |-> i, digest |-> Sha256(disk[req[r].file]),
                      file |-> req[r].file]
    <3>2. vault[i] \in Evidence
      BY DEF IInv, TypeOK, Rows
    <3>3. vault'[i].digest = Sha256(disk[req[r].file]) /\ vault'[i].file = req[r].file
      BY <2>3, <3>1, <3>2 DEF Resealed, Evidence
    <3>4. e \in custodyLog'
      BY <3>1 DEF CommitCapture
    <3>. QED BY <3>3, <3>4
  <2>. QED BY <2>1, <2>2, <2>3 DEF Grows
<1>. QED BY <1>1, Invariance, PTL DEF Spec, AppendOnly
=============================================================================
