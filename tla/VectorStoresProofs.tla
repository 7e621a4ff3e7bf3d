--------------------------- MODULE VectorStoresProofs ---------------------------
(***************************************************************************)
(* The two users of the vector index.                                      *)
(*                                                                         *)
(* The properties of BiometricStores for any images, artifacts, requests   *)
(* and runs: the investigation and the gallery share nothing but the       *)
(* index, which never loses a vector, and each is proved on its own.       *)
(*                                                                         *)
(* The properties of GalleryImport for any directory and any number of     *)
(* runs, killed anywhere.                                                  *)
(***************************************************************************)
EXTENDS BiometricStores, GalleryImport, TLAPS

\* Vectors that a process has been told are indexed.
Reported == qdrant \cup strayed

InMaking(i) == \E r \in Requests : req[r] = [at |-> "adding", item |-> i]

-----------------------------------------------------------------------------
(* The inductive invariant. *)

\* The file of a row in the making is there, its vector too, and the row is not;
\* no other request makes it.
AddsPrepared ==
  \A r \in Requests :
    req[r].at = "adding" =>
      /\ req[r].item \in files \ rows
      /\ req[r].item \in References => req[r].item \in Reported
      /\ \A q \in Requests : req[q] = req[r] => q = r

GoneHasNoRows == case = "gone" => rows = {}

\* Every file of an open investigation is accounted for.
FilesAccounted ==
  case = "open" => \A i \in files : i \in rows \cup kept \/ InMaking(i)

\* Once a purge has begun, files that it should delete are gone or explained.
PurgeLeavesNone ==
  case = "gone" \/ UnderPurge =>
    \A i \in (References \cup Artifacts) \ kept : i \in files => InMaking(i)

RowsHaveFiles == ~spoiled /\ ~UnderPurge => rows \ Photos \subseteq files

\* Captured photos are no references.
ReferencesIndexed == rows \cap References \subseteq Reported

InvestigationInv ==
  /\ AddsPrepared /\ GoneHasNoRows /\ FilesAccounted
  /\ PurgeLeavesNone /\ RowsHaveFiles /\ ReferencesIndexed

\* What a run has embedded is indexed under its number, and nothing else is.
RunIndexed ==
  /\ run # Off => runs # 0 /\ \A x \in run.embedded : <<runs, x>> \in Reported
  /\ \A n \in 1..MaxRuns, x \in Pictures :
       <<n, x>> \in qdrant =>
         n <= runs /\ (run # Off /\ n = runs => x \in run.embedded)

GalleryIndexed ==
  \A x \in Pictures : gallery[x] \in 1..MaxRuns => <<gallery[x], x>> \in Reported

ScriptInv == RunIndexed /\ GalleryIndexed /\ VectorsOwned

IInv == TypeOK /\ InvestigationInv /\ ScriptInv

LEMMA IInvImplies == IInv => FilesFollowRows /\ IndexedInQdrant
BY DEF IInv, InvestigationInv, RowsHaveFiles, PurgeLeavesNone, ReferencesIndexed,
       ScriptInv, GalleryIndexed, FilesFollowRows, IndexedInQdrant, InMaking, Reported

-----------------------------------------------------------------------------
(* The index. *)

LEMMA UpsertIndex ==
  ASSUME IndexOK, NEW p \in Processes, NEW v \in Vectors, Upsert(p, v)
  PROVE  /\ IndexOK'
         /\ Reported \cup {v} \subseteq Reported'
         /\ qdrant' \subseteq qdrant \cup {v}
<1>1. link' \in [Processes -> {"unknown", "up", "down"}]
  BY DEF IndexOK, Upsert, Connects
<1> QED
  BY <1>1 DEF IndexOK, Upsert, Reported

LEMMA ForgetIndex ==
  ASSUME IndexOK, NEW p \in Processes, Forget(p)
  PROVE  IndexOK' /\ qdrant' = qdrant /\ Reported' = Reported
BY DEF IndexOK, Forget, Reported

LEMMA VectorKinds ==
  /\ "server" \in Processes /\ "script" \in Processes
  /\ References \subseteq Vectors
  /\ \A n \in 1..MaxRuns, x \in Pictures :
       <<n, x>> \in Vectors /\ <<n, x>> \notin References
BY StoresAssumption

\* No step takes a vector back, and the steps of the investigation index none of
\* the gallery's.
LEMMA InvestigationIndex ==
  ASSUME TypeOK, RestartServer \/ CapturePhoto \/ \E r \in Requests : Step(r)
  PROVE  /\ IndexOK'
         /\ Reported \subseteq Reported'
         /\ qdrant' \subseteq qdrant \cup References
         /\ UNCHANGED script
<1>1. CASE RestartServer
  BY <1>1, ForgetIndex, VectorKinds DEF RestartServer, TypeOK
<1>2. ASSUME NEW r \in Requests, AddBegin(r)
      PROVE  /\ IndexOK' /\ Reported \subseteq Reported'
             /\ qdrant' \subseteq qdrant \cup References /\ UNCHANGED script
  <2>1. PICK i \in Items :
          /\ IF i \in References THEN Upsert("server", i) ELSE UNCHANGED index
          /\ UNCHANGED script
    BY <1>2 DEF AddBegin, Saves
  <2>2. CASE i \in References
    BY <2>1, <2>2, UpsertIndex, VectorKinds DEF TypeOK
  <2>3. CASE i \notin References
    BY <2>1, <2>3 DEF TypeOK, IndexOK, index, Reported
  <2> QED
    BY <2>2, <2>3, <2>1
<1>3. ASSUME NEW r \in Requests,
             AddCommit(r) \/ PurgeBegin(r) \/ PurgeCommit(r) \/ CutShort(r)
      PROVE  UNCHANGED <<index, script>>
  BY <1>3 DEF AddCommit, PurgeBegin, PurgeCommit, CutShort
<1>4. UNCHANGED <<index, script>> => IndexOK' /\ Reported' = Reported /\ qdrant' = qdrant
  BY DEF TypeOK, IndexOK, index, Reported
<1> QED
  BY <1>1, <1>2, <1>3, <1>4 DEF Step, CapturePhoto

LEMMA ScriptIndex ==
  ASSUME TypeOK, RunIndexed, RunBegin \/ IngestOne \/ RunCommit \/ RunCrash \/ EraseIdentity
  PROVE  IndexOK' /\ Reported \subseteq Reported' /\ UNCHANGED investigation
<1>1. CASE RunBegin \/ EraseIdentity
  BY <1>1 DEF RunBegin, EraseIdentity, TypeOK, IndexOK, index, Reported
<1>2. CASE RunCommit \/ RunCrash
  BY <1>2, ForgetIndex, VectorKinds DEF RunCommit, RunCrash, Exit, TypeOK
<1>3. CASE IngestOne
  <2>1. PICK x \in run.todo : Upsert("script", <<runs, x>>) \/ UNCHANGED index
    BY <1>3 DEF IngestOne
  <2>2. run \in Ingesting /\ runs \in 1..MaxRuns
    BY <1>3, StoresAssumption DEF IngestOne, TypeOK, RunIndexed
  <2>3. CASE Upsert("script", <<runs, x>>)
    <3>1. x \in Pictures
      BY <2>2 DEF Ingesting
    <3>2. <<runs, x>> \in Vectors /\ "script" \in Processes
      BY <2>2, <3>1, VectorKinds
    <3>3. IndexOK' /\ Reported \cup {<<runs, x>>} \subseteq Reported'
      BY <2>3, <3>2, UpsertIndex DEF TypeOK
    <3> QED
      BY <3>3, <1>3 DEF IngestOne
  <2>4. CASE UNCHANGED index
    BY <1>3, <2>4 DEF TypeOK, IndexOK, index, Reported, IngestOne
  <2> QED
    BY <2>1, <2>3, <2>4
<1> QED
  BY <1>1, <1>2, <1>3
-----------------------------------------------------------------------------
(* Types. *)

LEMMA RequestTypes ==
  ASSUME TypeOK, NEW r \in Requests
  PROVE  /\ req[r].at = "adding" =>
              req[r].item \in Items /\ req[r] = [at |-> "adding", item |-> req[r].item]
         /\ Purges(r) => req[r] \in Purging
         /\ req[r] # Idle => req[r] \in Adding \cup Purging
BY DEF TypeOK, Adding, Purging, Purges, Idle

LEMMA InvestigationTypes ==
  ASSUME TypeOK, RestartServer \/ CapturePhoto \/ \E r \in Requests : Step(r)
  PROVE  TypeOK'
<1>1. IndexOK' /\ UNCHANGED script
  BY InvestigationIndex
<1> DEFINE Typed == /\ case' \in {"open", "gone"}
                    /\ rows' \subseteq Items \cup Photos /\ files' \subseteq Items
                    /\ req' \in [Requests -> {Idle} \cup Adding \cup Purging]
                    /\ spoiled' \in BOOLEAN /\ kept' \subseteq Items
<1>2. ASSUME RestartServer PROVE Typed
  BY <1>2 DEF RestartServer, TypeOK, investigation
<1>3. ASSUME NEW r \in Requests, AddBegin(r) PROVE Typed
  <2>1. PICK i \in Items :
          /\ files' = files \cup {i}
          /\ Becomes(r, [at |-> "adding", item |-> i])
          /\ UNCHANGED <<case, rows, spoiled, kept>>
    BY <1>3 DEF AddBegin, Saves
  <2>2. [at |-> "adding", item |-> i] \in Adding
    BY DEF Adding
  <2> QED
    BY <2>1, <2>2 DEF TypeOK, Becomes
<1>4. ASSUME NEW r \in Requests, AddCommit(r) PROVE Typed
  <2>1. req[r].item \in Items
    BY <1>4, RequestTypes DEF AddCommit
  <2>2. \A old \in Replaced(req[r].item) : old \subseteq Items
    BY DEF Replaced, Siblings, Items
  <2>3. rows' \subseteq Items \cup Photos /\ kept' \subseteq Items
    BY <1>4, <2>1, <2>2 DEF AddCommit, TypeOK
  <2> QED
    BY <1>4, <2>3 DEF AddCommit, TypeOK, Becomes
<1>5. ASSUME NEW r \in Requests, PurgeBegin(r) PROVE Typed
  <2>1. Purgeable \subseteq Items
    BY DEF Purgeable, TypeOK, Items
  <2>2. [at |-> "purging"] \in Purging
    BY DEF Purging
  <2>3. files' \subseteq Items /\ kept' \subseteq Items
    BY <1>5, <2>1 DEF PurgeBegin, Deletes, TypeOK
  <2> QED
    BY <1>5, <2>2, <2>3 DEF PurgeBegin, TypeOK, Becomes
<1>6. ASSUME NEW r \in Requests, PurgeCommit(r) PROVE Typed
  BY <1>6 DEF PurgeCommit, TypeOK, Becomes
<1>7. ASSUME NEW r \in Requests, CutShort(r) PROVE Typed
  <2>1. req' \in [Requests -> {Idle} \cup Adding \cup Purging]
    BY <1>7 DEF CutShort, TypeOK, Becomes
  <2>2. kept' \subseteq Items /\ spoiled' \in BOOLEAN
    BY <1>7, RequestTypes DEF CutShort, Unfinished, TypeOK, Purges
  <2> QED
    BY <1>7, <2>1, <2>2 DEF CutShort, TypeOK
<1>8. ASSUME CapturePhoto PROVE Typed
  BY <1>8 DEF CapturePhoto, TypeOK
<1>9. Typed
  BY <1>2, <1>3, <1>4, <1>5, <1>6, <1>7, <1>8 DEF Step
<1> QED
  BY <1>1, <1>9 DEF TypeOK, script

LEMMA ScriptTypes ==
  ASSUME TypeOK, RunIndexed, RunBegin \/ IngestOne \/ RunCommit \/ RunCrash \/ EraseIdentity
  PROVE  TypeOK'
<1>1. IndexOK' /\ UNCHANGED investigation
  BY ScriptIndex
<1> DEFINE Typed == /\ gallery' \in [Pictures -> {NoRow, Pending} \cup (1..MaxRuns)]
                    /\ run' \in {Off} \cup Ingesting
                    /\ runs' \in 0..MaxRuns
                    /\ disowned' \subseteq 1..MaxRuns
<1>2. run # Off => runs \in 1..MaxRuns /\ run \in Ingesting
  BY StoresAssumption DEF TypeOK, RunIndexed
<1>3. ASSUME RunBegin PROVE Typed
  <2>1. PICK todo \in SUBSET Pictures :
          run' = [at |-> "ingesting", todo |-> todo, embedded |-> {}, pending |-> {}]
    BY <1>3 DEF RunBegin
  <2>2. run' \in Ingesting
    BY <2>1 DEF Ingesting
  <2>3. runs' \in 0..MaxRuns
    BY <1>3, StoresAssumption DEF RunBegin, TypeOK
  <2> QED
    BY <1>3, <2>2, <2>3 DEF RunBegin, TypeOK
<1>4. ASSUME IngestOne PROVE Typed
  <2>1. PICK x \in run.todo : run' = Embedded(x) \/ run' = NotEmbedded(x)
    BY <1>4 DEF IngestOne
  <2>2. run \in Ingesting
    BY <1>2, <1>4 DEF IngestOne
  <2>3. Embedded(x) \in Ingesting /\ NotEmbedded(x) \in Ingesting
    BY <2>2 DEF Embedded, NotEmbedded, Ingesting
  <2> QED
    BY <1>4, <2>1, <2>3 DEF IngestOne, TypeOK
<1>5. ASSUME RunCommit PROVE Typed
  <2>1. \A x \in Pictures : RowAfterRun(x) \in {NoRow, Pending} \cup (1..MaxRuns)
    BY <1>2, <1>5 DEF RunCommit, RowAfterRun, TypeOK
  <2>2. gallery' \in [Pictures -> {NoRow, Pending} \cup (1..MaxRuns)]
    BY <1>5, <2>1 DEF RunCommit, TypeOK
  <2>3. disowned' \subseteq 1..MaxRuns
    BY <1>2, <1>5 DEF RunCommit, TypeOK
  <2> QED
    BY <1>5, <2>2, <2>3 DEF RunCommit, Exit, TypeOK
<1>6. ASSUME RunCrash PROVE Typed
  BY <1>2, <1>6 DEF RunCrash, Exit, TypeOK
<1>7. ASSUME EraseIdentity PROVE Typed
  BY <1>7 DEF EraseIdentity, TypeOK
<1>8. Typed
  BY <1>3, <1>4, <1>5, <1>6, <1>7
<1> QED
  BY <1>1, <1>8 DEF TypeOK, investigation

LEMMA TypeStep == TypeOK /\ RunIndexed /\ [Next]_vars => TypeOK'
<1>1. UNCHANGED vars /\ TypeOK => TypeOK'
  BY DEF TypeOK, IndexOK, vars, index, investigation, script
<1> QED
  BY <1>1, InvestigationTypes, ScriptTypes DEF Next

-----------------------------------------------------------------------------
(* The investigation. *)

LEMMA Others ==
  ASSUME TypeOK, NEW r \in Requests, NEW what, Becomes(r, what)
  PROVE  /\ req'[r] = what
         /\ \A q \in Requests \ {r} : req'[q] = req[q]
BY DEF TypeOK, Becomes

\* The parts of the invariant that AddsPrepared rests on.
LEMMA Apart ==
  ASSUME TypeOK, AddsPrepared, NEW r \in Requests, req[r].at = "adding",
         NEW q \in Requests \ {r}, req[q].at = "adding"
  PROVE  req[q].item # req[r].item
BY RequestTypes DEF AddsPrepared

LEMMA AddBeginStep ==
  ASSUME TypeOK, InvestigationInv, NEW r \in Requests, AddBegin(r)
  PROVE  InvestigationInv'
<1>1. Reported \subseteq Reported'
  BY InvestigationIndex DEF Step
<1>2. PICK i \in Items :
        /\ i \notin files \cup rows \cup kept
        /\ files' = files \cup {i}
        /\ Becomes(r, [at |-> "adding", item |-> i])
        /\ IF i \in References THEN Upsert("server", i) ELSE UNCHANGED index
  BY DEF AddBegin, Saves
<1>3. /\ req'[r] = [at |-> "adding", item |-> i]
      /\ \A q \in Requests \ {r} : req'[q] = req[q]
  BY <1>2, Others
<1>4. req[r] = Idle /\ case = "open" /\ UNCHANGED <<case, rows, spoiled, kept>>
  BY DEF AddBegin, Saves
<1>5. i \in References => i \in Reported'
  BY <1>2, UpsertIndex, VectorKinds DEF TypeOK
<1>6. UnderPurge' <=> UnderPurge
  BY <1>3, <1>4 DEF UnderPurge, Purges, Idle
<1>7. \A j : InMaking(j) => InMaking(j)'
  BY <1>3, <1>4 DEF InMaking, Idle
<1>8. InMaking(i)'
  BY <1>3 DEF InMaking
<1>9. AddsPrepared'
  <2> SUFFICES ASSUME NEW s \in Requests, req'[s].at = "adding"
               PROVE  /\ req'[s].item \in files' \ rows'
                      /\ req'[s].item \in References => req'[s].item \in Reported'
                      /\ \A q \in Requests : req'[q] = req'[s] => q = s
    BY DEF AddsPrepared
  <2>1. \A q \in Requests \ {r} : req[q].at = "adding" => req[q].item # i
    BY <1>2 DEF InvestigationInv, AddsPrepared
  <2>2. CASE s = r
    <3>1. \A q \in Requests \ {r} : req'[q] # req'[r]
      BY <2>1, <1>3
    <3> QED
      BY <2>2, <3>1, <1>2, <1>3, <1>4, <1>5
  <2>3. CASE s # r
    <3>1. req'[s] = req[s] /\ req[s].at = "adding"
      BY <2>3, <1>3
    <3>2. /\ req[s].item \in files \ rows
          /\ req[s].item \in References => req[s].item \in Reported
          /\ \A q \in Requests : req[q] = req[s] => q = s
      BY <3>1 DEF InvestigationInv, AddsPrepared
    <3>3. req'[r] # req'[s]
      BY <2>1, <2>3, <3>1, <1>3
    <3> QED
      BY <3>1, <3>2, <3>3, <1>1, <1>2, <1>3, <1>4
  <2> QED
    BY <2>2, <2>3
<1>10. GoneHasNoRows' /\ ReferencesIndexed'
  BY <1>1, <1>4 DEF InvestigationInv, GoneHasNoRows, ReferencesIndexed
<1>11. FilesAccounted'
  BY <1>2, <1>4, <1>7, <1>8 DEF InvestigationInv, FilesAccounted
<1>12. PurgeLeavesNone'
  BY <1>2, <1>4, <1>6, <1>7, <1>8 DEF InvestigationInv, PurgeLeavesNone
<1>13. RowsHaveFiles'
  BY <1>2, <1>4, <1>6 DEF InvestigationInv, RowsHaveFiles
<1> QED
  BY <1>9, <1>10, <1>11, <1>12, <1>13 DEF InvestigationInv

LEMMA AddCommitStep ==
  ASSUME TypeOK, InvestigationInv, NEW r \in Requests, AddCommit(r)
  PROVE  InvestigationInv'
<1> DEFINE i == req[r].item
<1>1. Reported \subseteq Reported'
  BY InvestigationIndex DEF Step
<1>2. /\ req[r].at = "adding"
      /\ i \in files \ rows
      /\ i \in References => i \in Reported
  BY DEF AddCommit, InvestigationInv, AddsPrepared
<1>3. req'[r] = Idle /\ \A q \in Requests \ {r} : req'[q] = req[q]
  BY Others DEF AddCommit
<1>4. UNCHANGED <<case, files, spoiled>>
  BY DEF AddCommit
<1>5. /\ rows' \subseteq rows \cup {i}
      /\ case = "open" => i \in rows'
      /\ case # "open" => rows' = rows
  BY DEF AddCommit
<1>6. /\ kept \subseteq kept' /\ rows \ rows' \subseteq kept'
      /\ case = "gone" \/ UnderPurge => i \in kept'
  BY DEF AddCommit, TypeOK
<1>7. UnderPurge' <=> UnderPurge
  BY <1>2, <1>3 DEF UnderPurge, Purges, Idle
<1>8. \A j : InMaking(j) => j = i \/ InMaking(j)'
  BY <1>3 DEF InMaking
<1> HIDE DEF i
<1>9. AddsPrepared'
  <2> SUFFICES ASSUME NEW s \in Requests, req'[s].at = "adding"
               PROVE  /\ req'[s].item \in files' \ rows'
                      /\ req'[s].item \in References => req'[s].item \in Reported'
                      /\ \A q \in Requests : req'[q] = req'[s] => q = s
    BY DEF AddsPrepared
  <2>1. s # r /\ req'[s] = req[s] /\ req[s].at = "adding"
    BY <1>3 DEF Idle
  <2>2. req[s].item # i
    BY <2>1, <1>2, Apart DEF InvestigationInv, i
  <2>3. /\ req[s].item \in files \ rows
        /\ req[s].item \in References => req[s].item \in Reported
        /\ \A q \in Requests : req[q] = req[s] => q = s
    BY <2>1 DEF InvestigationInv, AddsPrepared
  <2>4. req'[r] # req'[s]
    BY <1>3, <2>1 DEF Idle
  <2> QED
    BY <2>1, <2>2, <2>3, <2>4, <1>1, <1>3, <1>4, <1>5
<1>10. GoneHasNoRows'
  BY <1>4, <1>5 DEF InvestigationInv, GoneHasNoRows
<1>11. ReferencesIndexed'
  BY <1>1, <1>2, <1>5 DEF InvestigationInv, ReferencesIndexed
<1>12. FilesAccounted'
  BY <1>4, <1>5, <1>6, <1>8 DEF InvestigationInv, FilesAccounted
<1>13. PurgeLeavesNone'
  BY <1>4, <1>6, <1>7, <1>8 DEF InvestigationInv, PurgeLeavesNone
<1>14. RowsHaveFiles'
  BY <1>2, <1>4, <1>5, <1>7 DEF InvestigationInv, RowsHaveFiles
<1> QED
  BY <1>9, <1>10, <1>11, <1>12, <1>13, <1>14 DEF InvestigationInv

LEMMA CapturePhotoStep ==
  ASSUME TypeOK, InvestigationInv, CapturePhoto
  PROVE  InvestigationInv'
<1>1. PICK i \in Photos : rows' = rows \cup {i}
  BY DEF CapturePhoto
<1>2. case = "open" /\ UNCHANGED <<case, files, req, spoiled, kept, index>>
  BY DEF CapturePhoto
<1>3. i \notin Items /\ i \notin References
  BY StoresAssumption DEF Items
<1>4. Reported' = Reported
  BY <1>2 DEF Reported, index
<1>5. \A r \in Requests : req[r].at = "adding" => req[r].item # i
  BY <1>3, RequestTypes
<1>6. AddsPrepared'
  BY <1>1, <1>2, <1>4, <1>5 DEF InvestigationInv, AddsPrepared
<1>7. FilesAccounted' /\ PurgeLeavesNone'
  BY <1>1, <1>2 DEF InvestigationInv, FilesAccounted, PurgeLeavesNone, InMaking, UnderPurge, Purges
<1>8. GoneHasNoRows' /\ ReferencesIndexed' /\ RowsHaveFiles'
  BY <1>1, <1>2, <1>3, <1>4 DEF InvestigationInv, GoneHasNoRows, ReferencesIndexed,
     RowsHaveFiles, UnderPurge, Purges
<1> QED
  BY <1>6, <1>7, <1>8 DEF InvestigationInv

\* A request that ends leaves those of the others prepared.
LEMMA StillPrepared ==
  ASSUME TypeOK, AddsPrepared, NEW r \in Requests, NEW what, what.at # "adding",
         Becomes(r, what), Reported \subseteq Reported', rows' \subseteq rows,
         \A j \in files \ rows : j \in files'
  PROVE  AddsPrepared'
<1>1. req'[r] = what /\ \A q \in Requests \ {r} : req'[q] = req[q]
  BY Others
<1> SUFFICES ASSUME NEW s \in Requests, req'[s].at = "adding"
             PROVE  /\ req'[s].item \in files' \ rows'
                    /\ req'[s].item \in References => req'[s].item \in Reported'
                    /\ \A q \in Requests : req'[q] = req'[s] => q = s
  BY DEF AddsPrepared
<1>2. s # r /\ req'[s] = req[s] /\ req[s].at = "adding"
  BY <1>1
<1>3. /\ req[s].item \in files \ rows
      /\ req[s].item \in References => req[s].item \in Reported
      /\ \A q \in Requests : req[q] = req[s] => q = s
  BY <1>2 DEF AddsPrepared
<1>4. req'[r] # req'[s]
  BY <1>1, <1>2
<1> QED
  BY <1>1, <1>2, <1>3, <1>4

LEMMA PurgeBeginStep ==
  ASSUME TypeOK, InvestigationInv, NEW r \in Requests, PurgeBegin(r)
  PROVE  InvestigationInv'
<1>1. PICK refused \in SUBSET Purgeable :
        files' = files \ (Purgeable \ refused) /\ kept' = kept \cup refused
  BY DEF PurgeBegin, Deletes
<1>2. /\ req[r] = Idle /\ case = "open"
      /\ Becomes(r, [at |-> "purging"])
      /\ UNCHANGED <<case, rows, spoiled, index>>
  BY DEF PurgeBegin, Deletes
<1>3. req'[r] = [at |-> "purging"] /\ \A q \in Requests \ {r} : req'[q] = req[q]
  BY <1>2, Others
<1>4. UnderPurge'
  BY <1>3 DEF UnderPurge, Purges
<1>5. \A j : InMaking(j) => InMaking(j)'
  BY <1>2, <1>3 DEF InMaking, Idle
<1>6. Reported' = Reported
  BY <1>2 DEF Reported, index
<1>7. AddsPrepared'
  <2>1. \A j \in files \ rows : j \in files'
    BY <1>1 DEF Purgeable
  <2> QED
    BY <2>1, <1>2, <1>6, StillPrepared DEF InvestigationInv
<1>8. GoneHasNoRows' /\ ReferencesIndexed' /\ RowsHaveFiles'
  BY <1>2, <1>4, <1>6 DEF InvestigationInv, GoneHasNoRows, ReferencesIndexed, RowsHaveFiles
<1>9. FilesAccounted'
  BY <1>1, <1>2, <1>5 DEF InvestigationInv, FilesAccounted
<1>10. PurgeLeavesNone'
  BY <1>1, <1>2, <1>5 DEF InvestigationInv, FilesAccounted, PurgeLeavesNone, Purgeable
<1> QED
  BY <1>7, <1>8, <1>9, <1>10 DEF InvestigationInv

LEMMA PurgeCommitStep ==
  ASSUME TypeOK, InvestigationInv, NEW r \in Requests, PurgeCommit(r)
  PROVE  InvestigationInv'
<1>1. Purges(r) /\ Becomes(r, Idle) /\ UNCHANGED <<files, spoiled, kept, index>>
  BY DEF PurgeCommit
<1>2. req'[r] = Idle /\ \A q \in Requests \ {r} : req'[q] = req[q]
  BY <1>1, Others
<1>3. case' = "gone" /\ rows' = {}
  BY DEF PurgeCommit, TypeOK, InvestigationInv, GoneHasNoRows
<1>4. \A j : InMaking(j) => InMaking(j)'
  BY <1>1, <1>2 DEF InMaking, Purges
<1>5. Reported' = Reported
  BY <1>1 DEF Reported, index
<1>6. AddsPrepared'
  BY <1>1, <1>3, <1>5, StillPrepared DEF InvestigationInv, Idle
<1>7. PurgeLeavesNone'
  BY <1>1, <1>4 DEF InvestigationInv, PurgeLeavesNone, UnderPurge
<1> QED
  BY <1>3, <1>6, <1>7 DEF InvestigationInv, GoneHasNoRows, FilesAccounted,
                          RowsHaveFiles, ReferencesIndexed

LEMMA CutShortStep ==
  ASSUME TypeOK, InvestigationInv, NEW r \in Requests, CutShort(r)
  PROVE  InvestigationInv'
<1>1. Unfinished(r) /\ Becomes(r, Idle) /\ UNCHANGED <<case, rows, files, index>>
  BY DEF CutShort
<1>2. req'[r] = Idle /\ \A q \in Requests \ {r} : req'[q] = req[q]
  BY <1>1, Others
<1>3. kept \subseteq kept' /\ (req[r].at = "adding" => req[r].item \in kept')
  BY <1>1 DEF Unfinished
<1>4. \A j : InMaking(j) => j \in kept' \/ InMaking(j)'
  <2> SUFFICES ASSUME NEW j, NEW q \in Requests, req[q] = [at |-> "adding", item |-> j]
               PROVE  j \in kept' \/ InMaking(j)'
    BY DEF InMaking
  <2>1. CASE q = r
    BY <2>1, <1>3
  <2>2. CASE q # r
    BY <2>2, <1>2 DEF InMaking
  <2> QED
    BY <2>1, <2>2
<1>5. UnderPurge' => UnderPurge
  BY <1>2 DEF UnderPurge, Purges, Idle
<1>6. ~spoiled' /\ ~UnderPurge' => ~spoiled /\ ~UnderPurge
  BY <1>1, <1>2 DEF Unfinished, UnderPurge, Purges, TypeOK
<1>7. Reported' = Reported
  BY <1>1 DEF Reported, index
<1>8. AddsPrepared'
  BY <1>1, <1>7, StillPrepared DEF InvestigationInv, Idle
<1>9. GoneHasNoRows' /\ ReferencesIndexed'
  BY <1>1, <1>7 DEF InvestigationInv, GoneHasNoRows, ReferencesIndexed
<1>10. FilesAccounted'
  BY <1>1, <1>3, <1>4 DEF InvestigationInv, FilesAccounted
<1>11. PurgeLeavesNone'
  BY <1>1, <1>3, <1>4, <1>5 DEF InvestigationInv, PurgeLeavesNone
<1>12. RowsHaveFiles'
  BY <1>1, <1>6 DEF InvestigationInv, RowsHaveFiles
<1> QED
  BY <1>8, <1>9, <1>10, <1>11, <1>12 DEF InvestigationInv

LEMMA InvestigationStep ==
  ASSUME TypeOK, InvestigationInv, RestartServer \/ CapturePhoto \/ \E r \in Requests : Step(r)
  PROVE  InvestigationInv'
<1>1. CASE RestartServer
  <2>1. UNCHANGED investigation /\ Reported' = Reported
    BY <1>1, ForgetIndex, VectorKinds DEF RestartServer, TypeOK
  <2> QED
    BY <2>1 DEF InvestigationInv, investigation, AddsPrepared, GoneHasNoRows, FilesAccounted,
                PurgeLeavesNone, RowsHaveFiles, ReferencesIndexed, UnderPurge, Purges, InMaking
<1> QED
  BY <1>1, CapturePhotoStep, AddBeginStep, AddCommitStep, PurgeBeginStep, PurgeCommitStep,
     CutShortStep DEF Step

\* The steps of the script leave the investigation alone.
LEMMA InvestigationKept ==
  ASSUME InvestigationInv, UNCHANGED investigation, Reported \subseteq Reported'
  PROVE  InvestigationInv'
<1>1. AddsPrepared' /\ ReferencesIndexed'
  BY DEF InvestigationInv, investigation, AddsPrepared, ReferencesIndexed
<1> QED
  BY <1>1 DEF InvestigationInv, investigation, GoneHasNoRows, FilesAccounted,
              PurgeLeavesNone, RowsHaveFiles, UnderPurge, Purges, InMaking

-----------------------------------------------------------------------------
(* The gallery. *)

LEMMA GalleryKept ==
  ASSUME ScriptInv, UNCHANGED script, Reported \subseteq Reported',
         qdrant' \subseteq qdrant \cup References
  PROVE  ScriptInv'
<1>1. \A n \in 1..MaxRuns, x \in Pictures : <<n, x>> \in qdrant' => <<n, x>> \in qdrant
  BY VectorKinds
<1>2. RunIndexed'
  BY <1>1 DEF ScriptInv, RunIndexed, script
<1>3. GalleryIndexed'
  BY DEF ScriptInv, GalleryIndexed, script
<1>4. VectorsOwned'
  BY <1>1 DEF ScriptInv, VectorsOwned, script
<1> QED
  BY <1>2, <1>3, <1>4 DEF ScriptInv

LEMMA RunBeginStep ==
  ASSUME TypeOK, ScriptInv, RunBegin
  PROVE  ScriptInv'
<1>1. /\ run = Off /\ runs' = runs + 1 /\ runs \in Nat
      /\ run' # Off /\ run'.embedded = {}
      /\ UNCHANGED <<gallery, disowned>>
  BY StoresAssumption DEF RunBegin, TypeOK, Off
<1>2. qdrant' = qdrant /\ Reported' = Reported
  BY DEF RunBegin, index, Reported
<1>3. \A n \in 1..MaxRuns, x \in Pictures : <<n, x>> \in qdrant' => n <= runs' /\ n # runs'
  BY <1>1, <1>2 DEF ScriptInv, RunIndexed
<1>4. RunIndexed'
  BY <1>1, <1>3 DEF RunIndexed
<1>5. GalleryIndexed' /\ VectorsOwned'
  BY <1>1, <1>2 DEF ScriptInv, GalleryIndexed, VectorsOwned
<1> QED
  BY <1>4, <1>5 DEF ScriptInv

LEMMA IngestOneStep ==
  ASSUME TypeOK, ScriptInv, IngestOne
  PROVE  ScriptInv'
<1>1. /\ run # Off /\ runs \in 1..MaxRuns /\ run \in Ingesting
      /\ UNCHANGED <<gallery, runs, disowned>>
  BY StoresAssumption DEF IngestOne, TypeOK, ScriptInv, RunIndexed
<1>2. PICK x \in run.todo :
        \/ run' = Embedded(x) /\ Upsert("script", <<runs, x>>)
        \/ run' = NotEmbedded(x) /\ UNCHANGED index
  BY DEF IngestOne
<1>3. x \in Pictures /\ <<runs, x>> \in Vectors /\ "script" \in Processes
  BY <1>1, VectorKinds DEF Ingesting
<1>4. Reported \subseteq Reported'
  BY ScriptIndex DEF ScriptInv
<1>5. /\ run' # Off
      /\ \A y \in run'.embedded : <<runs, y>> \in Reported'
      /\ run.embedded \subseteq run'.embedded
      /\ \A v \in qdrant' \ qdrant : v = <<runs, x>> /\ x \in run'.embedded
  <2>1. CASE run' = Embedded(x) /\ Upsert("script", <<runs, x>>)
    <3>1. /\ Reported \cup {<<runs, x>>} \subseteq Reported'
          /\ qdrant' \subseteq qdrant \cup {<<runs, x>>}
      BY <2>1, <1>3, UpsertIndex DEF TypeOK
    <3>2. run' # Off /\ run'.embedded = run.embedded \cup {x}
      BY <2>1 DEF Embedded, Off
    <3> QED
      BY <3>1, <3>2, <1>1 DEF ScriptInv, RunIndexed
  <2>2. CASE run' = NotEmbedded(x) /\ UNCHANGED index
    <3>1. run' # Off /\ run'.embedded = run.embedded
      BY <2>2 DEF NotEmbedded, Off
    <3> QED
      BY <3>1, <2>2, <1>1, <1>4 DEF ScriptInv, RunIndexed, index
  <2> QED
    BY <2>1, <2>2, <1>2
<1>6. RunIndexed'
  <2>1. \A n \in 1..MaxRuns, y \in Pictures :
          <<n, y>> \in qdrant' => n <= runs /\ (n = runs => y \in run'.embedded)
    BY <1>1, <1>5 DEF ScriptInv, RunIndexed
  <2> QED
    BY <2>1, <1>1, <1>5 DEF RunIndexed
<1>7. GalleryIndexed'
  BY <1>1, <1>4 DEF ScriptInv, GalleryIndexed
<1>8. VectorsOwned'
  BY <1>1, <1>5 DEF ScriptInv, VectorsOwned
<1> QED
  BY <1>6, <1>7, <1>8 DEF ScriptInv

\* Both ends of a run: its rows are committed, or it is disowned.
LEMMA RunEnds ==
  ASSUME TypeOK, ScriptInv, RunCommit \/ RunCrash
  PROVE  ScriptInv'
<1>1. run # Off /\ runs \in 1..MaxRuns /\ run' = Off /\ runs' = runs
  BY StoresAssumption DEF RunCommit, RunCrash, Exit, TypeOK, ScriptInv, RunIndexed
<1>2. qdrant' = qdrant /\ Reported' = Reported
  BY ForgetIndex, VectorKinds DEF RunCommit, RunCrash, Exit, TypeOK
<1>3. RunIndexed'
  BY <1>1, <1>2 DEF ScriptInv, RunIndexed
<1>4. CASE disowned' = disowned \cup {runs} /\ UNCHANGED gallery
  BY <1>1, <1>2, <1>3, <1>4 DEF ScriptInv, GalleryIndexed, VectorsOwned
<1>5. CASE /\ \A x \in run.embedded \cup run.pending : gallery[x] = NoRow
           /\ gallery' = [x \in Pictures |-> RowAfterRun(x)]
           /\ UNCHANGED disowned
  <2>1. \A x \in Pictures :
          /\ x \in run.embedded => gallery'[x] = runs
          /\ gallery'[x] \in {runs, Pending, gallery[x]}
          /\ gallery'[x] = runs /\ x \notin run.embedded => gallery'[x] = gallery[x]
          /\ gallery[x] # NoRow => gallery'[x] = gallery[x]
    BY <1>1, <1>5 DEF RowAfterRun, Pending
  <2>2. GalleryIndexed'
    <3> SUFFICES ASSUME NEW x \in Pictures, gallery'[x] \in 1..MaxRuns
                 PROVE  <<gallery'[x], x>> \in Reported
      BY <1>2 DEF GalleryIndexed
    <3>1. CASE x \in run.embedded
      BY <3>1, <2>1, <1>1 DEF ScriptInv, RunIndexed
    <3>2. CASE x \notin run.embedded
      <4>1. gallery'[x] = gallery[x]
        BY <3>2, <2>1 DEF Pending
      <4> QED
        BY <4>1 DEF ScriptInv, GalleryIndexed
    <3> QED
      BY <3>1, <3>2
  <2>3. VectorsOwned'
    <3> SUFFICES ASSUME NEW n \in 1..MaxRuns, NEW x \in Pictures, <<n, x>> \in qdrant
                 PROVE  gallery'[x] = n \/ n \in disowned
      BY <1>2, <1>5 DEF VectorsOwned
    <3>1. CASE gallery[x] = n
      BY <3>1, <2>1 DEF NoRow
    <3>2. CASE n = runs
      BY <3>2, <2>1, <1>1 DEF ScriptInv, RunIndexed
    <3> QED
      BY <3>1, <3>2 DEF ScriptInv, VectorsOwned
  <2> QED
    BY <2>2, <2>3, <1>3 DEF ScriptInv
<1> QED
  BY <1>4, <1>5 DEF RunCommit, RunCrash

LEMMA EraseStep ==
  ASSUME TypeOK, ScriptInv, EraseIdentity
  PROVE  ScriptInv'
<1>1. /\ gallery' = [x \in Pictures |-> NoRow]
      /\ disowned' = disowned \cup {n \in 1..MaxRuns : \E x \in Pictures : gallery[x] = n}
      /\ UNCHANGED <<run, runs>>
  BY DEF EraseIdentity
<1>2. qdrant' = qdrant /\ Reported' = Reported
  BY DEF EraseIdentity, index, Reported
<1>3. RunIndexed'
  BY <1>1, <1>2 DEF ScriptInv, RunIndexed
<1>4. GalleryIndexed'
  BY <1>1 DEF GalleryIndexed, NoRow
<1>5. VectorsOwned'
  BY <1>1, <1>2 DEF ScriptInv, VectorsOwned
<1> QED
  BY <1>3, <1>4, <1>5 DEF ScriptInv

LEMMA ScriptStep ==
  ASSUME TypeOK, ScriptInv, RunBegin \/ IngestOne \/ RunCommit \/ RunCrash \/ EraseIdentity
  PROVE  ScriptInv'
BY RunBeginStep, IngestOneStep, RunEnds, EraseStep

-----------------------------------------------------------------------------
(* The invariant holds, and the properties with it. *)

LEMMA InitIInv == Init => IInv
<1> SUFFICES ASSUME Init PROVE IInv
  OBVIOUS
<1>1. TypeOK
  <2>1. IndexOK
    BY DEF Init, IndexInit, IndexOK
  <2>2. run \in {Off} \cup Ingesting /\ req \in [Requests -> {Idle} \cup Adding \cup Purging]
    BY DEF Init
  <2>3. gallery \in [Pictures -> {NoRow, Pending} \cup (1..MaxRuns)] /\ runs \in 0..MaxRuns
    BY StoresAssumption DEF Init
  <2> QED
    BY <2>1, <2>2, <2>3 DEF Init, TypeOK
<1>2. \A r \in Requests : req[r].at = "idle"
  BY DEF Init, Idle
<1>3. InvestigationInv
  BY <1>2 DEF Init, InvestigationInv, AddsPrepared, GoneHasNoRows, FilesAccounted,
              PurgeLeavesNone, RowsHaveFiles, ReferencesIndexed
<1>4. ScriptInv
  <2>1. run = Off /\ qdrant = {} /\ \A x \in Pictures : gallery[x] = 0
    BY DEF Init, IndexInit, NoRow
  <2>2. RunIndexed /\ VectorsOwned
    BY <2>1 DEF RunIndexed, VectorsOwned
  <2>3. GalleryIndexed
    BY <2>1, StoresAssumption DEF GalleryIndexed
  <2> QED
    BY <2>2, <2>3 DEF ScriptInv
<1> QED
  BY <1>1, <1>3, <1>4 DEF IInv

LEMMA StepIInv == IInv /\ [Next]_vars => IInv'
<1> SUFFICES ASSUME IInv, [Next]_vars PROVE IInv'
  OBVIOUS
<1>1. TypeOK /\ InvestigationInv /\ ScriptInv /\ RunIndexed
  BY DEF IInv, ScriptInv
<1>2. TypeOK'
  BY <1>1, TypeStep
<1>3. CASE RestartServer \/ CapturePhoto \/ \E r \in Requests : Step(r)
  <2>1. UNCHANGED script /\ Reported \subseteq Reported' /\ qdrant' \subseteq qdrant \cup References
    BY <1>1, <1>3, InvestigationIndex
  <2>2. ScriptInv'
    BY <1>1, <2>1, GalleryKept
  <2>3. InvestigationInv'
    BY <1>1, <1>3, InvestigationStep
  <2> QED
    BY <1>2, <2>2, <2>3 DEF IInv
<1>4. CASE RunBegin \/ IngestOne \/ RunCommit \/ RunCrash \/ EraseIdentity
  <2>1. UNCHANGED investigation /\ Reported \subseteq Reported'
    BY <1>1, <1>4, ScriptIndex
  <2>2. InvestigationInv'
    BY <1>1, <2>1, InvestigationKept
  <2>3. ScriptInv'
    BY <1>1, <1>4, ScriptStep
  <2> QED
    BY <1>2, <2>2, <2>3 DEF IInv
<1>5. CASE UNCHANGED vars
  <2>1. UNCHANGED script /\ UNCHANGED investigation /\ Reported' = Reported /\ qdrant' = qdrant
    BY <1>5 DEF vars, index, Reported
  <2> QED
    BY <1>1, <1>2, <2>1, GalleryKept, InvestigationKept DEF IInv
<1> QED
  BY <1>3, <1>4, <1>5 DEF Next

\* The inductive invariant holds in every reachable state.
THEOREM Invariance == Spec => []IInv
<1> QED
  BY InitIInv, StepIInv, PTL DEF Spec

\* Every variable stays in its range, for any images and any number of requests.
THEOREM TypeCorrect == Spec => []TypeOK
<1>1. IInv => TypeOK
  BY DEF IInv
<1> QED
  BY <1>1, Invariance, PTL

\* Uploads, first and repeated captures, reports and purges that overlap, fail or
\* crash leave no row without its file, and of a purged investigation no file but
\* those that a refusal, an overlap or a repeated capture accounts for.
THEOREM FilesFollow == Spec => []FilesFollowRows
<1> QED
  BY IInvImplies, Invariance, PTL

\* An uploaded reference image or a face of the gallery whose row says indexed has its
\* vector in Qdrant or in the memory of the process that wrote it, whatever fails in
\* between.
THEOREM RowsIndexed == Spec => []IndexedInQdrant
<1> QED
  BY IInvImplies, Invariance, PTL

\* No face vector of a run in good standing is without the row of its image.
THEOREM Owned == Spec => []VectorsOwned
<1>1. IInv => VectorsOwned
  BY DEF IInv, ScriptInv
<1> QED
  BY <1>1, Invariance, PTL

-----------------------------------------------------------------------------
(* The checkpointed import: the inductive invariant. *)

Progress == [at : {"reading", "embedding", "done", "saving", "saved"}, place : Nat,
             seen : SUBSET Contents, processed : Nat]
Saved == [seen : SUBSET Contents, processed : Nat]

ImportTypeOK ==
  /\ IndexOK
  /\ import \in {Over} \cup Progress
  /\ imports \in 0..MaxImports
  /\ Running => imports > 0
  /\ checkpoint \in {None, Torn} \cup Saved
  /\ troubled \subseteq Images
  /\ lost \subseteq Contents
  /\ qdrant \cup strayed \subseteq (1..MaxImports) \X Images

\* A run that has an image in hand is at one of the directory.
InPlace ==
  Running =>
    /\ import.place \in 1..(Len(Order) + 1)
    /\ import.at # "reading" => import.place \in DOMAIN Order

\* What became of a content that was seen.
Accounted(c) ==
  \/ c \in Indexed
  \/ \E v \in strayed : Content[v[2]] = c
  \/ \E f \in troubled : Content[f] = c

\* The content whose vector is about to be written.
InHand(c) == Running /\ import.at = "embedding" /\ c = Content[File]

SeenAccounted == Running => \A c \in import.seen \cap Fit : Accounted(c) \/ InHand(c)

\* What the run knows; between two runs, what the next one will know.
Remembered == IF Running THEN import.seen ELSE IF Legible THEN checkpoint.seen ELSE {}

\* A content in the index is one that the run knows, or will know when it resumes,
\* or one that was lost.
IndexedKnown == Indexed \subseteq lost \cup Remembered

\* The content in hand has just been seen for the first time.
HandedOnce ==
  \A c \in Contents : InHand(c) => c \in import.seen /\ (c \in Indexed => c \in lost)

ImportInv ==
  /\ ImportTypeOK /\ InPlace
  /\ NothingSkipped /\ SeenAccounted
  /\ IndexedKnown /\ HandedOnce /\ TwiceOnlyIfLost

-----------------------------------------------------------------------------
(* The checkpointed import: its steps. *)

LEMMA ImportPhases ==
  ASSUME ImportTypeOK, Running
  PROVE  import \in Progress
BY DEF ImportTypeOK, Running

\* The image in hand is one of the directory, and its content one of theirs.
LEMMA FileInDirectory ==
  ASSUME import.place \in DOMAIN Order
  PROVE  File \in Images /\ Content[File] \in Contents
<1>1. Order[import.place] \in Images
  BY ImportAssumption
<1> QED
  BY <1>1 DEF File, Contents

\* Whatever a step writes of the run, the checkpoint and the history is of its type.
LEMMA ImportTypeStep == ImportTypeOK /\ InPlace /\ [ImportNext]_importVars => ImportTypeOK'
<1> SUFFICES ASSUME ImportTypeOK, InPlace, [ImportNext]_importVars PROVE ImportTypeOK'
  OBVIOUS
<1> USE DEF ImportTypeOK, Running
<1>r. Running => import \in Progress
  BY ImportPhases
<1>0. ASSUME NEW at \in {"reading", "embedding", "done", "saving", "saved"},
             NEW place \in Nat, NEW known \in Saved, Goes(at, place, known)
      PROVE  import' \in Progress /\ import' # Over
  BY <1>0 DEF Goes, Progress, Saved, Over
<1>k. Running => Knows(import) \in Saved
  BY <1>r DEF Knows, Saved, Progress
<1>1. CASE Start
  <2>1. Resumed \in Saved
    BY DEF Resumed, Legible, Blank, Saved
  <2>2. import' \in Progress /\ import' # Over
    BY <1>1, <2>1, <1>0 DEF Start
  <2> QED
    BY <1>1, <2>2, ImportAssumption DEF Start, index, IndexOK
<1>2. CASE Read
  <2>0. Running
    BY <1>2 DEF Read, Over
  <2>1. import.place \in DOMAIN Order
    BY <1>2, <2>0, <1>r, ImportAssumption DEF Read, Progress, InPlace
  <2>2. File \in Images /\ Content[File] \in Contents
    BY <2>1, FileInDirectory
  <2>3. /\ [Knows(import) EXCEPT !.processed = @ + 1] \in Saved
        /\ [[Knows(import) EXCEPT !.processed = @ + 1]
              EXCEPT !.seen = @ \cup {Content[File]}] \in Saved
    <3>1. ASSUME NEW k \in Saved PROVE [k EXCEPT !.processed = @ + 1] \in Saved
      BY DEF Saved
    <3>2. ASSUME NEW k \in Saved, NEW c \in Contents
          PROVE  [k EXCEPT !.seen = @ \cup {c}] \in Saved
      BY DEF Saved
    <3>3. [Knows(import) EXCEPT !.processed = @ + 1] \in Saved
      BY <1>k, <2>0, <3>1
    <3> QED
      BY <2>2, <3>2, <3>3
  <2>4. import' \in Progress /\ import' # Over
    BY <1>2, <2>0, <2>3, <1>0, <1>r DEF Read, Progress
  <2> QED
    BY <1>2, <2>4, <2>2, <2>0 DEF Read, index, IndexOK
<1>3. CASE Embed
  <2>0. Running
    BY <1>3 DEF Embed, Over
  <2>1. File \in Images
    BY <1>3, <2>0, FileInDirectory DEF InPlace, Embed
  <2>2. /\ <<imports, File>> \in (1..MaxImports) \X Images
        /\ <<imports, File>> \in Vectors /\ "script" \in Processes
    BY <2>0, <2>1, ImportAssumption
  <2>3. IndexOK' /\ qdrant' \cup strayed' \subseteq qdrant \cup strayed \cup {<<imports, File>>}
    BY <1>3, <2>2, UpsertIndex DEF Embed, index, IndexOK, Upsert
  <2>4. import' \in Progress /\ import' # Over
    BY <1>3, <2>0, <1>k, <1>0, <1>r DEF Embed, Progress
  <2> QED
    BY <1>3, <2>0, <2>1, <2>2, <2>3, <2>4 DEF Embed
<1>4. CASE SaveBegin \/ SaveEnd
  <2>0. Running
    BY <1>4 DEF SaveBegin, SaveEnd, FolderDone, Over
  <2>1. import' \in Progress /\ import' # Over
    BY <1>4, <2>0, <1>r DEF SaveBegin, SaveEnd, Progress, Over
  <2> QED
    BY <1>4, <2>0, <2>1, <1>k DEF SaveBegin, SaveEnd, Snapshot, index, IndexOK
<1>5. CASE Advance
  <2>0. Running
    BY <1>5 DEF Advance, Over
  <2>1. import' \in Progress /\ import' # Over
    BY <1>5, <2>0, <1>r, <1>k, <1>0 DEF Advance, Progress
  <2> QED
    BY <1>5, <2>0, <2>1 DEF Advance, index, IndexOK
<1>6. CASE Finish \/ Killed
  <2>1. Exits
    BY <1>6 DEF Finish, Killed
  <2>2. Indexed \subseteq Contents
    BY ImportAssumption DEF Indexed, Contents
  <2> QED
    BY <2>1, <2>2, ForgetIndex, ImportAssumption DEF Exits, Forget
<1>7. CASE UNCHANGED importVars
  BY <1>7 DEF importVars, index, IndexOK
<1> QED
  BY <1>1, <1>2, <1>3, <1>4, <1>5, <1>6, <1>7 DEF ImportNext

LEMMA PlaceStep ==
  ImportTypeOK /\ InPlace /\ [ImportNext]_importVars => InPlace'
<1> SUFFICES ASSUME ImportTypeOK, InPlace, [ImportNext]_importVars PROVE InPlace'
  OBVIOUS
<1> USE DEF InPlace, Running
<1>r. Running => import \in Progress
  BY ImportPhases
<1>n. Len(Order) \in Nat /\ DOMAIN Order = 1..Len(Order)
  BY ImportAssumption
<1>1. CASE Start
  BY <1>1, <1>n DEF Start, Goes
<1>2. CASE Read
  BY <1>2, <1>r, <1>n DEF Read, Goes, Over, Progress
<1>3. CASE Embed
  BY <1>3, <1>n DEF Embed, Goes, Over
<1>4. CASE SaveBegin \/ SaveEnd
  BY <1>4, <1>r, <1>n DEF SaveBegin, SaveEnd, FolderDone, Over, Progress
<1>5. CASE Advance
  BY <1>5, <1>r, <1>n DEF Advance, Goes, Over, Progress
<1>6. CASE Finish \/ Killed
  BY <1>6 DEF Finish, Killed, Exits
<1>7. CASE UNCHANGED importVars
  BY <1>7 DEF importVars
<1> QED
  BY <1>1, <1>2, <1>3, <1>4, <1>5, <1>6, <1>7 DEF ImportNext

\* No step takes a vector or a mark back: what became of a content stays known.
LEMMA AccountedStays ==
  ASSUME [ImportNext]_importVars, NEW c, Accounted(c)
  PROVE  Accounted(c)'
<1>1. qdrant \subseteq qdrant' /\ strayed \subseteq strayed' /\ troubled \subseteq troubled'
  <2>1. CASE Start
    BY <2>1 DEF Start, index
  <2>2. CASE Read
    BY <2>2 DEF Read, index
  <2>3. CASE Embed
    BY <2>3 DEF Embed, index, Upsert
  <2>4. CASE SaveBegin \/ SaveEnd \/ Advance
    BY <2>4 DEF SaveBegin, SaveEnd, Advance, index
  <2>5. CASE Finish \/ Killed
    BY <2>5 DEF Finish, Killed, Exits, Forget
  <2>6. CASE UNCHANGED importVars
    BY <2>6 DEF importVars, index
  <2> QED
    BY <2>1, <2>2, <2>3, <2>4, <2>5, <2>6 DEF ImportNext
<1> QED
  BY <1>1 DEF Accounted, Indexed

\* An image is looked at, and is in hand afterwards only if its content is new.
LEMMA ReadEffect ==
  ASSUME ImportTypeOK, Read
  PROVE  /\ Running /\ Running' /\ File' = File
         /\ \/ import'.at = "done" /\ import'.seen = import.seen
            \/ /\ Content[File] \notin import.seen
               /\ import'.seen = import.seen \cup {Content[File]}
               /\ import'.at = IF Content[File] \in Fit THEN "embedding" ELSE "done"
<1>1. import.at = "reading" /\ Running
  BY DEF Read, Running, Over
<1> DEFINE known == [Knows(import) EXCEPT !.processed = @ + 1]
           noted == [known EXCEPT !.seen = @ \cup {Content[File]}]
<1>2. known.seen = import.seen /\ noted.seen = import.seen \cup {Content[File]}
  BY DEF Knows
<1>3. ASSUME NEW at, NEW place, NEW k, Goes(at, place, k)
      PROVE  /\ import'.at = at /\ import'.place = place /\ import'.seen = k.seen
             /\ at # "over" => Running'
  BY <1>3 DEF Goes, Running, Over
<1>4. \/ Goes("done", import.place, known)
      \/ /\ Content[File] \notin import.seen
         /\ Goes(IF Content[File] \in Fit THEN "embedding" ELSE "done", import.place, noted)
  BY DEF Read
<1> HIDE DEF known, noted
<1>5. CASE Goes("done", import.place, known)
  BY <1>5, <1>1, <1>2, <1>3 DEF File
<1>6. CASE /\ Content[File] \notin import.seen
           /\ Goes(IF Content[File] \in Fit THEN "embedding" ELSE "done", import.place, noted)
  BY <1>6, <1>1, <1>2, <1>3 DEF File
<1> QED
  BY <1>4, <1>5, <1>6

\* The image in hand gets its vector, in Qdrant or in a memory, or is set aside.
LEMMA EmbedEffect ==
  ASSUME Embed
  PROVE  /\ InHand(Content[File])
         /\ Running' /\ import'.at = "done" /\ import'.seen = import.seen
         /\ checkpoint' = checkpoint /\ lost' = lost
         /\ \/ qdrant' = qdrant \cup {<<imports, File>>}
            \/ qdrant' = qdrant /\ strayed' = strayed \cup {<<imports, File>>}
            \/ qdrant' = qdrant /\ troubled' = troubled \cup {File}
BY DEF Embed, InHand, Running, Over, Goes, Knows, Upsert, index

\* A checkpoint, and the way to the next image, leave alone what the run has seen.
LEMMA SavingEffect ==
  ASSUME ImportTypeOK, SaveBegin \/ SaveEnd \/ Advance
  PROVE  /\ Running /\ import.at # "embedding"
         /\ Running' /\ import'.at # "embedding" /\ import'.seen = import.seen
         /\ UNCHANGED <<qdrant, strayed, troubled, lost>>
         /\ checkpoint' \in {checkpoint, Torn, Knows(import)}
<1>1. Running /\ import.at # "embedding"
  BY DEF SaveBegin, SaveEnd, Advance, FolderDone, Running, Over
<1>2. import \in Progress
  BY <1>1, ImportPhases
<1>3. Running' /\ import'.at # "embedding" /\ import'.seen = import.seen
  BY <1>2 DEF SaveBegin, SaveEnd, Advance, Running, Over, Goes, Knows, Progress
<1> QED
  BY <1>1, <1>3 DEF SaveBegin, SaveEnd, Advance, index, Snapshot

LEMMA SkipsStep ==
  ImportTypeOK /\ InPlace /\ NothingSkipped /\ SeenAccounted /\ [ImportNext]_importVars
    => NothingSkipped' /\ SeenAccounted'
<1> SUFFICES ASSUME ImportTypeOK, InPlace, NothingSkipped, SeenAccounted,
                    [ImportNext]_importVars
             PROVE  NothingSkipped' /\ SeenAccounted'
  OBVIOUS
<1>n. NothingSkipped <=> (Legible => \A c \in checkpoint.seen \cap Fit : Accounted(c))
  BY DEF NothingSkipped, Accounted
<1>m. NothingSkipped' <=> (Legible' => \A c \in checkpoint'.seen \cap Fit : Accounted(c)')
  BY DEF NothingSkipped, Accounted
<1>s. \A c : Accounted(c) => Accounted(c)'
  BY AccountedStays
<1>k. checkpoint' = checkpoint => NothingSkipped'
  BY <1>n, <1>m, <1>s DEF Legible
<1>1. CASE Start
  <2>1. import'.seen = Resumed.seen /\ checkpoint' = checkpoint
    BY <1>1 DEF Start, Goes
  <2>2. \A c \in Resumed.seen \cap Fit : Accounted(c)
    BY <1>n DEF Resumed, Blank
  <2> QED
    BY <2>1, <2>2, <1>s, <1>k DEF SeenAccounted
<1>2. CASE Read
  <2>1. checkpoint' = checkpoint
    BY <1>2 DEF Read
  <2>2. /\ Running /\ Running' /\ File' = File /\ import.at # "embedding"
        /\ \/ import'.seen = import.seen
           \/ /\ import'.seen = import.seen \cup {Content[File]}
              /\ Content[File] \in Fit => import'.at = "embedding"
    BY <1>2, ReadEffect DEF Read
  <2>3. \A c \in import.seen \cap Fit : Accounted(c)'
    BY <2>2, <1>s DEF SeenAccounted, InHand
  <2>4. ASSUME NEW c \in import'.seen \cap Fit
        PROVE  Accounted(c)' \/ InHand(c)'
    BY <2>2, <2>3 DEF InHand
  <2> QED
    BY <2>1, <2>4, <1>k DEF SeenAccounted
<1>3. CASE Embed
  <2>1. ASSUME NEW c, c = Content[File] PROVE Accounted(c)'
    <3>1. <<imports, File>>[2] = File
      OBVIOUS
    <3> QED
      BY <2>1, <3>1, <1>3, EmbedEffect DEF Accounted, Indexed
  <2>2. \A c \in import'.seen \cap Fit : Accounted(c) \/ c = Content[File]
    BY <1>3, EmbedEffect DEF SeenAccounted, InHand
  <2> QED
    BY <2>1, <2>2, <1>s, <1>k, <1>3, EmbedEffect DEF SeenAccounted
<1>4. CASE SaveBegin \/ SaveEnd \/ Advance
  <2>1. \A c \in import.seen \cap Fit : Accounted(c)'
    BY <1>4, SavingEffect, <1>s DEF SeenAccounted, InHand
  <2>2. SeenAccounted'
    BY <2>1, <1>4, SavingEffect DEF SeenAccounted
  <2>3. NothingSkipped'
    <3>1. CASE checkpoint' = checkpoint
      BY <3>1, <1>k
    <3>2. CASE checkpoint' = Torn
      BY <3>2, <1>m DEF Legible
    <3>3. CASE checkpoint' = Knows(import)
      BY <3>3, <2>1, <1>m DEF Knows
    <3> QED
      BY <3>1, <3>2, <3>3, <1>4, SavingEffect
  <2> QED
    BY <2>2, <2>3
<1>5. CASE Finish \/ Killed
  BY <1>5, <1>k DEF Finish, Killed, Exits, SeenAccounted, Running
<1>6. CASE UNCHANGED importVars
  <2>1. UNCHANGED <<checkpoint, import>> /\ (\A c : InHand(c) => InHand(c)')
    BY <1>6 DEF importVars, InHand, Running, File
  <2> QED
    BY <2>1, <1>k, <1>s DEF SeenAccounted, Running
<1> QED
  BY <1>1, <1>2, <1>3, <1>4, <1>5, <1>6 DEF ImportNext

LEMMA OnceStep ==
  ImportTypeOK /\ InPlace /\ IndexedKnown /\ HandedOnce /\ TwiceOnlyIfLost
    /\ [ImportNext]_importVars
    => IndexedKnown' /\ HandedOnce' /\ TwiceOnlyIfLost'
<1> SUFFICES ASSUME ImportTypeOK, InPlace, IndexedKnown, HandedOnce, TwiceOnlyIfLost,
                    [ImportNext]_importVars
             PROVE  IndexedKnown' /\ HandedOnce' /\ TwiceOnlyIfLost'
  OBVIOUS
\* Where no vector is written, nothing comes twice into the index.
<1>q. qdrant' = qdrant /\ lost \subseteq lost' => TwiceOnlyIfLost' /\ Indexed' = Indexed
  BY DEF TwiceOnlyIfLost, Indexed
<1>1. CASE Start
  <2>1. UNCHANGED <<qdrant, lost, checkpoint>> /\ ~Running
    BY <1>1 DEF Start, index, Running
  <2>2. import'.seen = Resumed.seen /\ Running' /\ import'.at = "reading"
    BY <1>1 DEF Start, Goes, Running, Over
  <2>3. Remembered' = Remembered
    BY <2>1, <2>2 DEF Remembered, Resumed, Blank
  <2> QED
    BY <2>1, <2>2, <2>3, <1>q DEF IndexedKnown, HandedOnce, InHand
<1>2. CASE Read
  <2>1. UNCHANGED <<qdrant, lost>>
    BY <1>2 DEF Read, index
  <2>2. import.seen \subseteq import'.seen /\ Running /\ Running' /\ File' = File
    BY <1>2, ReadEffect
  <2>3. IndexedKnown'
    BY <2>1, <2>2, <1>q DEF IndexedKnown, Remembered
  <2>4. ASSUME NEW c \in Contents, InHand(c)'
        PROVE  c \in import'.seen /\ (c \in Indexed' => c \in lost')
    <3>1. c = Content[File] /\ import'.at = "embedding"
      BY <2>2, <2>4 DEF InHand
    <3>2. c \notin import.seen /\ c \in import'.seen
      BY <3>1, <1>2, ReadEffect
    <3> QED
      BY <3>2, <2>1, <2>2, <1>q DEF IndexedKnown, Remembered
  <2> QED
    BY <2>1, <2>3, <2>4, <1>q DEF HandedOnce
<1>3. CASE Embed
  <2> DEFINE v == <<imports, File>>
             new == Content[File]
  <2>1. v[2] = File /\ Running
    BY <1>3, EmbedEffect DEF InHand
  <2>2. File \in Images /\ new \in Contents
    BY <2>1, <1>3, FileInDirectory DEF InPlace, Embed
  <2>3. new \in import.seen /\ (new \in Indexed => new \in lost)
    BY <2>2, <1>3, EmbedEffect DEF HandedOnce
  <2>4. /\ Running' /\ import'.at = "done" /\ import'.seen = import.seen /\ lost' = lost
        /\ qdrant' = qdrant \/ qdrant' = qdrant \cup {v}
    BY <1>3, EmbedEffect
  <2>5. Indexed' \subseteq Indexed \cup {new}
    BY <2>1, <2>4 DEF Indexed
  <2>6. IndexedKnown'
    BY <2>1, <2>3, <2>4, <2>5 DEF IndexedKnown, Remembered
  <2>7. HandedOnce'
    BY <2>4 DEF HandedOnce, InHand
  <2>8. ASSUME NEW x \in qdrant', NEW y \in qdrant', x # y, Content[x[2]] = Content[y[2]]
        PROVE  Content[x[2]] \in lost'
    <3>1. CASE x \in qdrant /\ y \in qdrant
      BY <3>1, <2>8, <2>4 DEF TwiceOnlyIfLost
    <3>2. CASE x \in qdrant /\ y = v
      BY <3>2, <2>8, <2>1, <2>3, <2>4 DEF Indexed
    <3>3. CASE x = v /\ y \in qdrant
      BY <3>3, <2>8, <2>1, <2>3, <2>4 DEF Indexed
    <3> QED
      BY <3>1, <3>2, <3>3, <2>4, <2>8
  <2> QED
    BY <2>6, <2>7, <2>8 DEF TwiceOnlyIfLost
<1>4. CASE SaveBegin \/ SaveEnd \/ Advance
  <2>1. Remembered' = Remembered /\ UNCHANGED <<qdrant, lost>>
    BY <1>4, SavingEffect DEF Remembered
  <2> QED
    BY <2>1, <1>4, SavingEffect, <1>q DEF IndexedKnown, HandedOnce, InHand
<1>5. CASE Finish \/ Killed
  <2>1. Exits
    BY <1>5 DEF Finish, Killed
  <2>2. /\ ~Running' /\ UNCHANGED <<qdrant, checkpoint>>
        /\ lost' = lost \cup (Indexed \ (IF Legible THEN checkpoint.seen ELSE {}))
    BY <2>1 DEF Exits, Forget, Running
  <2>3. lost \subseteq lost' /\ Indexed' = Indexed
    BY <2>2, <1>q
  <2>4. IndexedKnown'
    BY <2>2, <2>3 DEF IndexedKnown, Remembered, Legible
  <2> QED
    BY <2>2, <2>3, <2>4, <1>q DEF HandedOnce, InHand
<1>6. CASE UNCHANGED importVars
  <2>1. UNCHANGED <<qdrant, lost, Remembered>> /\ (\A c : InHand(c)' => InHand(c))
        /\ import' = import
    BY <1>6 DEF importVars, index, InHand, Running, File, Remembered, Legible
  <2> QED
    BY <2>1, <1>q DEF IndexedKnown, HandedOnce
<1> QED
  BY <1>1, <1>2, <1>3, <1>4, <1>5, <1>6 DEF ImportNext

LEMMA ImportInvInit == ImportInit => ImportInv
<1> SUFFICES ASSUME ImportInit PROVE ImportInv
  OBVIOUS
<1>1. ImportTypeOK
  BY ImportAssumption DEF ImportInit, IndexInit, ImportTypeOK, IndexOK, Running
<1>2. /\ ~Running /\ ~Legible /\ Indexed = {}
      /\ TwiceOnlyIfLost
  BY DEF ImportInit, IndexInit, Running, Legible, Indexed, TwiceOnlyIfLost
<1> QED
  BY <1>1, <1>2 DEF ImportInv, InPlace, NothingSkipped, SeenAccounted, IndexedKnown,
                    HandedOnce, InHand

LEMMA ImportInvStep == ImportInv /\ [ImportNext]_importVars => ImportInv'
BY ImportTypeStep, PlaceStep, SkipsStep, OnceStep DEF ImportInv

\* The inductive invariant of the import holds, wherever its runs are killed.
THEOREM ImportInvariance == ImportSpec => []ImportInv
<1> QED
  BY ImportInvInit, ImportInvStep, PTL DEF ImportSpec

\* The import stays in its directory, and what it remembers of its type.
THEOREM ImportTypeCorrect == ImportSpec => [](ImportTypeOK /\ InPlace)
<1>1. ImportInv => ImportTypeOK /\ InPlace
  BY DEF ImportInv
<1> QED
  BY <1>1, ImportInvariance, PTL

\* For any directory, whatever its folders, and any number of runs that are killed
\* anywhere: no content is passed over because a checkpoint has it as seen, unless
\* it is in the index, in the memory of a process, or could not be embedded.
THEOREM NoneSkipped == ImportSpec => []NothingSkipped
<1>1. ImportInv => NothingSkipped
  BY DEF ImportInv
<1> QED
  BY <1>1, ImportInvariance, PTL

\* A content is embedded twice only if the run that embedded it first ended before
\* a checkpoint could say so.
THEOREM EmbeddedOnce == ImportSpec => []TwiceOnlyIfLost
<1>1. ImportInv => TwiceOnlyIfLost
  BY DEF ImportInv
<1> QED
  BY <1>1, ImportInvariance, PTL

================================================================================
