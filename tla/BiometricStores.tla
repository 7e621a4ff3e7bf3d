--------------------------- MODULE BiometricStores ----------------------------
(***************************************************************************)
(* The rows, the files and the vectors of one investigation, with the      *)
(* purge that removes them, and the gallery of faces that a script fills   *)
(* from a directory of images.  Both put their vectors in the index of     *)
(* VectorIndex: the server those of uploaded reference images, the script  *)
(* those of the gallery.  A photo captured by the camera has a row only.   *)
(*                                                                         *)
(* Files and vectors are written before the transaction of their rows      *)
(* commits, and files are deleted before it commits.                       *)
(***************************************************************************)
EXTENDS Integers, FiniteSets, VectorIndex

CONSTANTS
  References,  \* uploaded reference images of the investigation
  Photos,      \* reference images captured by the camera
  Artifacts,   \* captured artifacts of its evidence
  Finding,     \* Finding[a]: the finding that an artifact was captured of
  Documents,   \* documents of its reports
  Requests,    \* requests in flight together
  Pictures,    \* contents of the images in the directory
  MaxRuns      \* bound: runs of the script

ASSUME StoresAssumption ==
  /\ Processes = {"server", "script"}
  /\ MaxRuns \in Nat
  /\ Vectors = References \cup ((1..MaxRuns) \X Pictures)
  /\ References \cap ((1..MaxRuns) \X Pictures) = {}
  /\ Photos \cap (References \cup Artifacts \cup Documents) = {}

VARIABLES
  case,     \* the row of the investigation
  rows,     \* reference images, artifacts and documents that a row names
  files,    \* their files on the disk
  req,      \* what each request is doing
  gallery,  \* rows of the gallery: no row, PENDING, or the run that indexed it
  run,      \* what the script is doing
  runs,     \* number of the last run of the script
  spoiled,  \* history: whether a purge was rolled back after deleting files
  kept,     \* history: files that outlive the purge for a reason
  disowned  \* history: runs that failed, or whose rows were erased

investigation == <<case, rows, files, req, spoiled, kept>>
script        == <<gallery, run, runs, disowned>>
vars          == <<index, investigation, script>>

-----------------------------------------------------------------------------
Items == References \cup Artifacts \cup Documents

NoRow   == 0
Pending == -1

Idle    == [at |-> "idle"]
Adding  == [at : {"adding"}, item : Items]
Purging == [at : {"purging"}]

Off       == [at |-> "off"]
Ingesting == [at : {"ingesting"}, todo : SUBSET Pictures,
              embedded : SUBSET Pictures, pending : SUBSET Pictures]

Purges(r) == req[r].at = "purging"
UnderPurge == \E r \in Requests : Purges(r)

Becomes(r, what) == req' = [req EXCEPT ![r] = what]

Init ==
  /\ IndexInit
  /\ case = "open"
  /\ rows = {}
  /\ files = {}
  /\ req = [r \in Requests |-> Idle]
  /\ gallery = [x \in Pictures |-> NoRow]
  /\ run = Off
  /\ runs = 0
  /\ spoiled = FALSE
  /\ kept = {}
  /\ disowned = {}

-----------------------------------------------------------------------------
(* The investigation. *)

Saves(i) == files' = files \cup {i}

\* delete_file takes an error of the disk for a missing file.
Deletes(found, refused) ==
  /\ files' = files \ (found \ refused)
  /\ kept' = kept \cup refused

\* An upload, a capture or a report: its file is written, and the vector of a
\* reference image, before its row is added.
AddBegin(r) ==
  /\ req[r] = Idle
  /\ case = "open"
  /\ \E i \in Items :
       /\ i \notin files \cup rows \cup kept    \* a new identifier
       /\ Saves(i)
       /\ Becomes(r, [at |-> "adding", item |-> i])
       /\ IF i \in References THEN Upsert("server", i) ELSE UNCHANGED index
  /\ UNCHANGED <<case, rows, spoiled, kept, script>>

\* The artifacts of the same finding.  A capture gives its file to a row of
\* evidence of the finding, in the place of the artifact that the row named.
Siblings(i) == {a \in rows \cap Artifacts : i \in Artifacts /\ Finding[a] = Finding[i]}

\* Which row it is, no order says: each verification has added one.
Replaced(i) == {{}} \cup {{a} : a \in Siblings(i)}

\* The row refers to the investigation, which must still be there.
AddCommit(r) ==
  /\ req[r].at = "adding"
  /\ \/ /\ case = "open"
        /\ \E old \in Replaced(req[r].item) :
             /\ rows' = (rows \ old) \cup {req[r].item}
             /\ kept' = kept \cup old \cup (IF UnderPurge THEN {req[r].item} ELSE {})
     \/ /\ case = "gone"
        /\ kept' = kept \cup {req[r].item}
        /\ UNCHANGED rows
  /\ Becomes(r, Idle)
  /\ UNCHANGED <<case, files, spoiled, index, script>>

\* A photo of the camera is stored as its digest.  The identifier of a vector is
\* recorded with it, and no vector.
CapturePhoto ==
  /\ case = "open"
  /\ \E i \in Photos \ rows : rows' = rows \cup {i}
  /\ UNCHANGED <<case, files, req, spoiled, kept, index, script>>

\* Seeded fault: only the files of reference images are looked up.
ReferencesOnly == rows \cap References

\* The rows whose files a purge looks up.
Purgeable == rows \cap (References \cup Artifacts)

\* The files go one by one.  The call that would delete the vectors names a method
\* that the index does not have, and its exception goes into the receipt.
PurgeBegin(r) ==
  /\ req[r] = Idle
  /\ case = "open"
  /\ \E refused \in SUBSET Purgeable : Deletes(Purgeable, refused)
  /\ Becomes(r, [at |-> "purging"])
  /\ UNCHANGED <<case, rows, spoiled, index, script>>

\* The row of the case goes and all others with it; or the request fails, also
\* when another purge has been faster.
PurgeCommit(r) ==
  /\ Purges(r)
  /\ IF case = "open" THEN case' = "gone" /\ rows' = {}
     ELSE UNCHANGED <<case, rows>>
  /\ Becomes(r, Idle)
  /\ UNCHANGED <<files, spoiled, kept, index, script>>

\* A request that ends before it commits.
Unfinished(r) ==
  /\ spoiled' = (spoiled \/ Purges(r))
  /\ kept' = IF req[r].at = "adding" THEN kept \cup {req[r].item} ELSE kept

CutShort(r) ==
  /\ req[r] # Idle
  /\ Unfinished(r)
  /\ Becomes(r, Idle)
  /\ UNCHANGED <<case, rows, files, index, script>>

\* The server restarts when no request is under way; a crash cuts them short.
RestartServer ==
  /\ \A r \in Requests : req[r] = Idle
  /\ link["server"] # "unknown"
  /\ Forget("server")
  /\ UNCHANGED <<investigation, script>>

-----------------------------------------------------------------------------
(* The gallery. *)

\* The images that pass validation and face detection, each content once.
RunBegin ==
  /\ run = Off
  /\ runs < MaxRuns
  /\ \E todo \in SUBSET Pictures \ {{}} :
       run' = [at |-> "ingesting", todo |-> todo, embedded |-> {}, pending |-> {}]
  /\ runs' = runs + 1
  /\ UNCHANGED <<gallery, disowned, index, investigation>>

\* The run once an image has been embedded, or recorded without an embedding.
Embedded(x) ==
  [at |-> "ingesting", todo |-> run.todo \ {x},
   embedded |-> run.embedded \cup {x}, pending |-> run.pending]

\* Seeded fault: an image without an embedding is recorded as indexed.
NotEmbeddedYetIndexed(x) == Embedded(x)

NotEmbedded(x) ==
  [at |-> "ingesting", todo |-> run.todo \ {x},
   embedded |-> run.embedded, pending |-> run.pending \cup {x}]

IngestOne ==
  /\ run # Off
  /\ \E x \in run.todo :
       \/ /\ run' = Embedded(x)
          /\ Upsert("script", <<runs, x>>)
       \/ /\ run' = NotEmbedded(x)
          /\ UNCHANGED index
  /\ UNCHANGED <<gallery, runs, disowned, investigation>>

\* The process ends with the run, and takes its memory with it.
Exit ==
  /\ run' = Off
  /\ Forget("script")
  /\ UNCHANGED <<runs, investigation>>

\* Seeded fault: the new rows keep the default status.
RowLeftPending(x) == IF x \in run.embedded \cup run.pending THEN Pending ELSE gallery[x]

\* The row of an image after the commit of the run.
RowAfterRun(x) ==
  IF x \in run.embedded THEN runs ELSE IF x \in run.pending THEN Pending ELSE gallery[x]

\* A content that has a row already fails the whole run, at its only commit.
RunCommit ==
  /\ run # Off
  /\ run.todo = {}
  /\ \/ /\ \A x \in run.embedded \cup run.pending : gallery[x] = NoRow
        /\ gallery' = [x \in Pictures |-> RowAfterRun(x)]
        /\ UNCHANGED disowned
     \/ /\ \E x \in run.embedded \cup run.pending : gallery[x] # NoRow
        /\ disowned' = disowned \cup {runs}
        /\ UNCHANGED gallery
  /\ Exit

RunCrash ==
  /\ run # Off
  /\ disowned' = disowned \cup {runs}
  /\ UNCHANGED gallery
  /\ Exit

\* The participant of the images is erased: the rows go, the vectors stay.
EraseIdentity ==
  /\ \E x \in Pictures : gallery[x] # NoRow
  /\ gallery' = [x \in Pictures |-> NoRow]
  /\ disowned' = disowned \cup {n \in 1..MaxRuns : \E x \in Pictures : gallery[x] = n}
  /\ UNCHANGED <<run, runs, index, investigation>>

-----------------------------------------------------------------------------
Step(r) == AddBegin(r) \/ AddCommit(r) \/ PurgeBegin(r) \/ PurgeCommit(r) \/ CutShort(r)

Next ==
  \/ \E r \in Requests : Step(r)
  \/ CapturePhoto
  \/ RestartServer
  \/ RunBegin \/ IngestOne \/ RunCommit \/ RunCrash
  \/ EraseIdentity

Spec == Init /\ [][Next]_vars

-----------------------------------------------------------------------------
(* Properties. *)

\* Every variable stays in its range.
TypeOK ==
  /\ IndexOK
  /\ case \in {"open", "gone"}
  /\ rows \subseteq Items \cup Photos
  /\ files \subseteq Items
  /\ req \in [Requests -> {Idle} \cup Adding \cup Purging]
  /\ gallery \in [Pictures -> {NoRow, Pending} \cup (1..MaxRuns)]
  /\ run \in {Off} \cup Ingesting
  /\ runs \in 0..MaxRuns
  /\ spoiled \in BOOLEAN
  /\ kept \subseteq Items
  /\ disowned \subseteq 1..MaxRuns

\* Rows and files go together.  Whatever a row names is on the disk, unless a purge
\* is under way or one was rolled back after it had deleted files; and when an
\* investigation is gone, so are the files of its reference images and its
\* evidence, unless the disk refused, or a request that wrote one overlapped with
\* the purge or was cut short, or a later capture of the finding took over the row
\* (purge_investigation deletes the files that rows name, and the rows last).
FilesFollowRows ==
  /\ ~spoiled /\ ~UnderPurge => rows \ Photos \subseteq files
  /\ case = "gone" =>
       \A i \in (References \cup Artifacts) \ kept :
         i \in files => \E r \in Requests : req[r] = [at |-> "adding", item |-> i]

\* What the database says is indexed, uploaded reference images and faces of the
\* gallery, is in Qdrant, unless the process that indexed it had to keep the vector
\* in its own memory (upsert_embedding and upsert_face_embedding report success in
\* both cases).  Photos of the camera are left out: their rows of embeddings name
\* vectors that process_capture gives to no store.
IndexedInQdrant ==
  /\ rows \cap References \subseteq qdrant \cup strayed
  /\ \A x \in Pictures : gallery[x] \in 1..MaxRuns =>
       <<gallery[x], x>> \in qdrant \cup strayed

\* A face vector in the index belongs to a row of the gallery, unless its run is
\* not over, or failed, or its participant was erased (ingest_lfw_directory
\* writes the vectors before its commit, and nothing ever deletes one).
VectorsOwned ==
  \A n \in 1..MaxRuns, x \in Pictures :
    <<n, x>> \in qdrant =>
      gallery[x] = n \/ n \in disowned \/ (run # Off /\ n = runs)

==============================================================================
