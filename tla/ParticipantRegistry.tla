------------------------- MODULE ParticipantRegistry --------------------------
(***************************************************************************)
(* The participants of an organization and what is kept of them in three   *)
(* places: the rows of the database, the image files, and the face         *)
(* collection of AWS Rekognition.  Administrators enrol participants,      *)
(* upload their images, have the faces indexed and erase participants; a   *)
(* script imports participants with their images from a directory; the     *)
(* dataset command ingests directories of identities, whose images it      *)
(* records and does not store; analysts search the collection.             *)
(*                                                                         *)
(* A request reads committed rows when it begins, acts on files and        *)
(* on the collection as it goes, and commits its rows at its end: files    *)
(* and faces are not part of its transaction.  A lock on a row only delays *)
(* the other request, so the order of two commits is free.  AWS is         *)
(* configured; it keeps one face for one image under one external name, so *)
(* that a face is a participant with a picture.                            *)
(***************************************************************************)
EXTENDS Naturals, FiniteSets

CONSTANTS
  People,      \* identifiers that participants are given, each used once
  Pictures,    \* contents of images, as told apart by their SHA-256
  Requests,    \* requests in flight together
  Matches,     \* bound: the dataset matches that are remembered
  TypedCodes,  \* participant codes that administrators type in
  DirectoryCodes,  \* the codes id-<name> of the directories of a dataset
  Verdicts,    \* VERIFIED, REJECTED and UNCERTAIN, which are stored alike
  Pending,     \* PENDING_REVIEW, the first status and a verdict that decides nothing
  NoOne        \* no participant

ASSUME ConstantsAssumption ==
  /\ TypedCodes \subseteq Nat /\ DirectoryCodes \subseteq Nat
  /\ IsFiniteSet(People)
  /\ NoOne \notin People
  /\ Pending \notin Verdicts

VARIABLES
  person,   \* rows of the participants
  image,    \* rows of the images; the organization has one for one content
  match,    \* rows of the matches
  files,    \* image files on the disk
  faces,    \* faces in the AWS collection
  req,      \* what each request is doing
  spoiled,  \* history: participants with an erasure that was cut short
  marred    \* history: participants whose traces may outlive their rows

outside == <<files, faces>>
history == <<spoiled, marred>>
vars == <<person, image, match, outside, req, history>>

-----------------------------------------------------------------------------
Traces == People \X Pictures
NoFace == <<NoOne, NoOne>>

\* "lost": the transaction of the import was rolled back after it wrote a file.
Person == [row : {"none", "live", "gone", "lost"}, code : Nat,
           typed : BOOLEAN, agreed : BOOLEAN]
\* Of an erased participant, whether there was consent is remembered.
Nobody == [row |-> "none", code |-> 0, typed |-> FALSE, agreed |-> FALSE]

Image == [owner : People, status : {"PENDING", "INDEXED", "FAILED"},
          face : BOOLEAN,    \* whether the row records the face of the owner
          saved : BOOLEAN]   \* history: whether the file it names was written first
NoImage == [owner |-> NoOne, status |-> "none", face |-> FALSE, saved |-> FALSE]
NewImage(p) == [owner |-> p, status |-> "PENDING", face |-> FALSE, saved |-> TRUE]

\* "given" is the last verdict that decides, and "stale", history, whether the
\* session that gave it had loaded a status that was no longer there.
Match == [who : People \cup {NoOne}, face : Traces \cup {NoFace},
          status : Verdicts \cup {Pending},
          given : Verdicts \cup {Pending}, stale : BOOLEAN]
NewMatch(who, face) ==
  [who |-> who, face |-> face, status |-> Pending,
   given |-> Pending, stale |-> FALSE]
NoMatch == NewMatch(NoOne, NoFace)

Idle      == [at |-> "idle"]
\* What a request brings along and nobody else reads is chosen where it is written.
Creating  == [at : {"creating"}, who : People, code : Nat, typed : BOOLEAN]
Importing == [at : {"importing"}, who : People, code : Nat, agreed : BOOLEAN,
              pics : SUBSET Pictures]
\* The ingestion has inserted the participant ("ingesting") or found it ("adding").
Ingesting == [at : {"ingesting", "adding"}, who : People, code : Nat,
              pics : SUBSET Pictures]
Uploading == [at : {"uploading"}, who : People, pic : Pictures]
Indexing  == [at : {"indexing"}, who : People, todo : SUBSET Pictures,
              failed : SUBSET Pictures,  \* those whose row said FAILED
              got : SUBSET Pictures, missed : SUBSET Pictures]
Erasing   == [at : {"erasing", "wiping"}, who : People]
Searching == [at : {"resolving"}, face : Traces]
Matched   == [at : {"matched"}, who : People \cup {NoOne},
              face : Traces \cup {NoFace}]

Verifying == [at : {"verifying"}, match : Matches, was : Verdicts \cup {Pending}]

Live == {p \in People : person[p].row = "live"}

Erases(r) == req[r].at \in {"erasing", "wiping"}

UnderErasure(p) == \E r \in Requests : Erases(r) /\ req[r].who = p

\* The requests that leave something outside the database for a participant.
WorksOn(p) == \E r \in Requests :
  /\ req[r].at \in {"uploading", "indexing", "erasing", "wiping"}
  /\ req[r].who = p

ImagesOf(p) == {x \in Pictures : image[x].owner = p}
SavedOf(p)  == {x \in ImagesOf(p) : image[x].saved}

Init ==
  /\ person = [p \in People |-> Nobody]
  /\ image = [x \in Pictures |-> NoImage]
  /\ match = [m \in Matches |-> NoMatch]
  /\ files = {}
  /\ faces = {}
  /\ req = [r \in Requests |-> Idle]
  /\ spoiled = {}
  /\ marred = {}

Becomes(r, what) == req' = [req EXCEPT ![r] = what]

\* The session is rolled back; files and faces stay as they are.
Ends(r) == Becomes(r, Idle)

-----------------------------------------------------------------------------
(* Enrolment. *)

\* Seeded fault: only the participants with consent are counted.
ConsentedCode == Cardinality({p \in Live : person[p].agreed}) + 1

\* The code that the service makes up: one more than it counts participants.
GeneratedCode == Cardinality(Live) + 1

\* An identifier that no participant and no request has.
Unused(p) ==
  /\ person[p].row = "none"
  /\ \A s \in Requests :
       req[s].at \in {"creating", "importing", "ingesting"} => req[s].who # p

CreateBegin(r) ==
  /\ req[r] = Idle
  /\ \E p \in People :
       /\ Unused(p)
       /\ \/ Becomes(r, [at |-> "creating", who |-> p, code |-> GeneratedCode,
                         typed |-> FALSE])
          \/ \E c \in TypedCodes :
               Becomes(r, [at |-> "creating", who |-> p, code |-> c, typed |-> TRUE])
  /\ UNCHANGED <<person, image, match, outside, history>>

Clashes(r) == \E p \in Live : person[p].code = req[r].code

\* A row that has been inserted reserves its code until its transaction ends.
Reserved(c) == \E s \in Requests :
  req[s].at \in {"importing", "ingesting"} /\ req[s].code = c

\* Row and consent are committed together.
Enrolled(p, code, typed, agreed) ==
  [person EXCEPT ![p] =
     [row |-> "live", code |-> code, typed |-> typed, agreed |-> agreed]]

\* The code must be free; one that is reserved has to be waited for.
CreateCommit(r) ==
  /\ req[r].at = "creating"
  /\ ~Reserved(req[r].code)
  /\ \E agreed \in BOOLEAN :
       person' = IF Clashes(r) THEN person
                 ELSE Enrolled(req[r].who, req[r].code, req[r].typed, agreed)
  /\ Ends(r)
  /\ UNCHANGED <<image, match, outside, history>>

-----------------------------------------------------------------------------
(* Images. *)

\* A content that the organization has already is answered with its row.
UploadBegin(r) ==
  /\ req[r] = Idle
  /\ \E p \in Live, x \in Pictures :
       /\ image[x] = NoImage
       /\ files' = files \cup {<<p, x>>}
       /\ Becomes(r, [at |-> "uploading", who |-> p, pic |-> x])
  /\ UNCHANGED <<person, image, match, faces, history>>

UploadCommit(r) ==
  /\ req[r].at = "uploading"
  /\ LET p == req[r].who
         x == req[r].pic
         fits == p \in Live /\ image[x] = NoImage
     IN /\ image' = IF fits THEN [image EXCEPT ![x] = NewImage(p)] ELSE image
        /\ marred' = IF ~fits \/ UnderErasure(p) THEN marred \cup {p}
                     ELSE marred
  /\ Ends(r)
  /\ UNCHANGED <<person, match, outside, spoiled>>

(* The import of a participant from a directory, in one transaction. *)

\* The row and the consent are inserted first.  Of a participant without consent
\* no image is taken, and none whose content the organization has already; the
\* files of the others are written.
ImportBegin(r) ==
  /\ req[r] = Idle
  /\ \E p \in People, c \in TypedCodes, agreed \in BOOLEAN, pics \in SUBSET Pictures :
       /\ Unused(p)
       /\ ~Reserved(c)
       /\ \A q \in Live : person[q].code # c
       /\ ~agreed => pics = {}
       /\ \A x \in pics : image[x] = NoImage
       /\ files' = files \cup {<<p, x>> : x \in pics}
       /\ Becomes(r, [at |-> "importing", who |-> p, code |-> c,
                      agreed |-> agreed, pics |-> pics])
  /\ UNCHANGED <<person, image, match, faces, history>>

\* An image whose content has got a row since fails the whole import.
ImportFits(r) == \A x \in req[r].pics : image[x] = NoImage

\* The participant of an import that was rolled back.
Lost(r) ==
  IF req[r].pics = {} THEN person
  ELSE [person EXCEPT ![req[r].who].row = "lost"]

ImportCommit(r) ==
  /\ req[r].at = "importing"
  /\ IF ImportFits(r)
       THEN /\ person' = Enrolled(req[r].who, req[r].code, TRUE, req[r].agreed)
            /\ image' = [x \in Pictures |->
                 IF x \in req[r].pics THEN NewImage(req[r].who) ELSE image[x]]
       ELSE /\ person' = Lost(r)
            /\ UNCHANGED image
  /\ Ends(r)
  /\ UNCHANGED <<match, outside, history>>

(* The ingestion of a directory of identities, in one transaction.  Several  *)
(* identities are several of these, which commit together or not at all.     *)

\* The participant is the one that has the code of the directory, with or
\* without consent, or is inserted with consent.  Of its pictures those with one
\* good face are taken, whatever the organization has; where there is none nothing
\* is added.
IngestBegin(r) ==
  /\ req[r] = Idle
  /\ \E p \in People, c \in DirectoryCodes, pics \in SUBSET Pictures :
       \/ /\ p \in Live /\ person[p].code = c /\ pics # {}
          /\ Becomes(r, [at |-> "adding", who |-> p, code |-> c, pics |-> pics])
       \/ /\ Unused(p) /\ ~Reserved(c)
          /\ \A q \in Live : person[q].code # c
          /\ Becomes(r, [at |-> "ingesting", who |-> p, code |-> c, pics |-> pics])
  /\ UNCHANGED <<person, image, match, outside, history>>

\* One content that has a row, or an owner who has been erased since, fails all.
IngestFits(r) ==
  /\ ImportFits(r)
  /\ req[r].at = "adding" => req[r].who \in Live

\* What could be embedded is called indexed.  The file that the row names is never
\* written, and AWS is not asked.
Ingested(r, x, embedded) ==
  [owner |-> req[r].who,
   status |-> IF x \in embedded THEN "INDEXED" ELSE "PENDING",
   face |-> FALSE, saved |-> FALSE]

IngestCommit(r) ==
  /\ req[r].at \in {"ingesting", "adding"}
  /\ IF IngestFits(r)
       THEN /\ person' = IF req[r].at = "ingesting"
                         THEN Enrolled(req[r].who, req[r].code, TRUE, TRUE)
                         ELSE person
            /\ \E embedded \in SUBSET req[r].pics :
                 image' = [x \in Pictures |->
                   IF x \in req[r].pics THEN Ingested(r, x, embedded) ELSE image[x]]
       ELSE UNCHANGED <<person, image>>
  /\ Ends(r)
  /\ UNCHANGED <<match, outside, history>>

-----------------------------------------------------------------------------
(* Indexing. *)

\* Seeded fault: consent is not asked for.
MayIndexAnyone(p) == p \in Live

MayIndex(p) == p \in Live /\ person[p].agreed

\* An image without a file fails whenever its turn comes.
IndexBegin(r) ==
  /\ req[r] = Idle
  /\ \E p \in People :
       LET todo == {x \in ImagesOf(p) : image[x].status # "INDEXED"} IN
       /\ MayIndex(p)
       /\ todo # {}
       /\ Becomes(r, [at |-> "indexing", who |-> p, todo |-> todo \cap SavedOf(p),
                      failed |-> {x \in todo : image[x].status = "FAILED"},
                      got |-> {}, missed |-> todo \ SavedOf(p)])
  /\ UNCHANGED <<person, image, match, outside, history>>

\* AWS finds one face in the image and keeps it.
IndexFace(f) == faces' = faces \cup {f}

\* One image: its file is read and sent to AWS, which may refuse it or fail.
IndexOne(r) ==
  /\ req[r].at = "indexing"
  /\ \E x \in req[r].todo :
       LET q == req[r]
           rest == q.todo \ {x}
       IN
       \/ /\ <<q.who, x>> \in files
          /\ IndexFace(<<q.who, x>>)
          /\ Becomes(r, [at |-> "indexing", who |-> q.who, todo |-> rest,
                         failed |-> q.failed, got |-> q.got \cup {x},
                         missed |-> q.missed])
       \/ /\ faces' = faces
          /\ Becomes(r, [at |-> "indexing", who |-> q.who, todo |-> rest,
                         failed |-> q.failed, got |-> q.got,
                         missed |-> q.missed \cup {x}])
  /\ UNCHANGED <<person, image, match, files, history>>

\* Seeded fault: an image that AWS refused counts as indexed.
IndexedAnyway(r, x) ==
  IF x \in req[r].got \cup req[r].missed
    THEN [image[x] EXCEPT !.status = "INDEXED", !.face = TRUE]
  ELSE image[x]

\* The row of an image: an UPDATE names only the columns that differ from what
\* was loaded, so a second failure leaves the status as others have set it.
Indexed(r, x) ==
  IF x \in req[r].got
    THEN [image[x] EXCEPT !.status = "INDEXED", !.face = TRUE]
  ELSE IF x \in req[r].missed \ req[r].failed
    THEN [image[x] EXCEPT !.status = "FAILED"]
  ELSE image[x]

\* A row that is gone makes the whole request fail.
IndexCommit(r) ==
  /\ req[r].at = "indexing"
  /\ req[r].todo = {}
  /\ LET p == req[r].who
         fits == req[r].got \cup req[r].missed \subseteq ImagesOf(p)
     IN /\ image' = IF fits THEN [x \in Pictures |-> Indexed(r, x)] ELSE image
        /\ marred' = IF ~fits \/ UnderErasure(p) THEN marred \cup {p}
                     ELSE marred
  /\ Ends(r)
  /\ UNCHANGED <<person, match, outside, spoiled>>

-----------------------------------------------------------------------------
(* Erasure. *)

\* Seeded fault: the rows are chosen by their status.
RecordedByStatus(p) == {<<p, x>> : x \in {y \in ImagesOf(p) : image[y].status = "INDEXED"}}

\* The faces of a participant that the rows know of.
Recorded(p) == {<<p, x>> : x \in {y \in ImagesOf(p) : image[y].face}}

DeleteFaces(gone) == faces' = faces \ gone

\* The faces that the rows record are deleted from the collection; an error of
\* AWS is noted in the report.
EraseBegin(r) ==
  /\ req[r] = Idle
  /\ \E p \in Live :
       /\ Becomes(r, [at |-> "erasing", who |-> p])
       /\ \/ /\ DeleteFaces(Recorded(p))
             /\ marred' = marred
          \/ /\ Recorded(p) # {}
             /\ faces' = faces
             /\ marred' = marred \cup {p}
  /\ UNCHANGED <<person, image, match, files, spoiled>>

\* The files of the images are deleted one by one; what the disk refuses is
\* noted in the report.  A row that names no file is passed over.
EraseFiles(r) ==
  /\ req[r].at = "erasing"
  /\ LET p == req[r].who IN
     /\ \E kept \in SUBSET SavedOf(p) :
          /\ files' = files \ {<<p, x>> : x \in SavedOf(p) \ kept}
          /\ marred' = IF kept = {} THEN marred ELSE marred \cup {p}
     /\ Becomes(r, [at |-> "wiping", who |-> p])
  /\ UNCHANGED <<person, image, match, faces, spoiled>>

\* Seeded fault: the match keeps the name.
StillNamed(m, p) == match[m]

\* The match as the deletion of a participant leaves it.
Unnamed(m, p) ==
  IF match[m].who = p THEN [match[m] EXCEPT !.who = NoOne] ELSE match[m]

\* The rows go, and with them the identifiers of the faces.  An erasure that
\* finds the row gone fails.
EraseCommit(r) ==
  /\ req[r].at = "wiping"
  /\ LET p == req[r].who IN
     \/ /\ p \in Live
        /\ person' = [person EXCEPT ![p] =
             [row |-> "gone", code |-> 0, typed |-> FALSE,
              agreed |-> person[p].agreed]]
        /\ image' = [x \in Pictures |->
                       IF image[x].owner = p THEN NoImage ELSE image[x]]
        /\ match' = [m \in Matches |-> Unnamed(m, p)]
     \/ /\ p \notin Live
        /\ UNCHANGED <<person, image, match>>
  /\ Ends(r)
  /\ UNCHANGED <<outside, history>>

-----------------------------------------------------------------------------
(* Matches. *)

\* AWS answers with the best face, with none, or with an error.
SearchFaces == faces \cup {NoFace}

\* Without a face, a match without a name is recorded.
SearchBegin(r) ==
  /\ req[r] = Idle
  /\ \E f \in SearchFaces :
       Becomes(r, IF f = NoFace THEN [at |-> "matched", who |-> NoOne, face |-> f]
                  ELSE [at |-> "resolving", face |-> f])
  /\ UNCHANGED <<person, image, match, outside, history>>

\* The participant whose image records the face.
Holder(face) ==
  IF image[face[2]].face /\ image[face[2]].owner = face[1]
    THEN image[face[2]].owner ELSE NoOne

Resolve(r) ==
  /\ req[r].at = "resolving"
  /\ Becomes(r, [at |-> "matched", who |-> Holder(req[r].face),
                 face |-> req[r].face])
  /\ UNCHANGED <<person, image, match, outside, history>>

\* A match cannot name a participant who has been erased since.  Bound: there is
\* room for so many.
MatchCommit(r) ==
  /\ req[r].at = "matched"
  /\ \/ /\ req[r].who \in Live \cup {NoOne}
        /\ \E m \in Matches :
             /\ match[m] = NoMatch
             /\ match' = [match EXCEPT ![m] = NewMatch(req[r].who, req[r].face)]
     \/ /\ req[r].who \notin Live \cup {NoOne}
        /\ UNCHANGED match
  /\ Ends(r)
  /\ UNCHANGED <<person, image, outside, history>>

\* An analyst's verdict on a match.
VerifyBegin(r) ==
  /\ req[r] = Idle
  /\ \E m \in Matches :
       /\ match[m] # NoMatch
       /\ Becomes(r, [at |-> "verifying", match |-> m, was |-> match[m].status])
  /\ UNCHANGED <<person, image, match, outside, history>>

\* A verification is added.  That the match is pending review changes nothing of
\* it; another verdict is written if it differs from the status that was loaded.
Judged(q, verdict) ==
  IF verdict = Pending THEN match[q.match]
  ELSE [match[q.match] EXCEPT
          !.status = IF verdict # q.was THEN verdict ELSE @,
          !.given = verdict, !.stale = (match[q.match].status # q.was)]

VerifyCommit(r) ==
  /\ req[r].at = "verifying"
  /\ \E v \in Verdicts \cup {Pending} :
       match' = [match EXCEPT ![req[r].match] = Judged(req[r], v)]
  /\ Ends(r)
  /\ UNCHANGED <<person, image, outside, history>>

-----------------------------------------------------------------------------
\* An exception, a lost connection or a crash ends a request before it commits.
CutShort(r) ==
  /\ req[r] # Idle
  /\ marred' = IF req[r].at \in {"uploading", "indexing"}
                 THEN marred \cup {req[r].who} ELSE marred
  /\ spoiled' = IF Erases(r) THEN spoiled \cup {req[r].who} ELSE spoiled
  /\ person' = IF req[r].at = "importing" THEN Lost(r) ELSE person
  /\ Ends(r)
  /\ UNCHANGED <<image, match, outside>>

Step(r) ==
  \/ CreateBegin(r) \/ CreateCommit(r)
  \/ UploadBegin(r) \/ UploadCommit(r)
  \/ ImportBegin(r) \/ ImportCommit(r)
  \/ IngestBegin(r) \/ IngestCommit(r)
  \/ IndexBegin(r) \/ IndexOne(r) \/ IndexCommit(r)
  \/ EraseBegin(r) \/ EraseFiles(r) \/ EraseCommit(r)
  \/ SearchBegin(r) \/ Resolve(r) \/ MatchCommit(r)
  \/ VerifyBegin(r) \/ VerifyCommit(r)
  \/ CutShort(r)

Next == \E r \in Requests : Step(r)

Spec == Init /\ [][Next]_vars

-----------------------------------------------------------------------------
(* Properties. *)

\* Every variable stays in its range.
TypeOK ==
  /\ person \in [People -> Person]
  /\ image \in [Pictures -> Image \cup {NoImage}]
  /\ match \in [Matches -> Match]
  /\ files \subseteq Traces
  /\ faces \subseteq Traces
  /\ req \in [Requests -> {Idle} \cup Creating \cup Importing \cup Ingesting
                            \cup Uploading \cup Indexing \cup Erasing
                            \cup Searching \cup Matched \cup Verifying]
  /\ spoiled \subseteq People
  /\ marred \subseteq People

\* A face is in the AWS collection, or on its way there, only for a participant
\* who has consented, whoever uploaded which picture first and whatever was
\* erased since (class Participant: "must never have their images indexed").
OnlyConsentedIndexed ==
  \A f \in faces : person[f[1]].row # "none" /\ person[f[1]].agreed

\* Erasing a participant leaves nothing behind outside the database, unless
\* AWS or the disk refused, or another request for the participant overlapped
\* with the erasure or had itself been cut short (delete_participant reaches
\* only the faces and files that rows name).
ErasureComplete ==
  \A p \in People :
    person[p].row = "gone" /\ p \notin marred /\ ~WorksOn(p) =>
      \A x \in Pictures : <<p, x>> \notin files \cup faces

\* What a row says is stored is stored: the file of every image, the face of
\* every one that records a face, and one for every one recorded as indexed,
\* unless an erasure of the participant is under way or was rolled back after it
\* had removed them.  The rows of an ingested directory are not so: their files
\* are never written, and those it calls indexed have no face to be found by or
\* to be deleted, which no later request makes up for (ingest_lfw_directory).
RecordedIsStored ==
  \A x \in Pictures :
    LET p == image[x].owner IN
    p # NoOne /\ p \notin spoiled /\ ~UnderErasure(p) =>
      /\ image[x].saved => <<p, x>> \in files
      /\ image[x].face => <<p, x>> \in faces
      /\ image[x].saved /\ image[x].status = "INDEXED" => image[x].face
      /\ ~image[x].saved => ~image[x].face

\* A match names the participant whose face AWS found, and never one who has
\* been erased: an erasure between the search and its commit, or after it,
\* takes the name off the match (match_face, ON DELETE SET NULL).  Its status is
\* the last verdict that decides, whatever was put back to review since, unless
\* another analyst's was committed after the session that gave it had loaded the
\* match (verify_match).
MatchStands ==
  \A m \in Matches :
    /\ match[m].who # NoOne =>
         match[m].who \in Live /\ match[m].face[1] = match[m].who
    /\ match[m].status = match[m].given \/ match[m].stale

\* A code made up by the service is taken only if a participant was erased, if
\* somebody typed a code in, or if another enrolment was committed since the
\* participants were counted (create_participant).
GeneratedCodeFree ==
  \A r \in Requests :
    req[r].at = "creating" /\ ~req[r].typed /\ Clashes(r) =>
      \/ \E p \in People : person[p].row = "gone"
      \/ \E p \in Live : person[p].typed
      \/ req[r].code # GeneratedCode

==============================================================================
