----------------------- MODULE ParticipantRegistryProofs -----------------------
(***************************************************************************)
(* The properties of ParticipantRegistry for any participants, pictures,   *)
(* requests, matches, codes and verdicts.  None is inductive: a request    *)
(* acts on what it read when it began.  The invariant says what is still   *)
(* true of that, and of what the request has done outside the database.    *)
(***************************************************************************)
EXTENDS ParticipantRegistry, FiniteSetTheorems, TLAPS

Enrols(r) == req[r].at \in {"creating", "importing", "ingesting"}

InUpload(p, x) ==
  \E r \in Requests : req[r].at = "uploading" /\ req[r].who = p /\ req[r].pic = x

InImport(p, x) ==
  \E r \in Requests : req[r].at = "importing" /\ req[r].who = p /\ x \in req[r].pics

InIndex(p, x) ==
  \E r \in Requests : req[r].at = "indexing" /\ req[r].who = p /\ x \in req[r].got

\* Rows of the participant may name what is no longer stored.
Excused(p) == p \in spoiled \/ UnderErasure(p) \/ person[p].row = "gone"

-----------------------------------------------------------------------------
(* The inductive invariant. *)

\* An enrolment in flight has an identifier of its own.
EnrolmentsFresh ==
  \A r \in Requests :
    Enrols(r) =>
      /\ person[req[r].who].row = "none"
      /\ \A s \in Requests : Enrols(s) /\ req[s].who = req[r].who => s = r

\* Who is in the hands of a request has been enrolled, and, if faces are indexed,
\* has consented.
HandledKnown ==
  \A r \in Requests :
    /\ req[r].at \in {"uploading", "erasing", "wiping"} =>
         person[req[r].who].row \in {"live", "gone"}
    /\ req[r].at = "indexing" =>
         person[req[r].who].row \in {"live", "gone"} /\ person[req[r].who].agreed

OwnersLive == \A x \in Pictures : image[x].owner # NoOne => image[x].owner \in Live

\* A face is recorded of every stored image that is indexed, and of no other.
IndexedHasFace == \A x \in Pictures :
  /\ image[x].status = "INDEXED" /\ image[x].saved => image[x].face
  /\ image[x].face => image[x].saved

\* What is being indexed was stored, and its row stays as long as the participant.
IndexingSaved ==
  \A r \in Requests :
    req[r].at = "indexing" =>
      \A x \in req[r].todo \cup req[r].got :
        \/ image[x].owner = req[r].who /\ image[x].saved
        \/ person[req[r].who].row = "gone"

\* What requests have stored, and will record, is stored.
InFlightStored ==
  \A r \in Requests :
    /\ req[r].at = "uploading" =>
         <<req[r].who, req[r].pic>> \in files \/ Excused(req[r].who)
    /\ req[r].at = "importing" =>
         \A x \in req[r].pics : <<req[r].who, x>> \in files
    /\ req[r].at = "indexing" =>
         \A x \in req[r].got : <<req[r].who, x>> \in faces \/ Excused(req[r].who)

\* What is stored is recorded or in flight, or a trace that may stay.
StoredKnown ==
  \A p \in People, x \in Pictures :
    /\ <<p, x>> \in files =>
         \/ image[x].owner = p /\ image[x].saved
         \/ InUpload(p, x) \/ InImport(p, x)
         \/ p \in marred \/ person[p].row = "lost"
    /\ <<p, x>> \in faces =>
         \/ image[x].owner = p /\ image[x].face
         \/ InIndex(p, x) \/ p \in marred

\* Once an erasure has deleted what rows name, the rest is in flight or may stay.
ErasureClears ==
  \A p \in People :
    /\ person[p].row = "gone" \/ (\E r \in Requests : req[r].at = "wiping" /\ req[r].who = p) =>
         \A x \in Pictures : <<p, x>> \in files => InUpload(p, x) \/ p \in marred
    /\ person[p].row = "gone" \/ UnderErasure(p) =>
         \A x \in Pictures : <<p, x>> \in faces => InIndex(p, x) \/ p \in marred

\* A search names the participant of the face.
SearchesNamed ==
  \A r \in Requests : req[r].at = "matched" /\ req[r].who # NoOne => req[r].face[1] = req[r].who

\* While codes are only made up and nobody is erased, they are not above the
\* number of participants, nor is a code in flight above the next.
CodesCounted ==
  (\A p \in People : person[p].row # "gone") /\ (\A p \in Live : ~person[p].typed) =>
    /\ \A p \in Live : person[p].code <= Cardinality(Live)
    /\ \A r \in Requests :
         req[r].at = "creating" /\ ~req[r].typed => req[r].code <= GeneratedCode

Rows == EnrolmentsFresh /\ HandledKnown /\ OwnersLive /\ IndexedHasFace /\ IndexingSaved
Stores == InFlightStored /\ RecordedIsStored /\ StoredKnown /\ ErasureClears

IInv ==
  /\ TypeOK /\ Rows /\ Stores
  /\ OnlyConsentedIndexed /\ SearchesNamed /\ MatchStands /\ CodesCounted

LEMMA IInvImplies == IInv => ErasureComplete /\ GeneratedCodeFree
<1> SUFFICES ASSUME IInv PROVE ErasureComplete /\ GeneratedCodeFree
  OBVIOUS
<1>1. ErasureComplete
  BY DEF IInv, Stores, ErasureClears, ErasureComplete, InUpload, InIndex, WorksOn
<1>2. GeneratedCodeFree
  <2>1. IsFiniteSet(Live)
    BY ConstantsAssumption, FS_Subset DEF Live
  <2>2. Cardinality(Live) \in Nat
    BY <2>1, FS_CardinalityType
  <2>3. \A p \in Live : p \in People /\ person[p].code \in Nat
    BY DEF IInv, TypeOK, Live, Person
  <2> QED
    BY <2>2, <2>3 DEF IInv, CodesCounted, GeneratedCodeFree, Clashes, GeneratedCode
<1> QED
  BY <1>1, <1>2

-----------------------------------------------------------------------------
(* Requests. *)

LEMMA RequestKinds ==
  ASSUME TypeOK, NEW r \in Requests
  PROVE  /\ req[r].at = "creating" => req[r] \in Creating
         /\ req[r].at = "importing" => req[r] \in Importing
         /\ req[r].at \in {"ingesting", "adding"} => req[r] \in Ingesting
         /\ req[r].at = "uploading" => req[r] \in Uploading
         /\ req[r].at = "indexing" => req[r] \in Indexing
         /\ req[r].at \in {"erasing", "wiping"} => req[r] \in Erasing
         /\ req[r].at = "resolving" => req[r] \in Searching
         /\ req[r].at = "matched" => req[r] \in Matched
         /\ req[r].at = "verifying" => req[r] \in Verifying
BY DEF TypeOK, Idle, Creating, Importing, Ingesting, Uploading, Indexing, Erasing, Searching,
       Matched, Verifying

LEMMA LiveCounted == IsFiniteSet(Live) /\ Cardinality(Live) \in Nat
<1>1. IsFiniteSet(Live)
  BY ConstantsAssumption, FS_Subset DEF Live
<1> QED
  BY <1>1, FS_CardinalityType

Doing == {Idle} \cup Creating \cup Importing \cup Ingesting \cup Uploading
         \cup Indexing \cup Erasing \cup Searching \cup Matched \cup Verifying

LEMMA Others ==
  ASSUME TypeOK, NEW r \in Requests, NEW what, Becomes(r, what)
  PROVE  /\ req'[r] = what
         /\ \A s \in Requests \ {r} : req'[s] = req[s]
         /\ what \in Doing => req' \in [Requests -> Doing]
BY DEF TypeOK, Becomes, Doing

\* Which action leaves a request at which place, and what all the other requests do.
LEMMA Places ==
  ASSUME TypeOK, NEW r \in Requests, Step(r)
  PROVE  /\ \A s \in Requests \ {r} : req'[s] = req[s]
         /\ req'[r] \in Doing
         /\ req'[r].at = "creating" => CreateBegin(r)
         /\ req'[r].at = "importing" => ImportBegin(r)
         /\ req'[r].at \in {"ingesting", "adding"} => IngestBegin(r)
         /\ req'[r].at = "uploading" => UploadBegin(r)
         /\ req'[r].at = "indexing" => IndexBegin(r) \/ IndexOne(r)
         /\ req'[r].at = "erasing" => EraseBegin(r)
         /\ req'[r].at = "wiping" => EraseFiles(r)
         /\ req'[r].at = "matched" => SearchBegin(r) \/ Resolve(r)
<1> DEFINE Goes(at) == /\ \A s \in Requests \ {r} : req'[s] = req[s]
                       /\ req'[r] \in Doing /\ req'[r].at = at
<1> USE DEF Doing
<1>1. ASSUME CreateCommit(r) \/ UploadCommit(r) \/ ImportCommit(r) \/ IngestCommit(r)
             \/ IndexCommit(r) \/ EraseCommit(r) \/ MatchCommit(r) \/ VerifyCommit(r) \/ CutShort(r)
      PROVE  Goes("idle")
  <2>1. Becomes(r, Idle)
    BY <1>1 DEF CreateCommit, UploadCommit, ImportCommit, IngestCommit, IndexCommit, EraseCommit,
                MatchCommit, VerifyCommit, CutShort, Ends
  <2> QED
    BY <2>1, Others DEF Idle
<1>2. ASSUME CreateBegin(r) PROVE Goes("creating")
  <2>1. PICK q \in Creating : Becomes(r, q)
    <3>1. GeneratedCode \in Nat
      BY LiveCounted DEF GeneratedCode
    <3> QED
      BY <1>2, <3>1, ConstantsAssumption DEF CreateBegin, Creating
  <2> QED
    BY <2>1, Others DEF Creating
<1>3. ASSUME ImportBegin(r) PROVE Goes("importing")
  <2>1. PICK q \in Importing : Becomes(r, q)
    BY <1>3, ConstantsAssumption DEF ImportBegin, Importing
  <2> QED
    BY <2>1, Others DEF Importing
<1>4. ASSUME IngestBegin(r) PROVE Goes("ingesting") \/ Goes("adding")
  <2>1. PICK q \in Ingesting : Becomes(r, q)
    <3>1. PICK p \in People, c \in DirectoryCodes, pics \in SUBSET Pictures :
            \/ Becomes(r, [at |-> "adding", who |-> p, code |-> c, pics |-> pics])
            \/ Becomes(r, [at |-> "ingesting", who |-> p, code |-> c, pics |-> pics])
      BY <1>4 DEF IngestBegin
    <3>2. c \in Nat
      BY ConstantsAssumption
    <3> QED
      BY <3>1, <3>2 DEF Ingesting
  <2> QED
    BY <2>1, Others DEF Ingesting
<1>5. ASSUME UploadBegin(r) PROVE Goes("uploading")
  <2>1. PICK q \in Uploading : Becomes(r, q)
    BY <1>5 DEF UploadBegin, Uploading, Live
  <2> QED
    BY <2>1, Others DEF Uploading
<1>6. ASSUME IndexBegin(r) PROVE Goes("indexing")
  <2>1. PICK q \in Indexing : Becomes(r, q)
    BY <1>6 DEF IndexBegin, Indexing, ImagesOf
  <2> QED
    BY <2>1, Others DEF Indexing
<1>7. ASSUME IndexOne(r) PROVE Goes("indexing")
  <2>1. PICK q \in Indexing : Becomes(r, q)
    <3>1. req[r] \in Indexing
      BY <1>7, RequestKinds DEF IndexOne
    <3> QED
      BY <1>7, <3>1 DEF IndexOne, Indexing
  <2> QED
    BY <2>1, Others DEF Indexing
<1>8. ASSUME EraseBegin(r) PROVE Goes("erasing")
  <2>1. PICK q \in Erasing : Becomes(r, q) /\ q.at = "erasing"
    BY <1>8 DEF EraseBegin, Erasing, Live
  <2> QED
    BY <2>1, Others
<1>9. ASSUME EraseFiles(r) PROVE Goes("wiping")
  <2>1. PICK q \in Erasing : Becomes(r, q) /\ q.at = "wiping"
    BY <1>9, RequestKinds DEF EraseFiles, Erasing
  <2> QED
    BY <2>1, Others
<1>10. ASSUME SearchBegin(r) PROVE Goes("matched") \/ Goes("resolving")
  <2>1. PICK q \in Searching \cup Matched : Becomes(r, q)
    BY <1>10 DEF SearchBegin, SearchFaces, Searching, Matched, TypeOK
  <2> QED
    BY <2>1, Others DEF Searching, Matched
<1>11. ASSUME Resolve(r) PROVE Goes("matched")
  <2>1. Holder(req[r].face) \in People \cup {NoOne} /\ req[r].face \in Traces
    <3>1. req[r].face \in Traces /\ req[r].face[2] \in Pictures
      BY <1>11, RequestKinds DEF Resolve, Searching, Traces
    <3> QED
      BY <3>1 DEF Holder, TypeOK, Image, NoImage
  <2>2. PICK q \in Matched : Becomes(r, q)
    BY <1>11, <2>1 DEF Resolve, Matched
  <2> QED
    BY <2>2, Others DEF Matched
<1>12. ASSUME VerifyBegin(r) PROVE Goes("verifying")
  <2>1. PICK q \in Verifying : Becomes(r, q)
    BY <1>12 DEF VerifyBegin, Verifying, TypeOK, Match
  <2> QED
    BY <2>1, Others DEF Verifying
<1> HIDE DEF Doing
<1>13. \/ Goes("idle") \/ Goes("resolving") \/ Goes("verifying")
       \/ Goes("creating") /\ CreateBegin(r)
       \/ Goes("importing") /\ ImportBegin(r)
       \/ (Goes("ingesting") \/ Goes("adding")) /\ IngestBegin(r)
       \/ Goes("uploading") /\ UploadBegin(r)
       \/ Goes("indexing") /\ (IndexBegin(r) \/ IndexOne(r))
       \/ Goes("erasing") /\ EraseBegin(r)
       \/ Goes("wiping") /\ EraseFiles(r)
       \/ Goes("matched") /\ (SearchBegin(r) \/ Resolve(r))
  <2> HIDE DEF Goes
  <2> QED
    BY <1>1, <1>2, <1>3, <1>4, <1>5, <1>6, <1>7, <1>8, <1>9, <1>10, <1>11, <1>12 DEF Step
<1> QED
  BY <1>13

-----------------------------------------------------------------------------
(* What a step changes. *)

LEMMA Frames ==
  ASSUME NEW r \in Requests, Step(r)
  PROVE  /\ \/ person' = person \/ CreateCommit(r) \/ ImportCommit(r) \/ IngestCommit(r)
            \/ EraseCommit(r) \/ CutShort(r)
         /\ \/ image' = image \/ UploadCommit(r) \/ ImportCommit(r) \/ IngestCommit(r)
            \/ IndexCommit(r) \/ EraseCommit(r)
         /\ match' = match \/ EraseCommit(r) \/ MatchCommit(r) \/ VerifyCommit(r)
         /\ files' = files \/ UploadBegin(r) \/ ImportBegin(r) \/ EraseFiles(r)
         /\ faces' = faces \/ IndexOne(r) \/ EraseBegin(r)
         /\ \/ marred' = marred \/ UploadCommit(r) \/ IndexCommit(r)
            \/ EraseBegin(r) \/ EraseFiles(r) \/ CutShort(r)
         /\ spoiled' = spoiled \/ CutShort(r)
BY DEF Step, CreateBegin, CreateCommit, UploadBegin, UploadCommit, ImportBegin, ImportCommit,
       IngestBegin, IngestCommit, IndexBegin, IndexOne, IndexCommit, EraseBegin,
       EraseFiles, EraseCommit, SearchBegin, Resolve, MatchCommit, VerifyBegin, VerifyCommit, CutShort, outside, history

\* A participant is enrolled, lost with the import, or erased; no other request
\* that ends is still at its place.
PersonStep(r, p) ==
  \/ person'[p] = person[p]
  \/ /\ Enrols(r) /\ p = req[r].who /\ req'[r] = Idle
     /\ person[p].row = "none"
     /\ \/ /\ CreateCommit(r) \/ ImportCommit(r) \/ IngestCommit(r)
           /\ person'[p].row = "live"
           /\ person'[p].code = req[r].code
           /\ person'[p].typed = (IF req[r].at = "creating" THEN req[r].typed ELSE TRUE)
        \/ person'[p].row = "lost" /\ req[r].at = "importing"
  \/ /\ EraseCommit(r) /\ p = req[r].who
     /\ person[p].row = "live" /\ person'[p].row = "gone"
     /\ person'[p].agreed = person[p].agreed

LEMMA PersonSteps ==
  ASSUME TypeOK, EnrolmentsFresh, NEW r \in Requests, Step(r)
  PROVE  /\ person' \in [People -> Person]
         /\ \A p \in People : PersonStep(r, p)
<1>1. /\ CreateCommit(r) \/ ImportCommit(r) \/ IngestCommit(r) \/ CutShort(r) => req'[r] = Idle
      /\ CreateCommit(r) => req[r].at = "creating"
      /\ ImportCommit(r) => req[r].at = "importing"
      /\ EraseCommit(r) => req[r].at = "wiping"
  BY Others DEF CreateCommit, ImportCommit, IngestCommit, EraseCommit, CutShort, Ends
<1>2. CASE person' = person
  BY <1>2 DEF PersonStep, TypeOK
<1>3. ASSUME req[r].at = "creating", CreateCommit(r), ~Clashes(r)
      PROVE  person' \in [People -> Person] /\ \A p \in People : PersonStep(r, p)
  <2>1. req[r] \in Creating /\ person[req[r].who].row = "none"
    BY <1>3, RequestKinds DEF EnrolmentsFresh, Enrols
  <2>2. PICK agreed \in BOOLEAN :
          person' = [person EXCEPT ![req[r].who] = [row |-> "live", code |-> req[r].code,
                       typed |-> req[r].typed, agreed |-> agreed]]
    BY <1>3 DEF CreateCommit, Enrolled
  <2> QED
    BY <1>1, <1>3, <2>1, <2>2 DEF PersonStep, TypeOK, Person, Creating, Enrols
<1>4. ASSUME req[r].at = "importing", ImportCommit(r), ImportFits(r)
      PROVE  person' \in [People -> Person] /\ \A p \in People : PersonStep(r, p)
  <2>1. req[r] \in Importing /\ person[req[r].who].row = "none"
    BY <1>4, RequestKinds DEF EnrolmentsFresh, Enrols
  <2>2. person' = [person EXCEPT ![req[r].who] = [row |-> "live", code |-> req[r].code,
                     typed |-> TRUE, agreed |-> req[r].agreed]]
    BY <1>4 DEF ImportCommit, Enrolled
  <2> QED
    BY <1>1, <1>4, <2>1, <2>2 DEF PersonStep, TypeOK, Person, Importing, Enrols
<1>5. ASSUME req[r].at = "ingesting", IngestCommit(r), IngestFits(r)
       PROVE  person' \in [People -> Person] /\ \A p \in People : PersonStep(r, p)
  <2>1. req[r] \in Ingesting /\ person[req[r].who].row = "none"
    BY <1>5, RequestKinds DEF EnrolmentsFresh, Enrols
  <2>2. person' = [person EXCEPT ![req[r].who] = [row |-> "live", code |-> req[r].code,
                     typed |-> TRUE, agreed |-> TRUE]]
    BY <1>5 DEF IngestCommit, Enrolled
  <2> QED
    BY <1>1, <1>5, <2>1, <2>2 DEF PersonStep, TypeOK, Person, Ingesting, Enrols
<1>6. ASSUME req[r].at = "importing", req'[r] = Idle,
             person' = [person EXCEPT ![req[r].who].row = "lost"]
      PROVE  person' \in [People -> Person] /\ \A p \in People : PersonStep(r, p)
  <2>1. req[r] \in Importing /\ person[req[r].who].row = "none"
    BY <1>6, RequestKinds DEF EnrolmentsFresh, Enrols
  <2>2. /\ person \in [People -> Person]
        /\ req[r].who \in People
    BY <2>1 DEF TypeOK, Importing
  <2>3. /\ person'[req[r].who].row = "lost"
        /\ \A p \in People \ {req[r].who} : person'[p] = person[p]
    BY <1>6, <2>2 DEF Person
  <2>4. person' \in [People -> Person]
    BY <1>6, <2>2 DEF Person
  <2> QED
    BY <1>6, <2>1, <2>2, <2>3, <2>4 DEF PersonStep, Enrols
<1>7. ASSUME EraseCommit(r), person' # person
      PROVE  person' \in [People -> Person] /\ \A p \in People : PersonStep(r, p)
  <2>1. req[r] \in Erasing
    BY <1>1, <1>7, RequestKinds
  <2>2. /\ req[r].who \in Live
        /\ person' = [person EXCEPT ![req[r].who] =
             [row |-> "gone", code |-> 0, typed |-> FALSE,
              agreed |-> person[req[r].who].agreed]]
    BY <1>7 DEF EraseCommit
  <2> QED
    BY <1>7, <2>1, <2>2 DEF PersonStep, TypeOK, Person, Erasing, Live
<1>8. CASE CreateCommit(r)
  BY <1>1, <1>2, <1>3, <1>8 DEF CreateCommit
<1>9. CASE ImportCommit(r)
  BY <1>1, <1>2, <1>4, <1>6, <1>9 DEF ImportCommit, Lost
<1>10. CASE IngestCommit(r)
  BY <1>2, <1>5, <1>10 DEF IngestCommit
<1>11. CASE CutShort(r)
  BY <1>1, <1>2, <1>6, <1>11 DEF CutShort, Lost
<1> QED
  BY <1>2, <1>7, <1>8, <1>9, <1>10, <1>11, Frames

\* An image is recorded, indexed, refused, or goes with its owner.
ImageStep(r, x) ==
  \/ image'[x] = image[x]
  \/ /\ \/ UploadCommit(r) /\ x = req[r].pic /\ req[r].who \in Live
        \/ ImportCommit(r) /\ x \in req[r].pics
     /\ image[x] = NoImage
     /\ image'[x] = NewImage(req[r].who)
  \/ /\ IngestCommit(r) /\ x \in req[r].pics
     /\ person'[req[r].who].row = "live"
     /\ image[x] = NoImage
     /\ image'[x].owner = req[r].who /\ ~image'[x].face /\ ~image'[x].saved
  \/ /\ IndexCommit(r) /\ image[x].owner = req[r].who
     /\ image'[x].owner = image[x].owner /\ image'[x].saved = image[x].saved
     /\ \/ x \in req[r].got /\ image'[x].status = "INDEXED" /\ image'[x].face
        \/ image'[x].status = "FAILED" /\ image'[x].face = image[x].face
  \/ /\ EraseCommit(r) /\ image[x].owner = req[r].who
     /\ image'[x] = NoImage

LEMMA ImageSteps ==
  ASSUME TypeOK, NEW r \in Requests, Step(r)
  PROVE  /\ image' \in [Pictures -> Image \cup {NoImage}]
         /\ \A x \in Pictures : ImageStep(r, x)
<1>1. CASE image' = image
  BY <1>1 DEF ImageStep, TypeOK
<1>2. ASSUME UploadCommit(r), image' # image
      PROVE  image' \in [Pictures -> Image \cup {NoImage}] /\ \A x \in Pictures : ImageStep(r, x)
  <2>1. req[r] \in Uploading
    BY <1>2, RequestKinds DEF UploadCommit
  <2>2. /\ req[r].who \in Live /\ image[req[r].pic] = NoImage
        /\ image' = [image EXCEPT ![req[r].pic] = NewImage(req[r].who)]
    BY <1>2 DEF UploadCommit
  <2>3. NewImage(req[r].who) \in Image
    BY <2>1 DEF NewImage, Image, Uploading
  <2> QED
    BY <1>2, <2>1, <2>2, <2>3 DEF ImageStep, TypeOK, Uploading
<1>3. ASSUME ImportCommit(r), image' # image
      PROVE  image' \in [Pictures -> Image \cup {NoImage}] /\ \A x \in Pictures : ImageStep(r, x)
  <2>1. req[r] \in Importing
    BY <1>3, RequestKinds DEF ImportCommit
  <2>2. /\ ImportFits(r)
        /\ image' = [x \in Pictures |-> IF x \in req[r].pics
                                        THEN NewImage(req[r].who) ELSE image[x]]
    BY <1>3 DEF ImportCommit
  <2>3. NewImage(req[r].who) \in Image
    BY <2>1 DEF NewImage, Image, Importing
  <2> QED
    BY <1>3, <2>1, <2>2, <2>3 DEF ImageStep, TypeOK, Importing, ImportFits
<1>4. ASSUME IngestCommit(r), image' # image
      PROVE  image' \in [Pictures -> Image \cup {NoImage}] /\ \A x \in Pictures : ImageStep(r, x)
  <2>1. req[r] \in Ingesting
    BY <1>4, RequestKinds DEF IngestCommit
  <2>2. PICK embedded \in SUBSET req[r].pics :
          /\ IngestFits(r)
          /\ person' = IF req[r].at = "ingesting"
                       THEN Enrolled(req[r].who, req[r].code, TRUE, TRUE) ELSE person
          /\ image' = [x \in Pictures |-> IF x \in req[r].pics
                                          THEN Ingested(r, x, embedded) ELSE image[x]]
    BY <1>4 DEF IngestCommit
  <2>3. \A x \in Pictures : Ingested(r, x, embedded) \in Image
    BY <2>1 DEF Ingested, Image, Ingesting
  <2>4. req[r].pics # {} => person'[req[r].who].row = "live"
    <3>1. CASE req[r].at = "ingesting"
      BY <2>1, <2>2, <3>1 DEF Enrolled, TypeOK, Ingesting
    <3>2. CASE req[r].at = "adding"
      BY <2>2, <3>2 DEF IngestFits, Live
    <3> QED
      BY <2>1, <3>1, <3>2 DEF Ingesting
  <2>5. ASSUME NEW x \in Pictures PROVE ImageStep(r, x)
    <3>1. CASE x \in req[r].pics
      <4>1. image'[x] = Ingested(r, x, embedded)
        BY <2>2, <3>1
      <4>2. image'[x].owner = req[r].who /\ ~image'[x].face /\ ~image'[x].saved
        BY <4>1 DEF Ingested
      <4> QED
        BY <1>4, <2>2, <2>4, <3>1, <4>2 DEF ImageStep, IngestFits, ImportFits
    <3>2. CASE x \notin req[r].pics
      BY <2>2, <3>2 DEF ImageStep
    <3> QED
      BY <3>1, <3>2
  <2> QED
    BY <2>2, <2>3, <2>5 DEF TypeOK
<1>5. ASSUME IndexCommit(r), image' # image
      PROVE  image' \in [Pictures -> Image \cup {NoImage}] /\ \A x \in Pictures : ImageStep(r, x)
  <2>1. req[r] \in Indexing
    BY <1>5, RequestKinds DEF IndexCommit
  <2>2. /\ req[r].got \cup req[r].missed \subseteq ImagesOf(req[r].who)
        /\ image' = [x \in Pictures |-> Indexed(r, x)]
    BY <1>5 DEF IndexCommit
  <2>3. ASSUME NEW x \in Pictures PROVE image'[x] \in Image \cup {NoImage} /\ ImageStep(r, x)
    <3>1. image'[x] = Indexed(r, x) /\ image[x] \in Image \cup {NoImage}
      BY <2>2 DEF TypeOK
    <3>2. x \in req[r].got \cup req[r].missed =>
            image[x].owner = req[r].who /\ image[x] \in Image
      BY <2>1, <2>2, <3>1, ConstantsAssumption DEF ImagesOf, NoImage, Indexing
    <3>3. CASE x \in req[r].got
      BY <1>5, <3>1, <3>2, <3>3 DEF Indexed, ImageStep, Image
    <3>4. CASE x \notin req[r].got /\ x \in req[r].missed \ req[r].failed
      BY <1>5, <3>1, <3>2, <3>4 DEF Indexed, ImageStep, Image
    <3>5. CASE x \notin req[r].got /\ x \notin req[r].missed \ req[r].failed
      BY <3>1, <3>5 DEF Indexed, ImageStep
    <3> QED
      BY <3>3, <3>4, <3>5
  <2> QED
    BY <2>2, <2>3
<1>6. ASSUME EraseCommit(r), image' # image
      PROVE  image' \in [Pictures -> Image \cup {NoImage}] /\ \A x \in Pictures : ImageStep(r, x)
  <2>1. image' = [x \in Pictures |-> IF image[x].owner = req[r].who THEN NoImage ELSE image[x]]
    BY <1>6 DEF EraseCommit
  <2> QED
    BY <1>6, <2>1 DEF ImageStep, TypeOK
<1> QED
  BY <1>1, <1>2, <1>3, <1>4, <1>5, <1>6, Frames

\* A file or a face is added by the request that will record it, and removed only
\* by the erasure of its participant.
FileStep(r, p, x) ==
  /\ <<p, x>> \in files' \ files =>
       /\ req'[r].who = p
       /\ \/ UploadBegin(r) /\ req'[r].at = "uploading" /\ req'[r].pic = x
          \/ ImportBegin(r) /\ req'[r].at = "importing" /\ x \in req'[r].pics
  /\ <<p, x>> \in files \ files' =>
       EraseFiles(r) /\ req[r].who = p /\ req'[r] = [at |-> "wiping", who |-> p]

FaceStep(r, p, x) ==
  /\ <<p, x>> \in faces' \ faces =>
       /\ IndexOne(r) /\ req[r].who = p
       /\ req'[r].at = "indexing" /\ req'[r].who = p /\ x \in req'[r].got
  /\ <<p, x>> \in faces \ faces' =>
       EraseBegin(r) /\ req'[r] = [at |-> "erasing", who |-> p]

LEMMA StoreSteps ==
  ASSUME TypeOK, NEW r \in Requests, Step(r)
  PROVE  /\ files' \subseteq Traces /\ faces' \subseteq Traces
         /\ \A p \in People, x \in Pictures : FileStep(r, p, x) /\ FaceStep(r, p, x)
<1>1. files \subseteq Traces /\ faces \subseteq Traces
  BY DEF TypeOK
<1>2. files' = files => \A p \in People, x \in Pictures : FileStep(r, p, x)
  BY DEF FileStep
<1>3. faces' = faces => \A p \in People, x \in Pictures : FaceStep(r, p, x)
  BY DEF FaceStep
<1>4. ASSUME UploadBegin(r)
      PROVE  files' \subseteq Traces /\ \A p \in People, x \in Pictures : FileStep(r, p, x)
  <2>1. PICK q \in Live, y \in Pictures :
          /\ files' = files \cup {<<q, y>>}
          /\ Becomes(r, [at |-> "uploading", who |-> q, pic |-> y])
    BY <1>4 DEF UploadBegin
  <2>2. req'[r] = [at |-> "uploading", who |-> q, pic |-> y]
    BY <2>1, Others
  <2> QED
    BY <1>1, <1>4, <2>1, <2>2 DEF FileStep, Traces, Live
<1>5. ASSUME ImportBegin(r)
      PROVE  files' \subseteq Traces /\ \A p \in People, x \in Pictures : FileStep(r, p, x)
  <2>1. PICK q \in People, c \in TypedCodes, agreed \in BOOLEAN, pics \in SUBSET Pictures :
          /\ files' = files \cup {<<q, x>> : x \in pics}
          /\ Becomes(r, [at |-> "importing", who |-> q, code |-> c,
                         agreed |-> agreed, pics |-> pics])
    BY <1>5 DEF ImportBegin
  <2>2. req'[r] = [at |-> "importing", who |-> q, code |-> c, agreed |-> agreed, pics |-> pics]
    BY <2>1, Others
  <2> QED
    BY <1>1, <1>5, <2>1, <2>2 DEF FileStep, Traces
<1>6. ASSUME EraseFiles(r)
      PROVE  files' \subseteq Traces /\ \A p \in People, x \in Pictures : FileStep(r, p, x)
  <2>1. PICK kept \in SUBSET SavedOf(req[r].who) :
          files' = files \ {<<req[r].who, x>> : x \in SavedOf(req[r].who) \ kept}
    BY <1>6 DEF EraseFiles
  <2>2. req'[r] = [at |-> "wiping", who |-> req[r].who]
    BY <1>6, Others DEF EraseFiles
  <2> QED
    BY <1>1, <1>6, <2>1, <2>2 DEF FileStep
<1>7. ASSUME IndexOne(r)
      PROVE  faces' \subseteq Traces /\ \A p \in People, x \in Pictures : FaceStep(r, p, x)
  <2>1. req[r] \in Indexing
    BY <1>7, RequestKinds DEF IndexOne
  <2>2. CASE faces' = faces
    BY <1>1, <2>2 DEF FaceStep
  <2>3. ASSUME NEW y \in req[r].todo, faces' = faces \cup {<<req[r].who, y>>},
               Becomes(r, [at |-> "indexing", who |-> req[r].who, todo |-> req[r].todo \ {y},
                           failed |-> req[r].failed, got |-> req[r].got \cup {y},
                           missed |-> req[r].missed])
        PROVE  faces' \subseteq Traces /\ \A p \in People, x \in Pictures : FaceStep(r, p, x)
    <3>1. req'[r] = [at |-> "indexing", who |-> req[r].who, todo |-> req[r].todo \ {y},
                     failed |-> req[r].failed, got |-> req[r].got \cup {y},
                     missed |-> req[r].missed]
      BY <2>3, Others
    <3> QED
      BY <1>1, <1>7, <2>1, <2>3, <3>1 DEF FaceStep, Traces, Indexing
  <2> QED
    BY <1>7, <2>2, <2>3 DEF IndexOne, IndexFace
<1>8. ASSUME EraseBegin(r)
      PROVE  faces' \subseteq Traces /\ \A p \in People, x \in Pictures : FaceStep(r, p, x)
  <2>1. PICK q \in Live : /\ Becomes(r, [at |-> "erasing", who |-> q])
                          /\ faces' = faces \ Recorded(q) \/ faces' = faces
    BY <1>8 DEF EraseBegin, DeleteFaces
  <2>2. req'[r] = [at |-> "erasing", who |-> q]
    BY <2>1, Others
  <2> QED
    BY <1>1, <1>8, <2>1, <2>2 DEF FaceStep, Recorded
<1> QED
  BY <1>1, <1>2, <1>3, <1>4, <1>5, <1>6, <1>7, <1>8, Frames

-----------------------------------------------------------------------------
(* What a request holds after its own step. *)

Begun(r) ==
  /\ req'[r].at \in {"creating", "importing", "ingesting"} =>
       Unused(req'[r].who) /\ person' = person
  /\ req'[r].at = "importing" => \A x \in req'[r].pics : <<req'[r].who, x>> \in files'
  /\ req'[r].at = "uploading" =>
       /\ req'[r].who \in Live /\ person' = person
       /\ <<req'[r].who, req'[r].pic>> \in files'
  /\ req'[r].at = "indexing" =>
       /\ person' = person /\ image' = image
       /\ \/ /\ MayIndex(req'[r].who) /\ req'[r].got = {}
             /\ req'[r].todo \subseteq SavedOf(req'[r].who)
          \/ /\ req[r].at = "indexing" /\ req'[r].who = req[r].who
             /\ req[r].got \subseteq req'[r].got
             /\ req'[r].todo \cup req'[r].got \subseteq req[r].todo \cup req[r].got
             /\ \A x \in req'[r].got : x \in req[r].got \/ <<req[r].who, x>> \in faces'
  /\ req'[r].at = "erasing" => req'[r].who \in Live /\ person' = person
  /\ req'[r].at = "wiping" =>
       req[r].at = "erasing" /\ req'[r].who = req[r].who /\ person' = person
  /\ req'[r].at = "matched" /\ req'[r].who # NoOne => req'[r].face[1] = req'[r].who

LEMMA Beginnings ==
  ASSUME TypeOK, NEW r \in Requests, Step(r)
  PROVE  Begun(r)
<1>1. ASSUME CreateBegin(r) PROVE Begun(r)
  <2>1. PICK q \in Creating : Unused(q.who) /\ Becomes(r, q)
    <3>1. GeneratedCode \in Nat
      BY LiveCounted DEF GeneratedCode
    <3> QED
      BY <1>1, <3>1, ConstantsAssumption DEF CreateBegin, Creating
  <2>2. req'[r] = q /\ person' = person
    BY <1>1, <2>1, Others DEF CreateBegin
  <2> QED
    BY <2>1, <2>2 DEF Begun, Creating
<1>2. ASSUME ImportBegin(r) PROVE Begun(r)
  <2>1. PICK p \in People, c \in TypedCodes, agreed \in BOOLEAN, pics \in SUBSET Pictures :
          /\ Unused(p)
          /\ files' = files \cup {<<p, x>> : x \in pics}
          /\ Becomes(r, [at |-> "importing", who |-> p, code |-> c,
                         agreed |-> agreed, pics |-> pics])
    BY <1>2 DEF ImportBegin
  <2>2. req'[r] = [at |-> "importing", who |-> p, code |-> c, agreed |-> agreed, pics |-> pics]
    BY <2>1, Others
  <2> QED
    BY <1>2, <2>1, <2>2 DEF Begun, ImportBegin
<1>3. ASSUME IngestBegin(r), req'[r].at = "ingesting"
       PROVE  Unused(req'[r].who) /\ person' = person
  <2>1. PICK p \in People, c \in DirectoryCodes, pics \in SUBSET Pictures :
          \/ Becomes(r, [at |-> "adding", who |-> p, code |-> c, pics |-> pics])
          \/ /\ Unused(p)
             /\ Becomes(r, [at |-> "ingesting", who |-> p, code |-> c, pics |-> pics])
    BY <1>3 DEF IngestBegin
  <2>2. \/ req'[r] = [at |-> "adding", who |-> p, code |-> c, pics |-> pics]
        \/ /\ Unused(p)
           /\ req'[r] = [at |-> "ingesting", who |-> p, code |-> c, pics |-> pics]
    BY <2>1, Others
  <2> QED
    BY <1>3, <2>2 DEF IngestBegin
<1>4. ASSUME UploadBegin(r) PROVE Begun(r)
  <2>1. PICK p \in Live, x \in Pictures :
          /\ files' = files \cup {<<p, x>>}
          /\ Becomes(r, [at |-> "uploading", who |-> p, pic |-> x])
    BY <1>4 DEF UploadBegin
  <2>2. req'[r] = [at |-> "uploading", who |-> p, pic |-> x]
    BY <2>1, Others
  <2> QED
    BY <1>4, <2>1, <2>2 DEF Begun, UploadBegin
<1>5. ASSUME IndexBegin(r) PROVE Begun(r)
  <2>1. PICK q \in Indexing : /\ MayIndex(q.who) /\ q.got = {}
                              /\ q.todo \subseteq SavedOf(q.who)
                              /\ Becomes(r, q)
    BY <1>5 DEF IndexBegin, ImagesOf, SavedOf, Indexing
  <2>2. req'[r] = q /\ person' = person /\ image' = image
    BY <1>5, <2>1, Others DEF IndexBegin
  <2> QED
    BY <2>1, <2>2 DEF Begun, Indexing
<1>6. ASSUME IndexOne(r) PROVE Begun(r)
  <2>1. req[r].at = "indexing" /\ person' = person /\ image' = image
    BY <1>6 DEF IndexOne
  <2>2. ASSUME NEW x \in req[r].todo, faces' = faces \cup {<<req[r].who, x>>},
               Becomes(r, [at |-> "indexing", who |-> req[r].who, todo |-> req[r].todo \ {x},
                           failed |-> req[r].failed, got |-> req[r].got \cup {x},
                           missed |-> req[r].missed])
        PROVE  Begun(r)
    <3>1. req'[r] = [at |-> "indexing", who |-> req[r].who, todo |-> req[r].todo \ {x},
                     failed |-> req[r].failed, got |-> req[r].got \cup {x},
                     missed |-> req[r].missed]
      BY <2>2, Others
    <3> QED
      BY <2>1, <2>2, <3>1 DEF Begun
  <2>3. ASSUME NEW x \in req[r].todo,
               Becomes(r, [at |-> "indexing", who |-> req[r].who, todo |-> req[r].todo \ {x},
                           failed |-> req[r].failed, got |-> req[r].got,
                           missed |-> req[r].missed \cup {x}])
        PROVE  Begun(r)
    <3>1. req'[r] = [at |-> "indexing", who |-> req[r].who, todo |-> req[r].todo \ {x},
                     failed |-> req[r].failed, got |-> req[r].got,
                     missed |-> req[r].missed \cup {x}]
      BY <2>3, Others
    <3> QED
      BY <2>1, <3>1 DEF Begun
  <2> QED
    BY <1>6, <2>2, <2>3 DEF IndexOne, IndexFace
<1>7. ASSUME EraseBegin(r) PROVE Begun(r)
  <2>1. PICK p \in Live : Becomes(r, [at |-> "erasing", who |-> p])
    BY <1>7 DEF EraseBegin
  <2>2. req'[r] = [at |-> "erasing", who |-> p] /\ person' = person
    BY <1>7, <2>1, Others DEF EraseBegin
  <2> QED
    BY <2>2 DEF Begun
<1>8. ASSUME EraseFiles(r) PROVE Begun(r)
  <2>1. req'[r] = [at |-> "wiping", who |-> req[r].who] /\ person' = person
    BY <1>8, Others DEF EraseFiles
  <2> QED
    BY <1>8, <2>1 DEF Begun, EraseFiles
<1>9. ASSUME SearchBegin(r) \/ Resolve(r), req'[r].at = "matched", req'[r].who # NoOne
      PROVE  req'[r].face[1] = req'[r].who
  <2>1. Resolve(r)
    <3>1. SUFFICES ASSUME SearchBegin(r) PROVE FALSE
      BY <1>9
    <3>2. PICK f \in SearchFaces :
            Becomes(r, IF f = NoFace THEN [at |-> "matched", who |-> NoOne, face |-> f]
                       ELSE [at |-> "resolving", face |-> f])
      BY <3>1 DEF SearchBegin
    <3> QED
      BY <1>9, <3>2, Others
  <2>2. req'[r] = [at |-> "matched", who |-> Holder(req[r].face), face |-> req[r].face]
    BY <2>1, Others DEF Resolve
  <2> QED
    BY <1>9, <2>2 DEF Holder
<1>10. req'[r].at = "matched" /\ req'[r].who # NoOne => req'[r].face[1] = req'[r].who
  BY <1>9, Places
<1> QED
  BY <1>1, <1>2, <1>3, <1>4, <1>5, <1>6, <1>7, <1>8, <1>10, Places DEF Begun

LEMMA TypeStep ==
  ASSUME TypeOK, EnrolmentsFresh, NEW r \in Requests, Step(r)
  PROVE  TypeOK'
<1>1. person' \in [People -> Person] /\ image' \in [Pictures -> Image \cup {NoImage}]
  BY PersonSteps, ImageSteps
<1>2. files' \subseteq Traces /\ faces' \subseteq Traces
  BY StoreSteps
<1>3. req' \in [Requests -> Doing]
  <2>1. \A s \in Requests : req'[s] \in Doing
    BY Places DEF TypeOK, Doing
  <2>2. \E q : req' = [req EXCEPT ![r] = q]
    BY DEF Step, CreateBegin, CreateCommit, UploadBegin, UploadCommit, ImportBegin, ImportCommit,
       IngestBegin, IngestCommit, IndexBegin, IndexOne, IndexCommit, EraseBegin,
       EraseFiles, EraseCommit, SearchBegin, Resolve, MatchCommit, VerifyBegin, VerifyCommit, CutShort, Becomes, Ends
  <2>3. req' = [s \in Requests |-> req'[s]]
    BY <2>2 DEF TypeOK
  <2> QED
    BY <2>1, <2>3
<1>4. match' \in [Matches -> Match]
  <2>1. match \in [Matches -> Match]
    BY DEF TypeOK
  <2>2. CASE EraseCommit(r)
    BY <2>1, <2>2 DEF EraseCommit, Unnamed, Match
  <2>3. CASE MatchCommit(r)
    <3>1. req[r] \in Matched
      BY <2>3, RequestKinds DEF MatchCommit
    <3>2. NewMatch(req[r].who, req[r].face) \in Match
      BY <3>1 DEF NewMatch, Match, Matched
    <3> QED
      BY <2>1, <2>3, <3>2 DEF MatchCommit
  <2>4. CASE VerifyCommit(r)
    <3>1. req[r] \in Verifying
      BY <2>4, RequestKinds DEF VerifyCommit
    <3>2. ASSUME NEW v \in Verdicts \cup {Pending}
          PROVE  req[r].match \in Matches /\ Judged(req[r], v) \in Match
      <4> DEFINE m == match[req[r].match]
                 status == IF v # req[r].was THEN v ELSE m.status
                 stale == m.status # req[r].was
      <4>1. m \in Match /\ req[r].match \in Matches
        BY <2>1, <3>1 DEF Verifying
      <4>2. status \in Verdicts \cup {Pending} /\ stale \in BOOLEAN
        BY <4>1 DEF Match
      <4>3. \/ Judged(req[r], v) = m
            \/ Judged(req[r], v) = [m EXCEPT !.status = status, !.given = v,
                                             !.stale = stale]
        BY DEF Judged
      <4> HIDE DEF m, status, stale
      <4> QED
        BY <4>1, <4>2, <4>3 DEF Match
    <3> QED
      BY <2>1, <2>4, <3>2 DEF VerifyCommit
  <2> QED
    BY <2>1, <2>2, <2>3, <2>4, Frames
<1>5. spoiled' \subseteq People /\ marred' \subseteq People
  <2>1. spoiled \subseteq People /\ marred \subseteq People
    BY DEF TypeOK
  <2>2. req[r].at \in {"uploading", "indexing", "erasing", "wiping"} => req[r].who \in People
    BY RequestKinds DEF Uploading, Indexing, Erasing
  <2>3. UploadCommit(r) \/ IndexCommit(r) \/ EraseFiles(r) => marred' \subseteq People
    BY <2>1, <2>2 DEF UploadCommit, IndexCommit, EraseFiles
  <2>4. EraseBegin(r) => marred' \subseteq People
    BY <2>1 DEF EraseBegin, Live
  <2>5. CutShort(r) => spoiled' \subseteq People /\ marred' \subseteq People
    BY <2>1, <2>2 DEF CutShort, Erases
  <2> QED
    BY <2>1, <2>3, <2>4, <2>5, Frames
<1> QED
  BY <1>1, <1>2, <1>3, <1>4, <1>5 DEF TypeOK, Doing

-----------------------------------------------------------------------------
(* The rows. *)

LEMMA FreshStep ==
  ASSUME TypeOK, EnrolmentsFresh, NEW r \in Requests, Step(r)
  PROVE  EnrolmentsFresh'
<1>1. \A s \in Requests \ {r} : req'[s] = req[s]
  BY Places
<1>2. \A s \in Requests : Enrols(s) => req[s].who \in People
  BY RequestKinds DEF Enrols, Creating, Importing, Ingesting
<1>3. req'[r].at \in {"creating", "importing", "ingesting"} =>
        /\ req'[r].who \in People /\ Unused(req'[r].who) /\ person' = person
  <2>1. req'[r].at \in {"creating", "importing", "ingesting"} => req'[r].who \in People
    BY Places DEF Doing, Idle, Creating, Importing, Ingesting, Uploading, Indexing, Erasing, Searching,
                  Matched, Verifying
  <2> QED
    BY <2>1, Beginnings DEF Begun
<1>4. ASSUME NEW s \in Requests, Enrols(s)'
      PROVE  /\ person'[req'[s].who].row = "none"
             /\ \A t \in Requests : Enrols(t)' /\ req'[t].who = req'[s].who => t = s
  <2>1. CASE s = r
    BY <1>1, <1>3, <1>4, <2>1 DEF Enrols, Unused
  <2>2. CASE s # r
    <3>1. req'[s] = req[s] /\ Enrols(s)
      BY <1>1, <1>4, <2>2 DEF Enrols
    <3>2. person[req[s].who].row = "none" /\ req[s].who \in People
      BY <1>2, <3>1 DEF EnrolmentsFresh
    <3>3. person'[req[s].who] = person[req[s].who]
      <4>1. PersonStep(r, req[s].who)
        BY <3>2, PersonSteps
      <4> QED
        BY <2>2, <3>1, <3>2, <4>1 DEF PersonStep, EnrolmentsFresh
    <3>4. \A t \in Requests : Enrols(t)' /\ req'[t].who = req'[s].who => t = s
      BY <1>1, <1>3, <2>2, <3>1 DEF Enrols, Unused, EnrolmentsFresh
    <3> QED
      BY <3>1, <3>2, <3>3, <3>4
  <2> QED
    BY <2>1, <2>2
<1> QED
  BY <1>4 DEF EnrolmentsFresh

\* A row that was live or erased stays so, with its consent.
LEMMA Standing ==
  ASSUME TypeOK, EnrolmentsFresh, NEW r \in Requests, Step(r), NEW p \in People
  PROVE  /\ person[p].row # "none" => person'[p].row # "none" /\ person'[p].agreed = person[p].agreed
         /\ person[p].row \in {"live", "gone"} => person'[p].row \in {"live", "gone"}
         /\ person[p].row = "gone" => person'[p] = person[p]
         /\ person[p].row = "lost" => person'[p] = person[p]
         /\ person[p].row = "live" =>
              person'[p] = person[p] \/ (EraseCommit(r) /\ p = req[r].who)
         /\ person'[p].row = "gone" =>
              person[p].row = "gone" \/ (req[r].at = "wiping" /\ p = req[r].who)
<1>1. PersonStep(r, p)
  BY PersonSteps
<1>2. EraseCommit(r) => req[r].at = "wiping"
  BY DEF EraseCommit
<1>3. CASE person'[p] = person[p]
  BY <1>3
<1>4. CASE person[p].row = "none" /\ person'[p].row \in {"live", "lost"}
  BY <1>4
<1>5. CASE /\ EraseCommit(r) /\ p = req[r].who
           /\ person[p].row = "live" /\ person'[p].row = "gone"
           /\ person'[p].agreed = person[p].agreed
  BY <1>2, <1>5
<1> QED
  BY <1>1, <1>3, <1>4, <1>5 DEF PersonStep

LEMMA HandledStep ==
  ASSUME TypeOK, EnrolmentsFresh, HandledKnown, NEW r \in Requests, Step(r)
  PROVE  HandledKnown'
<1> DEFINE Known(s) ==
      /\ req[s].at \in {"uploading", "erasing", "wiping"} =>
           person[req[s].who].row \in {"live", "gone"}
      /\ req[s].at = "indexing" =>
           person[req[s].who].row \in {"live", "gone"} /\ person[req[s].who].agreed
<1>1. ASSUME NEW s \in Requests \ {r} PROVE Known(s)'
  <2>1. req'[s] = req[s] /\ Known(s)
    BY Places DEF HandledKnown
  <2>2. req[s].at \in {"uploading", "erasing", "wiping", "indexing"} => req[s].who \in People
    BY RequestKinds DEF Uploading, Erasing, Indexing
  <2> QED
    BY <2>1, <2>2, Standing
<1>2. Known(r)'
  BY Beginnings DEF Begun, HandledKnown, MayIndex, Live
<1> QED
  BY <1>1, <1>2 DEF HandledKnown

LEMMA OwnersStep ==
  ASSUME TypeOK, Rows, NEW r \in Requests, Step(r)
  PROVE  OwnersLive' /\ IndexedHasFace'
<1>1. IndexedHasFace'
  <2> DEFINE Faced(i) == /\ i.status = "INDEXED" /\ i.saved => i.face
                         /\ i.face => i.saved
  <2>1. ASSUME NEW x \in Pictures PROVE Faced(image'[x])
    <3>1. Faced(image[x]) /\ ImageStep(r, x)
      BY ImageSteps DEF Rows, IndexedHasFace
    <3>2. CASE \/ image'[x] = image[x]
               \/ image'[x] = NewImage(req[r].who)
               \/ ~image'[x].face /\ ~image'[x].saved
               \/ image'[x] = NoImage
      BY <3>1, <3>2 DEF NewImage, NoImage
    <3>3. CASE /\ IndexCommit(r) /\ image[x].owner = req[r].who /\ x \in req[r].got
               /\ image'[x].saved = image[x].saved /\ image'[x].face
      <4>1. req[r] \in Indexing
        BY <3>3, RequestKinds DEF IndexCommit
      <4>2. image[x].owner \in Live
        BY <3>3, <4>1, ConstantsAssumption DEF Rows, OwnersLive, Indexing
      <4>3. image[x].saved
        BY <3>3, <4>1, <4>2 DEF Rows, IndexingSaved, Indexing, Live
      <4> QED
        BY <3>3, <4>3
    <3>4. CASE /\ image'[x].saved = image[x].saved /\ image'[x].face = image[x].face
               /\ image'[x].status = "FAILED"
      BY <3>1, <3>4
    <3> HIDE DEF Faced
    <3> QED
      BY <3>1, <3>2, <3>3, <3>4 DEF ImageStep
  <2> QED
    BY <2>1 DEF IndexedHasFace
<1>2. ASSUME NEW x \in Pictures, image'[x].owner # NoOne
      PROVE  image'[x].owner \in People /\ person'[image'[x].owner].row = "live"
  <2>1. image'[x].owner \in People
    BY <1>2, ImageSteps DEF Image, NoImage
  <2>2. ImageStep(r, x)
    BY ImageSteps
  <2>3. CASE image'[x].owner = image[x].owner
    <3> DEFINE p == image[x].owner
    <3>1. p \in People /\ person[p].row = "live"
      BY <1>2, <2>3 DEF Rows, OwnersLive, Live
    <3>2. ~(EraseCommit(r) /\ p = req[r].who)
      <4>1. SUFFICES ASSUME EraseCommit(r), p = req[r].who PROVE FALSE
        OBVIOUS
      <4>2. image' = [y \in Pictures |-> IF image[y].owner = p THEN NoImage ELSE image[y]]
        BY <3>1, <4>1 DEF EraseCommit, Live
      <4> QED
        BY <1>2, <2>3, <4>2 DEF NoImage
    <3> QED
      BY <2>3, <3>1, <3>2, Standing DEF Rows
  <2>4. CASE image'[x].owner # image[x].owner /\ image'[x].owner = req[r].who /\ UploadCommit(r)
             /\ req[r].who \in Live
    BY <2>4 DEF UploadCommit, Live
  <2>5. CASE ImportCommit(r) /\ x \in req[r].pics /\ image[x] = NoImage
             /\ image'[x].owner = req[r].who /\ image'[x] # image[x]
    <3>1. person' = Enrolled(req[r].who, req[r].code, TRUE, req[r].agreed)
      BY <2>5 DEF ImportCommit
    <3> QED
      BY <2>1, <2>5, <3>1 DEF Enrolled, TypeOK
  <2>6. CASE image'[x].owner = req[r].who /\ person'[req[r].who].row = "live"
    BY <2>1, <2>6
  <2> QED
    BY <1>2, <2>2, <2>3, <2>4, <2>5, <2>6 DEF ImageStep, NoImage, NewImage
<1> QED
  BY <1>1, <1>2 DEF OwnersLive, Live

LEMMA SavedStep ==
  ASSUME TypeOK, Rows, NEW r \in Requests, Step(r)
  PROVE  IndexingSaved'
<1> SUFFICES ASSUME NEW s \in Requests, req'[s].at = "indexing",
                    NEW x \in req'[s].todo \cup req'[s].got, NEW p, p = req'[s].who
             PROVE  \/ image'[x].owner = p /\ image'[x].saved
                    \/ person'[p].row = "gone"
  BY DEF IndexingSaved
<1>1. CASE s = r
  <2>1. /\ person' = person /\ image' = image
        /\ \/ MayIndex(p) /\ req'[r].got = {} /\ req'[r].todo \subseteq SavedOf(p)
           \/ /\ req[r].at = "indexing" /\ p = req[r].who
              /\ req'[r].todo \cup req'[r].got \subseteq req[r].todo \cup req[r].got
    BY <1>1, Beginnings DEF Begun
  <2> QED
    BY <1>1, <2>1 DEF SavedOf, ImagesOf, Rows, IndexingSaved
<1>2. CASE s # r
  <2>1. req'[s] = req[s]
    BY <1>2, Places
  <2>2. req[s] \in Indexing /\ p \in People /\ x \in Pictures /\ p # NoOne
    BY <2>1, RequestKinds, ConstantsAssumption DEF Indexing
  <2>3. CASE person[p].row = "gone"
    BY <2>2, <2>3, Standing DEF Rows
  <2>4. CASE image[x].owner = p /\ image[x].saved
    <3>1. ImageStep(r, x) /\ image[x] # NoImage
      BY <2>2, <2>4, ImageSteps DEF NoImage
    <3>2. CASE image'[x] = image[x] \/ (image'[x].owner = p /\ image'[x].saved)
      BY <2>4, <3>2
    <3>3. CASE EraseCommit(r) /\ p = req[r].who
      <4>1. p \in Live
        BY <2>2, <2>4 DEF Rows, OwnersLive
      <4> QED
        BY <2>2, <3>3, <4>1 DEF EraseCommit, TypeOK
    <3> QED
      BY <2>4, <3>1, <3>2, <3>3 DEF ImageStep
  <2> QED
    BY <2>1, <2>3, <2>4 DEF Rows, IndexingSaved
<1> QED
  BY <1>1, <1>2

-----------------------------------------------------------------------------
(* What is stored. *)

\* How a request leaves a place.
LEMMA Departures ==
  ASSUME NEW r \in Requests, Step(r)
  PROVE  /\ req[r].at = "uploading" => UploadCommit(r) \/ CutShort(r)
         /\ req[r].at = "importing" => ImportCommit(r) \/ CutShort(r)
         /\ req[r].at = "indexing" => IndexOne(r) \/ IndexCommit(r) \/ CutShort(r)
         /\ req[r].at = "erasing" => EraseFiles(r) \/ CutShort(r)
         /\ req[r].at = "wiping" => EraseCommit(r) \/ CutShort(r)
<1>1. CreateBegin(r) \/ UploadBegin(r) \/ ImportBegin(r) \/ IngestBegin(r) \/ IndexBegin(r)
        \/ EraseBegin(r) \/ SearchBegin(r) \/ VerifyBegin(r) => req[r].at = "idle"
  BY DEF CreateBegin, UploadBegin, ImportBegin, IngestBegin, IndexBegin, EraseBegin, SearchBegin,
         VerifyBegin, Idle
<1>2. /\ UploadCommit(r) => req[r].at = "uploading"
      /\ ImportCommit(r) => req[r].at = "importing"
      /\ IndexOne(r) \/ IndexCommit(r) => req[r].at = "indexing"
      /\ EraseFiles(r) => req[r].at = "erasing"
      /\ EraseCommit(r) => req[r].at = "wiping"
      /\ CreateCommit(r) \/ IngestCommit(r) \/ Resolve(r) \/ MatchCommit(r) \/ VerifyCommit(r) =>
           req[r].at \in {"creating", "ingesting", "adding", "resolving", "matched", "verifying"}
  BY DEF CreateCommit, UploadCommit, ImportCommit, IngestCommit, IndexOne, IndexCommit, EraseFiles,
         EraseCommit, Resolve, MatchCommit, VerifyCommit
<1> QED
  BY <1>1, <1>2 DEF Step

\* An erasure that ends has erased, was cut short, or found its work done.
LEMMA ExcusedStays ==
  ASSUME TypeOK, Rows, NEW r \in Requests, Step(r), NEW p \in People, Excused(p)
  PROVE  Excused(p)'
<1>1. CASE p \in spoiled
  BY <1>1, Frames DEF CutShort, Excused
<1>2. CASE person[p].row = "gone"
  BY <1>2, Standing DEF Excused, Rows
<1>3. ASSUME NEW s \in Requests, Erases(s), req[s].who = p
      PROVE  Excused(p)'
  <2>1. CASE s # r
    <3>1. req'[s] = req[s]
      BY <2>1, Places
    <3> QED
      BY <1>3, <3>1 DEF Excused, UnderErasure, Erases
  <2>2. CASE s = r /\ EraseFiles(r)
    <3>1. req'[r] = [at |-> "wiping", who |-> p]
      BY <1>3, <2>2, Others DEF EraseFiles
    <3> QED
      BY <3>1 DEF Excused, UnderErasure, Erases
  <2>3. CASE s = r /\ CutShort(r)
    BY <1>3, <2>3 DEF CutShort, Excused
  <2>4. CASE s = r /\ EraseCommit(r)
    <3>1. person[p].row \in {"live", "gone"}
      BY <1>3, <2>4 DEF Rows, HandledKnown, Erases
    <3>2. CASE p \in Live
      BY <1>3, <2>4, <3>2 DEF EraseCommit, Excused, TypeOK
    <3>3. CASE p \notin Live
      BY <1>2, <3>1, <3>3 DEF Live
    <3> QED
      BY <3>2, <3>3
  <2>5. s = r => EraseFiles(r) \/ CutShort(r) \/ EraseCommit(r)
    BY <1>3, Departures DEF Erases
  <2> QED
    BY <2>1, <2>2, <2>3, <2>4, <2>5
<1> QED
  BY <1>1, <1>2, <1>3 DEF Excused, UnderErasure

\* A file or a face is removed by an erasure that is under way.
LEMMA Removals ==
  ASSUME TypeOK, NEW r \in Requests, Step(r), NEW p \in People, NEW x \in Pictures
  PROVE  /\ <<p, x>> \in files \ files' =>
              req[r].at = "erasing" /\ req[r].who = p /\ UnderErasure(p)'
         /\ <<p, x>> \in faces \ faces' => UnderErasure(p)'
<1>1. FileStep(r, p, x) /\ FaceStep(r, p, x)
  BY StoreSteps
<1>2. EraseFiles(r) => req[r].at = "erasing"
  BY DEF EraseFiles
<1> QED
  BY <1>1, <1>2 DEF FileStep, FaceStep, UnderErasure, Erases

LEMMA InFlightStep ==
  ASSUME TypeOK, Rows, InFlightStored, NEW r \in Requests, Step(r)
  PROVE  InFlightStored'
<1>1. \A s \in Requests \ {r} : req'[s] = req[s]
  BY Places
<1>2. ASSUME NEW s \in Requests, req'[s].at = "uploading", NEW p, p = req'[s].who
      PROVE  <<p, req'[s].pic>> \in files' \/ Excused(p)'
  <2>1. CASE s = r
    BY <1>2, <2>1, Beginnings DEF Begun
  <2>2. CASE s # r
    <3>1. req'[s] = req[s] /\ p \in People /\ req[s].pic \in Pictures
      BY <1>1, <1>2, <2>2, RequestKinds DEF Uploading
    <3>2. CASE Excused(p)
      BY <3>1, <3>2, ExcusedStays
    <3>3. CASE <<p, req[s].pic>> \in files
      BY <3>1, <3>3, Removals DEF Excused
    <3> QED
      BY <1>2, <3>1, <3>2, <3>3 DEF InFlightStored
  <2> QED
    BY <2>1, <2>2
<1>3. ASSUME NEW s \in Requests, req'[s].at = "importing", NEW x \in req'[s].pics
      PROVE  <<req'[s].who, x>> \in files'
  <2>1. CASE s = r
    BY <1>3, <2>1, Beginnings DEF Begun
  <2>2. CASE s # r
    <3>1. req'[s] = req[s] /\ req[s].who \in People /\ x \in Pictures
      BY <1>1, <1>3, <2>2, RequestKinds DEF Importing
    <3>2. person[req[s].who].row = "none"
      BY <1>3, <3>1 DEF Rows, EnrolmentsFresh, Enrols
    <3>3. ~(req[r].at = "erasing" /\ req[r].who = req[s].who)
      BY <3>2 DEF Rows, HandledKnown
    <3>4. <<req[s].who, x>> \in files
      BY <1>3, <3>1 DEF InFlightStored
    <3> QED
      BY <3>1, <3>3, <3>4, Removals
  <2> QED
    BY <2>1, <2>2
<1>4. ASSUME NEW s \in Requests, req'[s].at = "indexing", NEW x \in req'[s].got,
             NEW p, p = req'[s].who
      PROVE  <<p, x>> \in faces' \/ Excused(p)'
  <2>1. ASSUME req[s].at = "indexing", p = req[s].who, x \in req[s].got
        PROVE  <<p, x>> \in faces' \/ Excused(p)'
    <3>1. p \in People /\ x \in Pictures
      BY <2>1, RequestKinds DEF Indexing
    <3>2. CASE Excused(p)
      BY <3>1, <3>2, ExcusedStays
    <3>3. CASE <<p, x>> \in faces
      BY <3>1, <3>3, Removals DEF Excused
    <3> QED
      BY <2>1, <3>2, <3>3 DEF InFlightStored
  <2>2. CASE s = r
    BY <1>4, <2>1, <2>2, Beginnings DEF Begun
  <2>3. CASE s # r
    BY <1>1, <1>4, <2>1, <2>3
  <2> QED
    BY <2>2, <2>3
<1> QED
  BY <1>2, <1>3, <1>4 DEF InFlightStored

LEMMA RecordedStep ==
  ASSUME TypeOK, Rows, InFlightStored, RecordedIsStored, NEW r \in Requests, Step(r)
  PROVE  RecordedIsStored'
<1> SUFFICES ASSUME NEW x \in Pictures, NEW p, p = image'[x].owner, p # NoOne,
                    p \notin spoiled', ~UnderErasure(p)'
             PROVE  /\ image'[x].saved => <<p, x>> \in files'
                    /\ image'[x].face => <<p, x>> \in faces'
                    /\ image'[x].saved /\ image'[x].status = "INDEXED" => image'[x].face
                    /\ ~image'[x].saved => ~image'[x].face
  BY DEF RecordedIsStored
<1>1. p \in People /\ ~Excused(p)
  <2>1. p \in Live' /\ p \in People
    BY OwnersStep DEF OwnersLive, Live
  <2>2. ~Excused(p)'
    BY <2>1 DEF Excused, Live
  <2> QED
    BY <2>1, <2>2, ExcusedStays
<1>2. /\ <<p, x>> \in files => <<p, x>> \in files'
      /\ <<p, x>> \in faces => <<p, x>> \in faces'
  BY <1>1, Removals
<1>3. /\ image'[x].saved /\ image'[x].status = "INDEXED" => image'[x].face
      /\ image'[x].face => image'[x].saved
  BY OwnersStep DEF IndexedHasFace
<1>4. image[x].owner = p =>
        /\ image[x].saved => <<p, x>> \in files
        /\ image[x].face => <<p, x>> \in faces
  BY <1>1 DEF RecordedIsStored, Excused
<1>5. ImageStep(r, x)
  BY ImageSteps
<1>6. CASE image'[x] = image[x]
  BY <1>2, <1>3, <1>4, <1>6
<1>7. CASE UploadCommit(r) /\ x = req[r].pic /\ image'[x] = NewImage(req[r].who)
  <2>1. req[r].at = "uploading"
    BY <1>7 DEF UploadCommit
  <2>2. p = req[r].who /\ ~image'[x].face
    BY <1>7 DEF NewImage
  <2> QED
    BY <1>1, <1>2, <1>3, <1>7, <2>1, <2>2 DEF InFlightStored
<1>8. CASE ImportCommit(r) /\ x \in req[r].pics /\ image'[x] = NewImage(req[r].who)
  <2>1. req[r].at = "importing"
    BY <1>8 DEF ImportCommit
  <2>2. p = req[r].who /\ ~image'[x].face
    BY <1>8 DEF NewImage
  <2>3. <<p, x>> \in files
    BY <1>8, <2>1, <2>2 DEF InFlightStored
  <2> QED
    BY <1>2, <1>3, <2>2, <2>3
<1>9. CASE ~image'[x].face /\ ~image'[x].saved
  BY <1>9
<1>10. CASE /\ IndexCommit(r) /\ image[x].owner = req[r].who /\ x \in req[r].got
            /\ image'[x].owner = image[x].owner /\ image'[x].saved = image[x].saved
  <2>1. req[r].at = "indexing"
    BY <1>10 DEF IndexCommit
  <2>2. p = req[r].who /\ image[x].owner = p
    BY <1>10
  <2>3. <<p, x>> \in faces
    BY <1>1, <1>10, <2>1, <2>2 DEF InFlightStored
  <2> QED
    BY <1>2, <1>3, <1>4, <1>10, <2>2, <2>3
<1>11. CASE /\ image'[x].owner = image[x].owner /\ image'[x].saved = image[x].saved
            /\ image'[x].face = image[x].face
  BY <1>2, <1>3, <1>4, <1>11
<1>12. image'[x] # NoImage
  BY DEF NoImage
<1> QED
  BY <1>5, <1>6, <1>7, <1>8, <1>9, <1>10, <1>11, <1>12, Zenon DEF ImageStep

LEMMA MarredGrows ==
  ASSUME NEW r \in Requests, Step(r)
  PROVE  marred \subseteq marred'
BY Frames DEF UploadCommit, IndexCommit, EraseBegin, EraseFiles, CutShort

\* An upload that ends has recorded its image, or left a trace.
LEMMA UploadEnds ==
  ASSUME TypeOK, NEW r \in Requests, Step(r), NEW p \in People, NEW x \in Pictures,
         InUpload(p, x)
  PROVE  \/ InUpload(p, x)' \/ p \in marred'
         \/ image'[x].owner = p /\ image'[x].saved /\ p \in Live /\ ~UnderErasure(p)
<1>1. PICK s \in Requests : req[s].at = "uploading" /\ req[s].who = p /\ req[s].pic = x
  BY DEF InUpload
<1>2. CASE s # r
  <2>1. req'[s] = req[s]
    BY <1>2, Places
  <2> QED
    BY <1>1, <2>1 DEF InUpload
<1>3. CASE s = r /\ CutShort(r)
  BY <1>1, <1>3 DEF CutShort
<1>4. CASE s = r /\ UploadCommit(r)
  <2>1. CASE p \in Live /\ image[x] = NoImage /\ ~UnderErasure(p)
    <3>1. image' = [image EXCEPT ![x] = NewImage(p)]
      BY <1>1, <1>4, <2>1 DEF UploadCommit
    <3>2. image'[x].owner = p /\ image'[x].saved
      BY <3>1 DEF TypeOK, NewImage
    <3> QED
      BY <2>1, <3>2
  <2>2. CASE ~(p \in Live /\ image[x] = NoImage) \/ UnderErasure(p)
    BY <1>1, <1>4, <2>2 DEF UploadCommit
  <2> QED
    BY <2>1, <2>2
<1> QED
  BY <1>1, <1>2, <1>3, <1>4, Departures

LEMMA IndexEnds ==
  ASSUME TypeOK, Rows, NEW r \in Requests, Step(r), NEW p \in People, NEW x \in Pictures,
         InIndex(p, x)
  PROVE  \/ InIndex(p, x)' \/ p \in marred'
         \/ image'[x].owner = p /\ image'[x].face /\ p \in Live /\ ~UnderErasure(p)
<1>1. PICK s \in Requests : req[s].at = "indexing" /\ req[s].who = p /\ x \in req[s].got
  BY DEF InIndex
<1>2. CASE s # r
  <2>1. req'[s] = req[s]
    BY <1>2, Places
  <2> QED
    BY <1>1, <2>1 DEF InIndex
<1>3. CASE s = r /\ CutShort(r)
  BY <1>1, <1>3 DEF CutShort
<1>4. CASE s = r /\ IndexOne(r)
  <2>1. req'[r].at = "indexing"
    BY <1>4, Others DEF IndexOne
  <2>2. req[r].got \subseteq req'[r].got /\ req'[r].who = p
    BY <1>1, <1>4, Others DEF IndexOne
  <2> QED
    BY <1>1, <1>4, <2>1, <2>2 DEF InIndex
<1>5. CASE s = r /\ IndexCommit(r)
  <2> DEFINE fits == req[r].got \cup req[r].missed \subseteq ImagesOf(p)
  <2>1. CASE fits /\ ~UnderErasure(p)
    <3>1. image' = [y \in Pictures |-> Indexed(r, y)]
      BY <1>1, <1>5, <2>1 DEF IndexCommit
    <3>2. image[x].owner = p /\ p # NoOne
      BY <1>1, <1>5, <2>1, ConstantsAssumption DEF ImagesOf
    <3>3. image[x] \in Image
      BY <3>2 DEF TypeOK, NoImage
    <3>4. image'[x] = [image[x] EXCEPT !.status = "INDEXED", !.face = TRUE]
      BY <1>1, <1>5, <3>1, Zenon DEF Indexed
    <3>5. image'[x].owner = p /\ image'[x].face
      BY <3>2, <3>3, <3>4 DEF Image
    <3> QED
      BY <2>1, <3>2, <3>5 DEF Rows, OwnersLive
  <2>2. CASE ~fits \/ UnderErasure(p)
    BY <1>1, <1>5, <2>2 DEF IndexCommit
  <2> QED
    BY <2>1, <2>2
<1> QED
  BY <1>1, <1>2, <1>3, <1>4, <1>5, Departures

LEMMA ImportEnds ==
  ASSUME TypeOK, EnrolmentsFresh, NEW r \in Requests, Step(r), NEW p \in People,
         NEW x \in Pictures, InImport(p, x)
  PROVE  \/ InImport(p, x)' \/ person'[p].row = "lost"
         \/ image'[x].owner = p /\ image'[x].saved
<1>1. PICK s \in Requests : req[s].at = "importing" /\ req[s].who = p /\ x \in req[s].pics
  BY DEF InImport
<1>2. CASE s # r
  <2>1. req'[s] = req[s]
    BY <1>2, Places
  <2> QED
    BY <1>1, <2>1 DEF InImport
<1>3. Lost(r) = person' /\ s = r => person'[p].row = "lost"
  <2>1. SUFFICES ASSUME s = r, person' = [person EXCEPT ![p].row = "lost"]
                 PROVE  person'[p].row = "lost"
    BY <1>1 DEF Lost
  <2> QED
    BY <2>1 DEF TypeOK, Person
<1>4. CASE s = r /\ CutShort(r)
  BY <1>1, <1>3, <1>4 DEF CutShort
<1>5. CASE s = r /\ ImportCommit(r)
  <2>1. CASE ImportFits(r)
    <3>1. image' = [y \in Pictures |-> IF y \in req[r].pics THEN NewImage(p) ELSE image[y]]
      BY <1>1, <1>5, <2>1 DEF ImportCommit
    <3>2. image'[x] = NewImage(p)
      BY <1>1, <1>5, <3>1
    <3> QED
      BY <3>2 DEF NewImage
  <2>2. CASE ~ImportFits(r)
    BY <1>3, <1>5, <2>2 DEF ImportCommit
  <2> QED
    BY <2>1, <2>2
<1> QED
  BY <1>1, <1>2, <1>4, <1>5, Departures

LEMMA KnownStep ==
  ASSUME TypeOK, Rows, StoredKnown, ErasureClears, NEW r \in Requests, Step(r)
  PROVE  StoredKnown'
<1> SUFFICES ASSUME NEW p \in People, NEW x \in Pictures
             PROVE  /\ <<p, x>> \in files' =>
                         \/ image'[x].owner = p /\ image'[x].saved
                         \/ InUpload(p, x)' \/ InImport(p, x)'
                         \/ p \in marred' \/ person'[p].row = "lost"
                    /\ <<p, x>> \in faces' =>
                         \/ image'[x].owner = p /\ image'[x].face
                         \/ InIndex(p, x)' \/ p \in marred'
  BY DEF StoredKnown
<1>1. p # NoOne
  BY ConstantsAssumption
<1>2. ImageStep(r, x)
  BY ImageSteps
<1>3. ASSUME image[x].owner = p
      PROVE  \/ /\ image'[x].owner = p /\ image'[x].saved = image[x].saved
                /\ image[x].face => image'[x].face
             \/ EraseCommit(r) /\ req[r].who = p
  <2>1. image[x] # NoImage
    BY <1>1, <1>3 DEF NoImage
  <2>2. CASE image'[x] = image[x]
    BY <1>3, <2>2
  <2>3. CASE /\ image'[x].owner = image[x].owner /\ image'[x].saved = image[x].saved
             /\ image'[x].face \/ image'[x].face = image[x].face
    BY <1>3, <2>3
  <2>4. CASE EraseCommit(r) /\ image[x].owner = req[r].who
    BY <1>3, <2>4
  <2> QED
    BY <1>2, <2>1, <2>2, <2>3, <2>4, Zenon DEF ImageStep
<1>4. EraseCommit(r) /\ req[r].who = p => req[r].at = "wiping" /\ UnderErasure(p)
  BY DEF EraseCommit, UnderErasure, Erases
<1>5. ASSUME <<p, x>> \in files'
      PROVE  \/ image'[x].owner = p /\ image'[x].saved
             \/ InUpload(p, x)' \/ InImport(p, x)'
             \/ p \in marred' \/ person'[p].row = "lost"
  <2>1. CASE <<p, x>> \notin files
    <3>1. /\ req'[r].who = p
          /\ \/ req'[r].at = "uploading" /\ req'[r].pic = x
             \/ req'[r].at = "importing" /\ x \in req'[r].pics
      <4>1. FileStep(r, p, x)
        BY StoreSteps
      <4> QED
        BY <1>5, <2>1, <4>1 DEF FileStep
    <3> QED
      BY <3>1 DEF InUpload, InImport
  <2>2. CASE InUpload(p, x)
    BY <2>2, UploadEnds
  <2>3. CASE InImport(p, x)
    BY <2>3, ImportEnds DEF Rows
  <2>4. CASE p \in marred
    BY <2>4, MarredGrows
  <2>5. CASE person[p].row = "lost"
    BY <2>5, Standing DEF Rows
  <2>6. CASE <<p, x>> \in files /\ image[x].owner = p /\ image[x].saved
    <3>1. EraseCommit(r) /\ req[r].who = p => InUpload(p, x) \/ p \in marred
      BY <1>4, <2>6 DEF ErasureClears
    <3> QED
      BY <1>3, <2>2, <2>4, <2>6, <3>1
  <2> QED
    BY <2>1, <2>2, <2>3, <2>4, <2>5, <2>6 DEF StoredKnown
<1>6. ASSUME <<p, x>> \in faces'
      PROVE  \/ image'[x].owner = p /\ image'[x].face
             \/ InIndex(p, x)' \/ p \in marred'
  <2>1. CASE <<p, x>> \notin faces
    BY <1>6, <2>1, StoreSteps DEF FaceStep, InIndex
  <2>2. CASE InIndex(p, x)
    BY <2>2, IndexEnds
  <2>3. CASE p \in marred
    BY <2>3, MarredGrows
  <2>4. CASE <<p, x>> \in faces /\ image[x].owner = p /\ image[x].face
    <3>1. EraseCommit(r) /\ req[r].who = p => InIndex(p, x) \/ p \in marred
      BY <1>4, <2>4 DEF ErasureClears
    <3> QED
      BY <1>3, <2>2, <2>3, <2>4, <3>1
  <2> QED
    BY <2>1, <2>2, <2>3, <2>4 DEF StoredKnown
<1> QED
  BY <1>5, <1>6

LEMMA ClearsStep ==
  ASSUME TypeOK, Rows, StoredKnown, ErasureClears, NEW r \in Requests, Step(r)
  PROVE  ErasureClears'
<1> DEFINE Wiping(p) == \E s \in Requests : req[s].at = "wiping" /\ req[s].who = p
           FilesDone(p) == person[p].row = "gone" \/ Wiping(p)
           FacesDone(p) == person[p].row = "gone" \/ UnderErasure(p)
<1> SUFFICES ASSUME NEW p \in People, NEW x \in Pictures
             PROVE  /\ FilesDone(p)' /\ <<p, x>> \in files' => InUpload(p, x)' \/ p \in marred'
                    /\ FacesDone(p)' /\ <<p, x>> \in faces' => InIndex(p, x)' \/ p \in marred'
  BY DEF ErasureClears
<1>1. /\ FileStep(r, p, x) /\ FaceStep(r, p, x)
      /\ \A s \in Requests \ {r} : req'[s] = req[s]
  BY StoreSteps, Places
<1>2. Wiping(p) => person[p].row \in {"live", "gone"}
  BY DEF Rows, HandledKnown
<1>3. UnderErasure(p) => person[p].row \in {"live", "gone"}
  BY DEF Rows, HandledKnown, UnderErasure, Erases
<1>4. FilesDone(p)' => FilesDone(p) \/ (EraseFiles(r) /\ req[r].who = p)
  <2>1. CASE person'[p].row = "gone"
    BY <2>1, Standing DEF Rows
  <2>2. ASSUME NEW s \in Requests, req'[s].at = "wiping", req'[s].who = p
        PROVE  FilesDone(p) \/ (EraseFiles(r) /\ req[r].who = p)
    <3>1. CASE s # r
      BY <1>1, <2>2, <3>1
    <3>2. CASE s = r
      BY <2>2, <3>2, Places, Beginnings DEF Begun
    <3> QED
      BY <3>1, <3>2
  <2> QED
    BY <2>1, <2>2
<1>5. FacesDone(p)' => FacesDone(p) \/ (EraseBegin(r) /\ req'[r].who = p)
  <2>1. CASE person'[p].row = "gone"
    BY <2>1, Standing DEF Rows, UnderErasure, Erases
  <2>2. ASSUME NEW s \in Requests, Erases(s)', req'[s].who = p
        PROVE  FacesDone(p) \/ (EraseBegin(r) /\ req'[r].who = p)
    <3>1. CASE s # r
      BY <1>1, <2>2, <3>1 DEF UnderErasure, Erases
    <3>2. CASE s = r
      BY <2>2, <3>2, Places, Beginnings DEF Begun, UnderErasure, Erases
    <3> QED
      BY <3>1, <3>2
  <2> QED
    BY <2>1, <2>2 DEF UnderErasure
<1>6. ASSUME FilesDone(p), <<p, x>> \in files'
      PROVE  InUpload(p, x)' \/ p \in marred'
  <2>1. CASE <<p, x>> \in files
    <3>1. InUpload(p, x) \/ p \in marred
      BY <1>6, <2>1 DEF ErasureClears
    <3>2. p \in Live => UnderErasure(p)
      BY <1>6 DEF Live, UnderErasure, Erases
    <3> QED
      BY <3>1, <3>2, UploadEnds, MarredGrows
  <2>2. CASE <<p, x>> \notin files
    <3>1. ~(ImportBegin(r) /\ req'[r].at = "importing" /\ req'[r].who = p)
      BY <1>2, <1>6, Beginnings DEF Begun, Unused
    <3> QED
      BY <1>1, <1>6, <2>2, <3>1 DEF FileStep, InUpload
  <2> QED
    BY <2>1, <2>2
<1>7. ASSUME EraseFiles(r), req[r].who = p, ~FilesDone(p), <<p, x>> \in files'
      PROVE  InUpload(p, x)' \/ p \in marred'
  <2>1. PICK kept \in SUBSET SavedOf(p) :
          /\ files' = files \ {<<p, y>> : y \in SavedOf(p) \ kept}
          /\ marred' = IF kept = {} THEN marred ELSE marred \cup {p}
    BY <1>7 DEF EraseFiles
  <2>2. <<p, x>> \in files
    BY <1>7, <2>1
  <2>3. image[x].owner = p /\ image[x].saved => p \in marred'
    BY <1>7, <2>1 DEF SavedOf, ImagesOf
  <2>4. person[p].row = "live"
    BY <1>7 DEF Rows, HandledKnown, EraseFiles
  <2>5. ~InImport(p, x)
    BY <2>4 DEF InImport, Rows, EnrolmentsFresh, Enrols
  <2>6. UnderErasure(p)
    BY <1>7 DEF UnderErasure, Erases, EraseFiles
  <2> QED
    BY <2>2, <2>3, <2>4, <2>5, <2>6, UploadEnds, MarredGrows DEF StoredKnown
<1>8. ASSUME FacesDone(p), <<p, x>> \in faces'
      PROVE  InIndex(p, x)' \/ p \in marred'
  <2>1. CASE <<p, x>> \in faces
    <3>1. InIndex(p, x) \/ p \in marred
      BY <1>8, <2>1 DEF ErasureClears
    <3>2. p \in Live => UnderErasure(p)
      BY <1>8 DEF Live
    <3> QED
      BY <3>1, <3>2, IndexEnds, MarredGrows
  <2>2. CASE <<p, x>> \notin faces
    BY <1>1, <1>8, <2>2 DEF FaceStep, InIndex
  <2> QED
    BY <2>1, <2>2
<1>9. ASSUME EraseBegin(r), req'[r].who = p, <<p, x>> \in faces'
      PROVE  InIndex(p, x)' \/ p \in marred'
  <2>1. PICK q \in Live : /\ Becomes(r, [at |-> "erasing", who |-> q])
                          /\ \/ faces' = faces \ Recorded(q)
                             \/ faces' = faces /\ marred' = marred \cup {q}
    BY <1>9 DEF EraseBegin, DeleteFaces
  <2>2. q = p
    BY <1>9, <2>1, Others
  <2>3. <<p, x>> \in faces
    BY <1>9, <2>1
  <2>4. image[x].owner = p /\ image[x].face => p \in marred'
    BY <1>9, <2>1, <2>2 DEF Recorded, ImagesOf
  <2>5. InIndex(p, x) => InIndex(p, x)'
    BY <1>1, <1>9 DEF InIndex, EraseBegin, Idle
  <2> QED
    BY <2>3, <2>4, <2>5, MarredGrows DEF StoredKnown
<1> HIDE DEF FilesDone, FacesDone
<1> QED
  BY <1>4, <1>5, <1>6, <1>7, <1>8, <1>9

-----------------------------------------------------------------------------
(* Consent, matches and codes. *)

LEMMA ConsentStep ==
  ASSUME TypeOK, Rows, OnlyConsentedIndexed, NEW r \in Requests, Step(r)
  PROVE  OnlyConsentedIndexed'
<1> SUFFICES ASSUME NEW f \in faces'
             PROVE  person'[f[1]].row # "none" /\ person'[f[1]].agreed
  BY DEF OnlyConsentedIndexed
<1>1. PICK p \in People, x \in Pictures : f = <<p, x>>
  BY StoreSteps DEF Traces
<1>2. person[p].row # "none" /\ person[p].agreed
  <2>1. CASE f \in faces
    BY <1>1, <2>1 DEF OnlyConsentedIndexed
  <2>2. CASE f \notin faces
    <3>1. req[r].at = "indexing" /\ req[r].who = p
      BY <1>1, <2>2, StoreSteps DEF FaceStep, IndexOne
    <3> QED
      BY <3>1 DEF Rows, HandledKnown
  <2> QED
    BY <2>1, <2>2
<1> QED
  BY <1>1, <1>2, Standing DEF Rows

LEMMA MatchesStep ==
  ASSUME TypeOK, Rows, SearchesNamed, MatchStands, NEW r \in Requests, Step(r)
  PROVE  SearchesNamed' /\ MatchStands'
<1>1. SearchesNamed'
  BY Places, Beginnings DEF Begun, SearchesNamed
<1> DEFINE Stands(m) ==
      /\ m.who # NoOne => m.who \in Live /\ m.face[1] = m.who
      /\ m.status = m.given \/ m.stale
<1>2. \A m \in Matches : Stands(match[m])
  BY DEF MatchStands
<1>3. \A p \in Live : p \in Live' \/ (EraseCommit(r) /\ p = req[r].who)
  BY Standing DEF Live, Rows
<1>4. ASSUME NEW m \in Matches PROVE Stands(match[m])'
  <2>1. CASE EraseCommit(r)
    <3>1. CASE req[r].who \in Live
      <4>1. match'[m] = Unnamed(m, req[r].who)
        BY <2>1, <3>1, Zenon DEF EraseCommit
      <4>2. CASE match[m].who = req[r].who
        <5>1. match'[m].who = NoOne /\ match'[m].status = match[m].status
              /\ match'[m].given = match[m].given /\ match'[m].stale = match[m].stale
          BY <4>1, <4>2 DEF Unnamed, TypeOK, Match
        <5> QED
          BY <1>2, <5>1
      <4>3. CASE match[m].who # req[r].who
        <5>1. match'[m] = match[m]
          BY <4>1, <4>3 DEF Unnamed
        <5> QED
          BY <1>2, <1>3, <4>3, <5>1
      <4> QED
        BY <4>2, <4>3
    <3>2. CASE req[r].who \notin Live
      <4>1. match' = match /\ person' = person
        BY <2>1, <3>2 DEF EraseCommit
      <4> QED
        BY <1>2, <4>1 DEF Live
    <3> QED
      BY <3>1, <3>2
  <2>2. CASE ~EraseCommit(r) /\ match'[m] = match[m]
    BY <1>2, <1>3, <2>2
  <2>3. CASE MatchCommit(r) /\ match'[m] # match[m]
    <3>1. /\ req[r].at = "matched" /\ req[r].who \in Live \cup {NoOne}
          /\ person' = person
      BY <2>3 DEF MatchCommit
    <3>2. match'[m] = NewMatch(req[r].who, req[r].face)
      BY <2>3 DEF MatchCommit, TypeOK
    <3>3. req[r].who # NoOne => req[r].face[1] = req[r].who
      BY <3>1 DEF SearchesNamed
    <3> QED
      BY <3>1, <3>2, <3>3 DEF NewMatch, Live
  <2>4. CASE VerifyCommit(r) /\ match'[m] # match[m]
    <3>1. PICK v \in Verdicts \cup {Pending} :
            m = req[r].match /\ match'[m] = Judged(req[r], v) /\ person' = person
      BY <2>4 DEF VerifyCommit, TypeOK
    <3>2. v # Pending
      BY <2>4, <3>1 DEF Judged
    <3>3. /\ match'[m].who = match[m].who /\ match'[m].face = match[m].face
          /\ match'[m].given = v
          /\ match'[m].stale = (match[m].status # req[r].was)
          /\ match'[m].status = IF v # req[r].was THEN v ELSE match[m].status
      BY <3>1, <3>2 DEF Judged, TypeOK, Match
    <3>4. match'[m].status = match'[m].given \/ match'[m].stale
      BY <3>3
    <3> QED
      BY <1>2, <3>1, <3>3, <3>4 DEF Live
  <2>5. match' = match \/ EraseCommit(r) \/ MatchCommit(r) \/ VerifyCommit(r)
    BY Frames
  <2>6. ~(EraseCommit(r) /\ (MatchCommit(r) \/ VerifyCommit(r)))
    BY DEF EraseCommit, MatchCommit, VerifyCommit
  <2> HIDE DEF Stands
  <2> QED
    BY <2>1, <2>2, <2>3, <2>4, <2>5, <2>6
<1> QED
  BY <1>1, <1>4 DEF MatchStands

LEMMA CodesStep ==
  ASSUME TypeOK, Rows, CodesCounted, NEW r \in Requests, Step(r)
  PROVE  CodesCounted'
<1> SUFFICES ASSUME \A p \in People : person'[p].row # "gone",
                    \A p \in Live' : ~person'[p].typed
             PROVE  /\ \A p \in Live' : person'[p].code <= Cardinality(Live')
                    /\ \A s \in Requests :
                         req'[s].at = "creating" /\ ~req'[s].typed =>
                           req'[s].code <= Cardinality(Live') + 1
  BY DEF CodesCounted, GeneratedCode
<1>1. /\ \A p \in People : PersonStep(r, p)
      /\ \A p \in People : person[p].row \in {"none", "live", "gone", "lost"}
      /\ \A p \in People : person[p].code \in Nat
  BY PersonSteps DEF Rows, TypeOK, Person
<1>2. \A p \in Live : p \in Live' /\ person'[p] = person[p]
  BY <1>1, Standing DEF Rows, Live, PersonStep
<1>3. /\ \A p \in Live : person[p].code <= Cardinality(Live)
      /\ \A s \in Requests : req[s].at = "creating" /\ ~req[s].typed =>
           req[s].code <= Cardinality(Live) + 1
  <2>1. \A p \in People : person[p].row # "gone"
    BY Standing DEF Rows
  <2>2. \A p \in Live : ~person[p].typed
    BY <1>2
  <2> QED
    BY <2>1, <2>2 DEF CodesCounted, GeneratedCode
<1>4. \A s \in Requests : req[s].at = "creating" => req[s].code \in Nat
  BY RequestKinds DEF Creating
<1>5. Cardinality(Live) \in Nat
  BY LiveCounted
<1>6. CASE Live' = Live
  <2>1. \A s \in Requests \ {r} : req'[s] = req[s]
    BY Places
  <2>2. ASSUME CreateBegin(r), ~req'[r].typed PROVE req'[r].code <= Cardinality(Live) + 1
    <3>1. PICK p \in People :
            \/ Becomes(r, [at |-> "creating", who |-> p, code |-> GeneratedCode,
                           typed |-> FALSE])
            \/ \E c \in TypedCodes :
                 Becomes(r, [at |-> "creating", who |-> p, code |-> c, typed |-> TRUE])
      BY <2>2 DEF CreateBegin
    <3>2. req'[r].code = GeneratedCode
      <4> DEFINE made == [at |-> "creating", who |-> p, code |-> GeneratedCode,
                          typed |-> FALSE]
                 named(c) == [at |-> "creating", who |-> p, code |-> c, typed |-> TRUE]
      <4>1. Becomes(r, made) => req'[r] = made
        BY Others
      <4>2. \A c \in TypedCodes : Becomes(r, named(c)) => req'[r] = named(c)
        BY Others
      <4>3. made.code = GeneratedCode /\ \A c \in TypedCodes : named(c).typed
        OBVIOUS
      <4>4. Becomes(r, made) \/ \E c \in TypedCodes : Becomes(r, named(c))
        BY <3>1
      <4> HIDE DEF made, named
      <4> QED
        BY <2>2, <4>1, <4>2, <4>3, <4>4
    <3> QED
      BY <1>5, <3>2 DEF GeneratedCode
  <2> QED
    BY <1>2, <1>3, <1>6, <2>1, <2>2, Places
<1>7. ASSUME NEW p \in Live', p \notin Live
      PROVE  /\ \A q \in Live' : person'[q].code <= Cardinality(Live')
             /\ \A s \in Requests :
                  req'[s].at = "creating" /\ ~req'[s].typed =>
                    req'[s].code <= Cardinality(Live') + 1
  <2>1. p \in People /\ person'[p].row = "live" /\ person[p].row # "live"
    BY <1>7 DEF Live
  <2>2. /\ Enrols(r) /\ p = req[r].who /\ req'[r] = Idle
        /\ person'[p].code = req[r].code
        /\ person'[p].typed = (IF req[r].at = "creating" THEN req[r].typed ELSE TRUE)
    BY <1>1, <2>1 DEF PersonStep
  <2>3. req[r].at = "creating" /\ ~req[r].typed
    BY <1>7, <2>2
  <2>4. Live' = Live \cup {p}
    <3>1. \A q \in Live' : q \in Live \/ q = p
      <4>1. SUFFICES ASSUME NEW q \in People, person'[q].row = "live", person[q].row # "live"
                     PROVE  q = p
        BY DEF Live
      <4> QED
        BY <1>1, <2>2, <4>1 DEF PersonStep
    <3> QED
      BY <1>2, <1>7, <3>1
  <2>5. Cardinality(Live') = Cardinality(Live) + 1
    BY <1>7, <2>4, LiveCounted, FS_AddElement
  <2>6. \A q \in Live' : person'[q].code <= Cardinality(Live')
    <3>1. person'[p].code <= Cardinality(Live')
      BY <1>3, <2>2, <2>3, <2>5
    <3>2. \A q \in Live : person'[q].code <= Cardinality(Live')
      <4>1. \A q \in Live : person[q].code \in Nat
        BY <1>1 DEF Live
      <4> QED
        BY <1>2, <1>3, <1>5, <2>5, <4>1
    <3> QED
      BY <2>4, <3>1, <3>2
  <2>7. \A s \in Requests :
          req'[s].at = "creating" /\ ~req'[s].typed => req'[s].code <= Cardinality(Live') + 1
    <3>1. ASSUME NEW s \in Requests, req'[s].at = "creating", ~req'[s].typed
          PROVE  req'[s].code <= Cardinality(Live') + 1
      <4>1. s # r /\ req'[s] = req[s]
        BY <2>2, <3>1, Places DEF Idle
      <4>2. req[s].code \in Nat /\ req[s].code <= Cardinality(Live) + 1
        BY <1>3, <1>4, <3>1, <4>1
      <4> QED
        BY <1>5, <2>5, <4>1, <4>2
    <3> QED
      BY <3>1
  <2> QED
    BY <2>6, <2>7
<1> QED
  BY <1>2, <1>6, <1>7

-----------------------------------------------------------------------------
(* The theorems. *)

\* The invariant holds initially and is kept by every step of every request,
\* whichever of its actions the request takes and wherever it is cut short.
THEOREM Invariance == Spec => []IInv
<1>1. Init => IInv
  <2> SUFFICES ASSUME Init PROVE IInv
    OBVIOUS
  <2>1. \A r \in Requests : req[r].at = "idle"
    BY DEF Init, Idle
  <2>2. TypeOK
    BY DEF Init, TypeOK, Person, Nobody, NoImage, Match, NoMatch, NewMatch, NoFace
  <2>3. Rows
    BY <2>1 DEF Init, Rows, EnrolmentsFresh, HandledKnown, OwnersLive, IndexedHasFace,
       IndexingSaved, Enrols, NoImage
  <2>4. Stores
    BY <2>1 DEF Init, Stores, InFlightStored, RecordedIsStored, StoredKnown, ErasureClears,
       NoImage
  <2>5. OnlyConsentedIndexed /\ SearchesNamed /\ MatchStands
    BY <2>1 DEF Init, OnlyConsentedIndexed, SearchesNamed, MatchStands, NoMatch, NewMatch
  <2>6. CodesCounted
    <3>1. Live = {}
      BY DEF Init, Live, Nobody
    <3> QED
      BY <2>1, <3>1 DEF CodesCounted
  <2> QED
    BY <2>2, <2>3, <2>4, <2>5, <2>6 DEF IInv
<1>2. IInv /\ [Next]_vars => IInv'
  <2> SUFFICES ASSUME IInv, [Next]_vars PROVE IInv'
    OBVIOUS
  <2>1. CASE UNCHANGED vars
    BY <2>1 DEF vars, outside, history, IInv, TypeOK, Rows, EnrolmentsFresh, HandledKnown,
       OwnersLive, IndexedHasFace, IndexingSaved, Stores, InFlightStored, RecordedIsStored, StoredKnown,
       ErasureClears, OnlyConsentedIndexed, SearchesNamed, MatchStands, CodesCounted, Live,
       GeneratedCode, Enrols, Excused, UnderErasure, Erases, InUpload, InImport, InIndex
  <2>2. ASSUME NEW r \in Requests, Step(r) PROVE IInv'
    <3>1. /\ TypeOK /\ Rows /\ EnrolmentsFresh /\ HandledKnown
          /\ InFlightStored /\ RecordedIsStored /\ StoredKnown /\ ErasureClears
          /\ OnlyConsentedIndexed /\ SearchesNamed /\ MatchStands /\ CodesCounted
      BY DEF IInv, Rows, Stores
    <3>2. TypeOK'
      BY <2>2, <3>1, TypeStep
    <3>3. Rows'
      BY <2>2, <3>1, FreshStep, HandledStep, OwnersStep, SavedStep DEF Rows
    <3>4. Stores'
      BY <2>2, <3>1, InFlightStep, RecordedStep, KnownStep, ClearsStep DEF Stores
    <3>5. OnlyConsentedIndexed' /\ SearchesNamed' /\ MatchStands' /\ CodesCounted'
      BY <2>2, <3>1, ConsentStep, MatchesStep, CodesStep
    <3> QED
      BY <3>2, <3>3, <3>4, <3>5 DEF IInv
  <2> QED
    BY <2>1, <2>2 DEF Next
<1> QED
  BY <1>1, <1>2, PTL DEF Spec

\* Every variable stays in its range, for any number of people and pictures.
THEOREM TypeCorrect == Spec => []TypeOK
<1>1. IInv => TypeOK
  BY DEF IInv
<1> QED
  BY <1>1, Invariance, PTL

\* Nobody's face is in the AWS collection without consent, however indexing,
\* imports and erasures overlap.
THEOREM OnlyConsented == Spec => []OnlyConsentedIndexed
<1>1. IInv => OnlyConsentedIndexed
  BY DEF IInv
<1> QED
  BY <1>1, Invariance, PTL

\* Of an erased participant no file and no face is left, save for refusals of AWS
\* or the disk and for requests that overlapped with the erasure.
THEOREM Erasure == Spec => []ErasureComplete
<1>1. IInv => ErasureComplete
  BY IInvImplies
<1> QED
  BY <1>1, Invariance, PTL

\* What rows say is stored is stored, while no erasure is under way or was cut
\* short; the rows of ingested directories name no stored file and no face.
THEOREM RecordsBacked == Spec => []RecordedIsStored
<1>1. IInv => RecordedIsStored
  BY DEF IInv, Stores
<1> QED
  BY <1>1, Invariance, PTL

\* A match names a participant who is there and whose face was found, and bears
\* the last verdict that decides, unless that was given on a stale status.
THEOREM MatchesStand == Spec => []MatchStands
<1>1. IInv => MatchStands
  BY DEF IInv
<1> QED
  BY <1>1, Invariance, PTL

\* A made-up code is taken only after an erasure, beside a typed code, or when
\* another enrolment was committed since the count.
THEOREM Codes == Spec => []GeneratedCodeFree
<1>1. IInv => GeneratedCodeFree
  BY IInvImplies
<1> QED
  BY <1>1, Invariance, PTL

=============================================================================
