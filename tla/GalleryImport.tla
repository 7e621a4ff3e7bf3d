----------------------------- MODULE GalleryImport -----------------------------
(***************************************************************************)
(* The script that puts a directory of face images into the vector index.  *)
(* It goes through the folders in an order that is the same in every run,  *)
(* skips an image whose content it has seen, and after a folder it may     *)
(* save what it has seen and counted in a checkpoint file, from which the  *)
(* next run resumes.  A run can be killed at any step, also while it       *)
(* writes the checkpoint, which then cannot be read.  Every vector gets a   *)
(* new identifier, so an image that is embedded twice is in the index twice.*)
(***************************************************************************)
EXTENDS Integers, Sequences, FiniteSets, VectorIndex

CONSTANTS
  Images,    \* the images of the directory
  Order,     \* these, in the order in which the script takes them
  Closing,   \* positions in Order where a folder ends
  Content,   \* for each image its content, as told apart by SHA-256
  Fit,       \* contents in which one good face is found
  MaxImports \* bound: runs of the script

ASSUME ImportAssumption ==
  /\ Order \in Seq(Images)
  /\ Closing \subseteq 1..Len(Order)
  /\ DOMAIN Content = Images
  /\ "script" \in Processes
  /\ MaxImports \in Nat
  /\ (1..MaxImports) \X Images \subseteq Vectors

VARIABLES
  import,      \* the run: its place in the directory, what it has seen and counted
  imports,     \* number of runs so far
  checkpoint,  \* the checkpoint file
  troubled,    \* history: images that a run could not read or embed
  lost         \* history: contents that a run had indexed and not saved when it ended

importVars == <<index, import, imports, checkpoint, troubled, lost>>

-----------------------------------------------------------------------------
Contents == {Content[f] : f \in Images}

Over   == [at |-> "over"]
Blank  == [seen |-> {}, processed |-> 0]
None   == [file |-> "missing"]
Torn   == [file |-> "torn"]

ImportInit ==
  /\ IndexInit
  /\ import = Over
  /\ imports = 0
  /\ checkpoint = None
  /\ troubled = {}
  /\ lost = {}

Running == import # Over
File == Order[import.place]

\* What a run knows, apart from where it is.
Knows(r) == [seen |-> r.seen, processed |-> r.processed]

Goes(at, place, known) ==
  import' = [at |-> at, place |-> place, seen |-> known.seen,
          processed |-> known.processed]

-----------------------------------------------------------------------------
Legible == checkpoint \notin {None, Torn}

\* Seeded fault: the counts are restored, but not what has been seen.
ResumedUnseeing == IF Legible THEN [checkpoint EXCEPT !.seen = {}] ELSE Blank

\* What can be read of the checkpoint; otherwise the run starts afresh.
Resumed == IF Legible THEN checkpoint ELSE Blank

Start ==
  /\ import = Over
  /\ imports < MaxImports
  /\ imports' = imports + 1
  /\ Goes("reading", 1, Resumed)
  /\ UNCHANGED <<index, checkpoint, troubled, lost>>

\* The image is counted, and set aside if it cannot be read, if it has been seen
\* or if it has no good face.
Read ==
  /\ import.at = "reading"
  /\ import.place <= Len(Order)
  /\ LET known == [Knows(import) EXCEPT !.processed = @ + 1]
         noted == [known EXCEPT !.seen = @ \cup {Content[File]}]
     IN \/ /\ troubled' = troubled \cup {File}
           /\ Goes("done", import.place, known)
        \/ /\ Content[File] \in import.seen
           /\ Goes("done", import.place, known)
           /\ UNCHANGED troubled
        \/ /\ Content[File] \notin import.seen
           /\ Goes(IF Content[File] \in Fit THEN "embedding" ELSE "done",
                   import.place, noted)
           /\ UNCHANGED troubled
  /\ UNCHANGED <<index, imports, checkpoint, lost>>

\* The vector is written under a new identifier, or the image cannot be embedded.
Embed ==
  /\ import.at = "embedding"
  /\ \/ /\ Upsert("script", <<imports, File>>)
        /\ Goes("done", import.place, Knows(import))
        /\ UNCHANGED troubled
     \/ /\ troubled' = troubled \cup {File}
        /\ Goes("done", import.place, Knows(import))
        /\ UNCHANGED index
  /\ UNCHANGED <<imports, checkpoint, lost>>

\* Seeded fault: a checkpoint may be due while an image is being embedded.
WhileEmbedding == import.at = "embedding" \/ (import.at = "done" /\ import.place \in Closing)

FolderDone == import.at = "done" /\ import.place \in Closing

\* Half a minute has passed since the last checkpoint, or all images of the
\* directory have been counted.  Opening the file empties it.
SaveBegin ==
  /\ FolderDone
  /\ checkpoint' = Torn
  /\ import' = [import EXCEPT !.at = "saving"]
  /\ UNCHANGED <<index, imports, troubled, lost>>

Snapshot == Knows(import)

SaveEnd ==
  /\ import.at = "saving"
  /\ checkpoint' = Snapshot
  /\ import' = [import EXCEPT !.at = "saved"]
  /\ UNCHANGED <<index, imports, troubled, lost>>

\* On to the next image.  A directory that has been counted to the last image
\* has been saved first.
Advance ==
  /\ \/ import.at = "saved"
     \/ import.at = "done" /\ (import.place \in Closing => import.processed # Len(Order))
  /\ Goes("reading", import.place + 1, Knows(import))
  /\ UNCHANGED <<index, imports, checkpoint, troubled, lost>>

\* Contents with a vector in Qdrant.
Indexed == {Content[v[2]] : v \in qdrant}

\* The process ends, and with it what it kept in memory.
Exits ==
  /\ import' = Over
  /\ Forget("script")
  /\ lost' = lost \cup (Indexed \ (IF Legible THEN checkpoint.seen ELSE {}))
  /\ UNCHANGED <<imports, checkpoint, troubled>>

Finish ==
  /\ import.at = "reading"
  /\ import.place > Len(Order)
  /\ Exits

Killed ==
  /\ Running
  /\ Exits

-----------------------------------------------------------------------------
ImportNext == Start \/ Read \/ Embed \/ SaveBegin \/ SaveEnd \/ Advance \/ Finish \/ Killed

ImportSpec == ImportInit /\ [][ImportNext]_importVars

-----------------------------------------------------------------------------
(* Properties. *)

\* A resumed run passes over no image that is not in the index: of each content
\* that a checkpoint has as seen, an image is in Qdrant, or went into the memory
\* of a run, or could not be embedded, or it has no good face.
NothingSkipped ==
  Legible =>
    \A c \in checkpoint.seen \cap Fit :
      \/ c \in Indexed
      \/ \E v \in strayed : Content[v[2]] = c
      \/ \E f \in troubled : Content[f] = c

\* A content is in the index twice only if a run ended between the writing of its
\* vector and a checkpoint, or in the middle of a checkpoint.
TwiceOnlyIfLost ==
  \A v, w \in qdrant : v # w /\ Content[v[2]] = Content[w[2]] => Content[v[2]] \in lost

==============================================================================
