----------------------------- MODULE VectorIndex ------------------------------
(***************************************************************************)
(* The vector index as the processes of the program see it.  A process     *)
(* finds out once whether it can reach Qdrant, at its first call, and acts *)
(* on that until it ends.  A vector that cannot be written to Qdrant goes  *)
(* into the memory of the process, and the caller is told that all went    *)
(* well.                                                                   *)
(***************************************************************************)
EXTENDS Naturals

CONSTANTS
  Processes,  \* processes that use the index
  Vectors     \* identifiers of vectors

VARIABLES
  qdrant,  \* vectors in the Qdrant collections
  memory,  \* vectors in the memory of each process
  link,    \* what each process has found out about Qdrant
  strayed  \* history: vectors that went into a memory

index == <<qdrant, memory, link, strayed>>

IndexOK ==
  /\ qdrant \subseteq Vectors
  /\ memory \in [Processes -> SUBSET Vectors]
  /\ link \in [Processes -> {"unknown", "up", "down"}]
  /\ strayed \subseteq Vectors

IndexInit ==
  /\ qdrant = {}
  /\ memory = [p \in Processes |-> {}]
  /\ link = [p \in Processes |-> "unknown"]
  /\ strayed = {}

\* The client of a process, after the first call has looked for Qdrant.
Connects(p, found) ==
  /\ found \in {"up", "down"}
  /\ link[p] # "unknown" => found = link[p]
  /\ link' = [link EXCEPT ![p] = found]

\* The call of a connected process may still fail.
Upsert(p, v) ==
  \/ /\ Connects(p, "up")
     /\ qdrant' = qdrant \cup {v}
     /\ UNCHANGED <<memory, strayed>>
  \/ /\ Connects(p, "up") \/ Connects(p, "down")
     /\ memory' = [memory EXCEPT ![p] = @ \cup {v}]
     /\ strayed' = strayed \cup {v}
     /\ UNCHANGED qdrant

\* The process ends, and the next one of its kind starts anew.
Forget(p) ==
  /\ memory' = [memory EXCEPT ![p] = {}]
  /\ link' = [link EXCEPT ![p] = "unknown"]
  /\ UNCHANGED <<qdrant, strayed>>

==============================================================================
