--------------------------- MODULE CustodyLedger ---------------------------
(***************************************************************************)
(* What a chain of custody promises, without sessions, files or statuses:  *)
(* a ledger whose entries are never removed or relinked.  An entry is a    *)
(* root, or continues an entry of the ledger: it has the next sequence     *)
(* number and points at a digest that entry has carried.  An entry may be  *)
(* resealed, which adds to the digests it has carried.                     *)
(***************************************************************************)
EXTENDS Integers

CONSTANT Root   \* what the first entry of a chain points at

VARIABLES
  ledger,       \* entry -> its place: sequence number and hash pointer
  carried       \* entry -> the digests it has had

lvars == <<ledger, carried>>

Init ==
  /\ ledger = <<>>
  /\ carried = <<>>

Place(p) ==
  \/ p.seq = 1 /\ p.prev = Root
  \/ \E j \in DOMAIN ledger :
       p.seq = ledger[j].seq + 1 /\ p.prev \in carried[j]

\* A new entry takes a place that the ledger offers.  (The successor state is
\* named by its primed variables: the digests come from an infinite set.)
Admit ==
  \E n \in DOMAIN ledger' \ DOMAIN ledger :
    /\ Place(ledger'[n])
    /\ ledger' = [i \in DOMAIN ledger \cup {n} |->
                    IF i = n THEN ledger'[n] ELSE ledger[i]]
    /\ \E d \in carried'[n] :
         carried' = [i \in DOMAIN ledger \cup {n} |->
                       IF i = n THEN {d} ELSE carried[i]]

\* The evidence of an entry is captured again; its place stays.
Reseal ==
  \E i \in DOMAIN ledger : \E d \in carried'[i] :
    /\ carried' = [carried EXCEPT ![i] = @ \cup {d}]
    /\ UNCHANGED ledger

Next == Admit \/ Reseal

Spec == Init /\ [][Next]_lvars
=============================================================================
