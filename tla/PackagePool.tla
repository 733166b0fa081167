----------------------------- MODULE PackagePool -----------------------------
(***************************************************************************)
(* What the server promises about key packages: every device has a pool of   *)
(* packages nobody has claimed, a claim takes one out of it for good, and     *)
(* the claimant is told of that one for as long as it is reserved.  Owners,   *)
(* batches, ages and rows are out of sight.  KeyPackages implements this.     *)
(***************************************************************************)
EXTENDS Integers, FiniteSets

CONSTANTS Devices, Packages, Claimants, NoOne, MaxPackages
VARIABLES
  pool,      \* pool[d]: the packages of d that are free
  reserved,  \* reserved[d][c]: what of d is reserved for c
  answer     \* answer[c][d]: what c was last told of d, or NoOne

Init == /\ pool = [d \in Devices |-> {}]
        /\ reserved = [d \in Devices |-> [c \in Claimants |-> {}]]
        /\ answer = [c \in Claimants |-> [d \in Devices |-> NoOne]]

(* The packages that somebody may already have of device d. *)
Known(d) == pool[d] \cup UNION {reserved[d][c] : c \in Claimants}

(* A device adds packages that no device has, as many as the limit allows.    *)
Uploaded(d) == /\ pool[d] \subseteq pool'[d]
               /\ Cardinality(pool'[d]) <= MaxPackages
               /\ \A e \in Devices : (pool'[d] \ pool[d]) \cap Known(e) = {}
               /\ reserved'[d] = reserved[d]

(* Whoever has nothing of the device gets one package, once. *)
Claimed(d, c) == /\ reserved[d][c] = {}
                 /\ \E p \in pool[d] :
                      /\ pool'[d] = pool[d] \ {p}
                      /\ reserved'[d] = [reserved[d] EXCEPT ![c] = {p}]

(* What is reserved is forgotten some day; what is free is not. *)
Expired(d) == /\ pool'[d] = pool[d]
              /\ \A c \in Claimants : reserved'[d][c] \in {reserved[d][c], {}}

DeviceStep(d) == Uploaded(d) \/ Expired(d) \/ \E c \in Claimants : Claimed(d, c)

(* An answer is what is reserved, or nothing if there is nothing to have.     *)
Told(c, d) == /\ reserved[d][c] \subseteq reserved'[d][c]
              /\ IF answer'[c][d] = NoOne
                 THEN reserved'[d][c] = {} /\ pool'[d] = {}
                 ELSE reserved'[d][c] = {answer'[c][d]}

(* One call may concern several devices; not every answer is new. *)
Next == /\ pool' \in [Devices -> SUBSET Packages]
        /\ reserved' \in [Devices -> [Claimants -> SUBSET Packages]]
        /\ answer' \in [Claimants -> [Devices -> Packages \cup {NoOne}]]
        /\ \A d \in Devices :
             /\ DeviceStep(d)
             /\ \A c \in Claimants : answer'[c][d] = answer[c][d] \/ Told(c, d)

Spec == Init /\ [][Next]_<<pool, reserved, answer>>
=============================================================================
