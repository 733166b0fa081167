----------------------------- MODULE KeyPackages -----------------------------
(***************************************************************************)
(* Devices and their one-time key packages (storage.py register_device,     *)
(* add_key_packages, claim_device_packages; api.py /v1/devices,             *)
(* /v1/key-packages, /v1/devices/lookup and /v1/federation/devices).        *)
(*                                                                         *)
(* A device uploads batches of packages; whoever wants to write to it        *)
(* claims one.  A claim comes from a local account or, through the other    *)
(* server, from one of its accounts; its answer may be lost, and then the    *)
(* claimant asks again.  Every call is one transaction.                     *)
(***************************************************************************)
EXTENDS Integers, FiniteSets

CONSTANTS
  Accounts, Devices, Packages, Claimants,
  MaxDevices,   \* devices an account may enrol, 32
  MaxPackages   \* packages a device may have unclaimed, 100

NoOne == "no one"

ASSUME PackageAssumption ==
  /\ NoOne \notin Accounts \cup Devices \cup Packages \cup Claimants
  /\ IsFiniteSet(Packages) /\ IsFiniteSet(Devices)
  /\ MaxDevices \in Nat /\ MaxPackages \in Nat

VARIABLES
  owner,    \* devices.account_id, or NoOne
  device,   \* key_packages.device_id, or NoOne: no row
  by,       \* key_packages.claimed_by, or NoOne
  aged,     \* claimed rows older than MESSAGE_TTL_SECONDS
  given,    \* history: who was given a package since it was last stored
  held      \* history: the package a claimant was last given for a device

vars == <<owner, device, by, aged, given, held>>

Rows(d) == {p \in Packages : device[p] = d}
FreeOrNot(d) == Rows(d)    \* forgets claimed_by IS NULL
Free(d) == {p \in Rows(d) : by[p] = NoOne}
Reserved(d, c) == {p \in Rows(d) : by[p] = c}
Owned(a) == {d \in Devices : owner[d] = a}

(* register_device: enrolling again with the same key changes nothing.      *)
RegisterDevice(a, d) ==
  /\ owner[d] = NoOne
  /\ Cardinality(Owned(a)) < MaxDevices
  /\ owner' = [owner EXCEPT ![d] = a]
  /\ UNCHANGED <<device, by, aged, given, held>>

(* add_key_packages: the limit counts the whole batch, packages that are     *)
(* there already included; one foreign package rolls the batch back.        *)
(* FitsOne looks whether there is room for one.                             *)
FitsOne(d, batch) == Cardinality(Free(d)) < MaxPackages
Fits(d, batch) == Cardinality(Free(d)) + Cardinality(batch) <= MaxPackages

AddKeyPackages(a, d, batch) ==
  LET new == {p \in batch : device[p] = NoOne}
  IN /\ owner[d] = a
     /\ batch # {}
     /\ Fits(d, batch)
     /\ \A p \in batch : device[p] \in {d, NoOne}
     /\ device' = [p \in Packages |-> IF p \in new THEN d ELSE device[p]]
     /\ given' = [p \in Packages |-> IF p \in new THEN {} ELSE given[p]]
     /\ UNCHANGED <<owner, by, aged, held>>

(* claim_device_packages: for each device of the account, the package the   *)
(* claimant has reserved already, or else an unclaimed one, or else none.   *)
(* ChoicesAnew does not look for a reserved one.                            *)
ChoicesAnew(d, c) == IF Free(d) # {} THEN Free(d) ELSE {NoOne}
Choices(d, c) ==
  IF Reserved(d, c) # {} THEN Reserved(d, c)
  ELSE IF Free(d) # {} THEN Free(d) ELSE {NoOne}

ClaimDevicePackages(a, c, chosen) ==
  LET got == {chosen[d] : d \in Owned(a)} \ {NoOne}
  IN /\ Owned(a) # {}
     /\ \A d \in Owned(a) : chosen[d] \in Choices(d, c)
     /\ by' = [p \in Packages |-> IF p \in got /\ by[p] = NoOne THEN c ELSE by[p]]
     /\ given' = [p \in Packages |-> IF p \in got THEN given[p] \cup {c} ELSE given[p]]
     /\ held' = [held EXCEPT ![c] =
                   [d \in Devices |-> IF d \in Owned(a) THEN chosen[d] ELSE held[c][d]]]
     /\ UNCHANGED <<owner, device, aged>>

(* The clock passes MESSAGE_TTL_SECONDS after a claim. *)
Age(p) ==
  /\ by[p] # NoOne /\ p \notin aged
  /\ aged' = aged \cup {p}
  /\ UNCHANGED <<owner, device, by, given, held>>

(* The package part of _cleanup_expired_locked, which every message         *)
(* operation runs.  CleanupByCreation goes by created_at, so that packages   *)
(* uploaded long ago go as soon as they are claimed.                        *)
CleanupByCreation ==
  /\ \E p \in Packages : by[p] # NoOne
  /\ device' = [p \in Packages |-> IF by[p] # NoOne THEN NoOne ELSE device[p]]
  /\ by' = [p \in Packages |-> NoOne]
  /\ aged' = {}
  /\ UNCHANGED <<owner, given, held>>

Cleanup ==
  /\ aged # {}
  /\ device' = [p \in Packages |-> IF p \in aged THEN NoOne ELSE device[p]]
  /\ by' = [p \in Packages |-> IF p \in aged THEN NoOne ELSE by[p]]
  /\ aged' = {}
  /\ UNCHANGED <<owner, given, held>>

Init ==
  /\ owner = [d \in Devices |-> NoOne]
  /\ device = [p \in Packages |-> NoOne]
  /\ by = [p \in Packages |-> NoOne]
  /\ aged = {}
  /\ given = [p \in Packages |-> {}]
  /\ held = [c \in Claimants |-> [d \in Devices |-> NoOne]]

Next ==
  \/ \E a \in Accounts, d \in Devices :
       \/ RegisterDevice(a, d)
       \/ \E batch \in SUBSET Packages : AddKeyPackages(a, d, batch)
  \/ \E a \in Accounts, c \in Claimants, chosen \in [Devices -> Packages \cup {NoOne}] :
       /\ \A d \in Devices \ Owned(a) : chosen[d] = NoOne
       /\ ClaimDevicePackages(a, c, chosen)
  \/ \E p \in Packages : Age(p)
  \/ Cleanup

Spec == Init /\ [][Next]_vars

-----------------------------------------------------------------------------
(* The values the rows and histories take. *)
TypeOK ==
  /\ owner \in [Devices -> Accounts \cup {NoOne}]
  /\ device \in [Packages -> Devices \cup {NoOne}]
  /\ by \in [Packages -> Claimants \cup {NoOne}]
  /\ aged \subseteq Packages
  /\ given \in [Packages -> SUBSET Claimants]
  /\ held \in [Claimants -> [Devices -> Packages \cup {NoOne}]]

(* A one-time package goes to one claimant only, however often claims are    *)
(* repeated, for as long as the server remembers it                         *)
(* (claim_device_packages; the history starts afresh when a package that    *)
(* was deleted is uploaded again).                                          *)
SoleClaimant ==
  \A p \in Packages : \A b, c \in given[p] : device[p] # NoOne => b = c

(* A claimant never uses up a second package of a device while it holds      *)
(* one: a repeated claim does not drain the device (the unique index        *)
(* key_packages_claimant_idx is never hit).                                 *)
OneReservation ==
  \A p, q \in Packages :
    device[p] # NoOne /\ device[p] = device[q] /\ by[p] # NoOne /\ by[p] = by[q]
      => p = q

(* What a claim hands out is reserved for the claimant and stays so, on the  *)
(* same device, until the row ages out: no other claim, upload or purge      *)
(* takes it or passes it on.  All that time it is what the claimant was told *)
(* last, however often it asks (claim_device_packages,                       *)
(* _cleanup_expired_locked).                                                *)
StableReservation ==
  [][\A p \in Packages, c \in Claimants :
       /\ c \in given'[p] \ given[p] => by'[p] = c
       /\ by[p] = c => \/ by'[p] = c /\ device'[p] = device[p]
                       \/ p \in aged /\ by'[p] = NoOne /\ device'[p] = NoOne
       /\ by'[p] = c => held'[c][device'[p]] = p]_vars

(* A device never has more unclaimed packages than the limit, although the   *)
(* limit is checked against a batch that is then stored in part.            *)
WithinLimit == \A d \in Devices : Cardinality(Free(d)) <= MaxPackages

(* A reserved package is the last one its claimant was told of for the device. *)
ReservedIsTold ==
  \A p \in Packages, c \in Claimants : by[p] = c => held[c][device[p]] = p

(* The inductive invariant: a row's claimant is exactly who was given it, and  *)
(* nobody was told another package since.                                   *)
PackageInv ==
  /\ TypeOK
  /\ \A p \in Packages :
       /\ device[p] = NoOne => by[p] = NoOne
       /\ by[p] = NoOne => p \notin aged
       /\ device[p] # NoOne =>
            given[p] = IF by[p] = NoOne THEN {} ELSE {by[p]}
  /\ OneReservation
  /\ ReservedIsTold

(* To devices and claimants the rows are a pool of one-time packages: one      *)
(* leaves it in a claim, stays reserved for its claimant, is what a repeated   *)
(* claim returns, and is never anybody else's (claim_device_packages,          *)
(* add_key_packages, _cleanup_expired_locked); see PackagePool.               *)
FreePackages == [d \in Devices |-> Free(d)]
Reservations == [d \in Devices |-> [c \in Claimants |-> Reserved(d, c)]]
Pool == INSTANCE PackagePool WITH
  pool <- FreePackages, reserved <- Reservations, answer <- held
PoolKept == Pool!Spec
=============================================================================
