-------------------------- MODULE KeyPackagesProofs --------------------------
(***************************************************************************)
(* Proof that a one-time key package has one claimant, that a claimant has   *)
(* one package of a device, and that it keeps that one, and that the rows     *)
(* implement PackagePool, for any number of accounts, devices, packages and   *)
(* claimants.                                                               *)
(***************************************************************************)
EXTENDS KeyPackages, TLAPS, FiniteSetTheorems

(* The invariant holds in an empty store. *)
LEMMA PackageInit == Init => PackageInv
BY PackageAssumption DEF Init, PackageInv, TypeOK, OneReservation, ReservedIsTold

(* Enrolling a device touches no package. *)
LEMMA RegisterKeeps ==
  ASSUME PackageInv, NEW a \in Accounts, NEW d \in Devices, RegisterDevice(a, d)
  PROVE  PackageInv'
BY DEF RegisterDevice, PackageInv, TypeOK, OneReservation, ReservedIsTold

(* An upload only adds rows that nobody has claimed. *)
LEMMA AddKeeps ==
  ASSUME PackageInv, NEW a \in Accounts, NEW d \in Devices,
         NEW batch \in SUBSET Packages, AddKeyPackages(a, d, batch)
  PROVE  PackageInv'
<1> DEFINE new == {p \in batch : device[p] = NoOne}
<1>1. /\ device' = [p \in Packages |-> IF p \in new THEN d ELSE device[p]]
      /\ given' = [p \in Packages |-> IF p \in new THEN {} ELSE given[p]]
      /\ UNCHANGED <<owner, by, aged, held>>
  BY DEF AddKeyPackages
<1>2. TypeOK'
  BY <1>1 DEF PackageInv, TypeOK
<1>3. \A p \in new : by[p] = NoOne
  BY DEF PackageInv
<1>4. \A p \in Packages :
        /\ device'[p] = NoOne => by'[p] = NoOne
        /\ by'[p] = NoOne => p \notin aged'
        /\ device'[p] # NoOne => given'[p] = IF by'[p] = NoOne THEN {} ELSE {by'[p]}
  BY <1>1, <1>3, PackageAssumption DEF PackageInv, TypeOK
<1>5. OneReservation'
  BY <1>1, <1>3 DEF PackageInv, TypeOK, OneReservation
<1>6. ReservedIsTold'
  BY <1>1, <1>3, PackageAssumption DEF PackageInv, TypeOK, ReservedIsTold
<1> QED
  BY <1>2, <1>4, <1>5, <1>6 DEF PackageInv

(* A package given in a claim is a row of its device that was free or the    *)
(* claimant's own, and the only one the claimant has there afterwards.       *)
LEMMA ChoiceFacts ==
  ASSUME PackageInv, NEW a \in Accounts, NEW c \in Claimants,
         NEW chosen \in [Devices -> Packages \cup {NoOne}],
         ClaimDevicePackages(a, c, chosen),
         NEW d \in Owned(a), chosen[d] # NoOne
  PROVE  /\ chosen[d] \in Packages
         /\ device[chosen[d]] = d
         /\ by[chosen[d]] \in {NoOne, c}
         /\ \A p \in Packages : device[p] = d /\ by[p] = c => p = chosen[d]
<1>1. d \in Devices /\ chosen[d] \in Choices(d, c)
  BY DEF ClaimDevicePackages, Owned
<1>2. CASE Reserved(d, c) # {}
  <2>1. chosen[d] \in Reserved(d, c)
    BY <1>1, <1>2 DEF Choices
  <2>2. c # NoOne /\ d # NoOne
    BY <1>1, PackageAssumption
  <2> QED
    BY <2>1, <2>2 DEF Reserved, Rows, PackageInv, OneReservation
<1>3. CASE Reserved(d, c) = {}
  <2>1. chosen[d] \in Free(d)
    BY <1>1, <1>3 DEF Choices
  <2> QED
    BY <2>1, <1>3 DEF Free, Reserved, Rows
<1> QED
  BY <1>2, <1>3

(* After a claim every reserved package is what its claimant was told last:   *)
(* a claimant with a reserved package is told that one again.               *)
LEMMA ClaimTold ==
  ASSUME PackageInv, NEW a \in Accounts, NEW c \in Claimants,
         NEW chosen \in [Devices -> Packages \cup {NoOne}],
         ClaimDevicePackages(a, c, chosen),
         NEW p \in Packages, NEW b \in Claimants, by'[p] = b
  PROVE  held'[b][device'[p]] = p
<1> DEFINE got == {chosen[d] : d \in Owned(a)} \ {NoOne}
<1>1. /\ by' = [q \in Packages |-> IF q \in got /\ by[q] = NoOne THEN c ELSE by[q]]
      /\ held' = [held EXCEPT ![c] =
                    [d \in Devices |-> IF d \in Owned(a) THEN chosen[d] ELSE held[c][d]]]
      /\ device' = device
  BY DEF ClaimDevicePackages
<1>2. b # NoOne /\ Owned(a) \subseteq Devices
  BY PackageAssumption DEF Owned
<1>3. ASSUME NEW d \in Owned(a), p = chosen[d], p # NoOne, b = c
      PROVE  held'[b][device'[p]] = p
  <2>1. device[p] = d
    BY <1>3, ChoiceFacts
  <2> QED
    BY <1>1, <1>2, <1>3, <2>1 DEF PackageInv, TypeOK
<1>4. CASE p \in got /\ by[p] = NoOne
  <2>1. b = c
    BY <1>1, <1>4
  <2> QED
    BY <1>3, <1>4, <2>1
<1>5. CASE by[p] = b
  <2>1. held[b][device[p]] = p /\ device[p] \in Devices
    BY <1>2, <1>5 DEF PackageInv, TypeOK, ReservedIsTold
  <2>2. CASE b = c /\ device[p] \in Owned(a)
    <3>1. p \in Reserved(device[p], c)
      BY <1>5, <2>2 DEF Reserved, Rows
    <3>2. chosen[device[p]] \in Reserved(device[p], c)
      BY <2>2, <3>1 DEF ClaimDevicePackages, Choices
    <3>3. chosen[device[p]] # NoOne
      BY <3>2, PackageAssumption DEF Reserved, Rows
    <3>4. p = chosen[device[p]]
      BY <1>5, <2>2, <3>3, ChoiceFacts
    <3> QED
      BY <1>3, <2>2, <3>3, <3>4
  <2>3. CASE ~(b = c /\ device[p] \in Owned(a))
    BY <1>1, <2>1, <2>3 DEF PackageInv, TypeOK
  <2> QED
    BY <2>2, <2>3
<1>6. by[p] = b \/ (p \in got /\ by[p] = NoOne)
  BY <1>1
<1> QED
  BY <1>4, <1>5, <1>6

(* A claim gives every package it hands out to the claimant alone. *)
LEMMA ClaimKeeps ==
  ASSUME PackageInv, NEW a \in Accounts, NEW c \in Claimants,
         NEW chosen \in [Devices -> Packages \cup {NoOne}],
         ClaimDevicePackages(a, c, chosen)
  PROVE  PackageInv'
<1> DEFINE got == {chosen[d] : d \in Owned(a)} \ {NoOne}
<1>1. /\ by' = [p \in Packages |-> IF p \in got /\ by[p] = NoOne THEN c ELSE by[p]]
      /\ given' = [p \in Packages |-> IF p \in got THEN given[p] \cup {c} ELSE given[p]]
      /\ held' = [held EXCEPT ![c] =
                    [d \in Devices |-> IF d \in Owned(a) THEN chosen[d] ELSE held[c][d]]]
      /\ UNCHANGED <<owner, device, aged>>
  BY DEF ClaimDevicePackages
<1>2. c # NoOne
  BY PackageAssumption
<1>3. \A p \in got : /\ p \in Packages
                     /\ device[p] # NoOne
                     /\ by[p] \in {NoOne, c}
                     /\ \A q \in Packages : device[q] = device[p] /\ by[q] = c => q = p
  <2>1. ASSUME NEW d \in Owned(a), chosen[d] # NoOne
        PROVE  /\ chosen[d] \in Packages
               /\ device[chosen[d]] # NoOne
               /\ by[chosen[d]] \in {NoOne, c}
               /\ \A q \in Packages :
                    device[q] = device[chosen[d]] /\ by[q] = c => q = chosen[d]
    <3>1. d # NoOne
      BY PackageAssumption DEF Owned
    <3> QED
      BY <2>1, <3>1, ChoiceFacts
  <2> QED
    BY <2>1
<1>4. \A p, q \in got : device[p] = device[q] => p = q
  <2>1. ASSUME NEW d \in Owned(a), NEW e \in Owned(a),
               chosen[d] # NoOne, chosen[e] # NoOne,
               device[chosen[d]] = device[chosen[e]]
        PROVE  chosen[d] = chosen[e]
    <3>1. device[chosen[d]] = d
      BY <2>1, ChoiceFacts
    <3>2. device[chosen[e]] = e
      BY <2>1, ChoiceFacts
    <3> QED
      BY <2>1, <3>1, <3>2
  <2> QED
    BY <2>1
<1>5. TypeOK'
  <2>1. by' \in [Packages -> Claimants \cup {NoOne}]
    BY <1>1 DEF PackageInv, TypeOK
  <2>2. given' \in [Packages -> SUBSET Claimants]
    BY <1>1 DEF PackageInv, TypeOK
  <2>3. held' \in [Claimants -> [Devices -> Packages \cup {NoOne}]]
    BY <1>1 DEF PackageInv, TypeOK
  <2> QED
    BY <1>1, <2>1, <2>2, <2>3 DEF PackageInv, TypeOK
<1>6. \A p \in Packages :
        /\ device'[p] = NoOne => by'[p] = NoOne
        /\ by'[p] = NoOne => p \notin aged'
        /\ device'[p] # NoOne => given'[p] = IF by'[p] = NoOne THEN {} ELSE {by'[p]}
  BY <1>1, <1>2, <1>3 DEF PackageInv, TypeOK
<1>7. OneReservation'
  <2> SUFFICES ASSUME NEW p \in Packages, NEW q \in Packages,
                      device[p] # NoOne, device[p] = device[q],
                      by'[p] # NoOne, by'[p] = by'[q]
               PROVE  p = q
    BY <1>1 DEF OneReservation
  <2>1. CASE p \in got /\ q \in got
    BY <2>1, <1>4
  <2>2. CASE p \in got /\ q \notin got
    BY <2>2, <1>1, <1>2, <1>3
  <2>3. CASE p \notin got /\ q \in got
    BY <2>3, <1>1, <1>2, <1>3
  <2>4. CASE p \notin got /\ q \notin got
    BY <2>4, <1>1 DEF PackageInv, OneReservation
  <2> QED
    BY <2>1, <2>2, <2>3, <2>4
<1>8. ReservedIsTold'
  BY ClaimTold DEF ReservedIsTold
<1> QED
  BY <1>5, <1>6, <1>7, <1>8 DEF PackageInv

(* Ageing and the cleanup only ever remove claimed rows. *)
LEMMA CleanupKeeps ==
  ASSUME PackageInv, Cleanup \/ \E p \in Packages : Age(p)
  PROVE  PackageInv'
<1>1. CASE Cleanup
  BY <1>1, PackageAssumption DEF Cleanup, PackageInv, TypeOK, OneReservation, ReservedIsTold
<1>2. ASSUME NEW p \in Packages, Age(p) PROVE PackageInv'
  BY <1>2 DEF Age, PackageInv, TypeOK, OneReservation, ReservedIsTold
<1> QED
  BY <1>1, <1>2

(* Every call preserves the invariant. *)
LEMMA PackageNext == PackageInv /\ [Next]_vars => PackageInv'
<1> SUFFICES ASSUME PackageInv, [Next]_vars PROVE PackageInv'
  OBVIOUS
<1>1. CASE UNCHANGED vars
  BY <1>1 DEF vars, PackageInv, TypeOK, OneReservation, ReservedIsTold
<1>2. CASE Next
  BY <1>2, RegisterKeeps, AddKeeps, ClaimKeeps, CleanupKeeps DEF Next
<1> QED
  BY <1>1, <1>2

(* The inductive invariant. *)
THEOREM PackageInvCorrect == Spec => []PackageInv
BY PackageInit, PackageNext, PTL DEF Spec

(* A one-time package goes to one claimant only. *)
THEOREM SoleClaimantCorrect == Spec => []SoleClaimant
<1>1. PackageInv => SoleClaimant
  BY DEF PackageInv, SoleClaimant
<1> QED
  BY <1>1, PackageInvCorrect, PTL

(* A claimant has at most one package of a device. *)
THEOREM OneReservationCorrect == Spec => []OneReservation
<1>1. PackageInv => OneReservation
  BY DEF PackageInv
<1> QED
  BY <1>1, PackageInvCorrect, PTL

(* What a step does to one reservation: only a claim makes one, and only the  *)
(* purge of an aged row ends it.                                             *)
LEMMA ReservationStep ==
  ASSUME PackageInv, [Next]_vars, NEW p \in Packages, NEW c \in Claimants
  PROVE  /\ c \in given'[p] \ given[p] => by'[p] = c
         /\ by[p] = c => \/ by'[p] = c /\ device'[p] = device[p]
                         \/ p \in aged /\ by'[p] = NoOne /\ device'[p] = NoOne
<1> DEFINE Kept ==
      /\ c \in given'[p] \ given[p] => by'[p] = c
      /\ by[p] = c => \/ by'[p] = c /\ device'[p] = device[p]
                      \/ p \in aged /\ by'[p] = NoOne /\ device'[p] = NoOne
<1>1. c # NoOne
  BY PackageAssumption
<1>2. ASSUME NEW a \in Accounts, NEW d \in Devices, NEW batch \in SUBSET Packages,
             AddKeyPackages(a, d, batch)
      PROVE  Kept
  <2>1. by'[p] = by[p]
    BY <1>2 DEF AddKeyPackages
  <2>2. given'[p] \subseteq given[p]
    BY <1>2 DEF AddKeyPackages, PackageInv, TypeOK
  <2>3. by[p] = c => device'[p] = device[p]
    BY <1>1, <1>2 DEF AddKeyPackages, PackageInv, TypeOK
  <2> QED
    BY <2>1, <2>2, <2>3
<1>3. ASSUME NEW a \in Accounts, NEW b \in Claimants,
             NEW chosen \in [Devices -> Packages \cup {NoOne}],
             ClaimDevicePackages(a, b, chosen)
      PROVE  Kept
  <2> DEFINE got == {chosen[d] : d \in Owned(a)} \ {NoOne}
  <2>1. /\ by' = [q \in Packages |-> IF q \in got /\ by[q] = NoOne THEN b ELSE by[q]]
        /\ given' = [q \in Packages |-> IF q \in got THEN given[q] \cup {b} ELSE given[q]]
        /\ device' = device
    BY <1>3 DEF ClaimDevicePackages
  <2>2. by[p] = c => by'[p] = c
    BY <1>1, <2>1
  <2>3. ASSUME c \in given'[p] \ given[p]
        PROVE  by'[p] = c
    <3>1. p \in got /\ c = b
      BY <2>1, <2>3
    <3>2. PICK d \in Owned(a) : p = chosen[d] /\ chosen[d] # NoOne
      BY <3>1
    <3>3. by[p] \in {NoOne, b}
      BY <1>3, <3>2, ChoiceFacts
    <3> QED
      BY <2>1, <3>1, <3>3
  <2> QED
    BY <2>1, <2>2, <2>3
<1>4. CASE Cleanup
  BY <1>4 DEF Cleanup
<1>5. CASE UNCHANGED <<device, by, given>>
  BY <1>5
<1> QED
  BY <1>2, <1>3, <1>4, <1>5 DEF Next, RegisterDevice, Age, vars

(* What a claim hands out stays reserved for its claimant until the row ages   *)
(* out, and is what the claimant is told meanwhile.                          *)
THEOREM StableReservationCorrect == Spec => StableReservation
<1> DEFINE Stable ==
      \A p \in Packages, c \in Claimants :
        /\ c \in given'[p] \ given[p] => by'[p] = c
        /\ by[p] = c => \/ by'[p] = c /\ device'[p] = device[p]
                        \/ p \in aged /\ by'[p] = NoOne /\ device'[p] = NoOne
        /\ by'[p] = c => held'[c][device'[p]] = p
<1>1. PackageInv /\ PackageInv' /\ [Next]_vars => [Stable]_vars
  <2> SUFFICES ASSUME PackageInv, PackageInv', [Next]_vars PROVE Stable
    OBVIOUS
  <2>1. \A p \in Packages, c \in Claimants : by'[p] = c => held'[c][device'[p]] = p
    BY DEF PackageInv, ReservedIsTold
  <2> QED
    BY <2>1, ReservationStep
<1> QED
  BY <1>1, PackageInvCorrect, PTL DEF Spec, StableReservation

(* Only an upload adds unclaimed packages, and only as many as fit. *)
LEMMA FreeGrows ==
  ASSUME PackageInv, [Next]_vars, NEW d \in Devices
  PROVE  \/ Free(d)' \subseteq Free(d)
         \/ \E batch \in SUBSET Packages :
              Free(d)' \subseteq Free(d) \cup batch /\ Fits(d, batch)
<1>1. d # NoOne
  BY PackageAssumption
<1>2. ASSUME NEW a \in Accounts, NEW e \in Devices, NEW batch \in SUBSET Packages,
             AddKeyPackages(a, e, batch)
      PROVE  \/ Free(d)' \subseteq Free(d)
             \/ Free(d)' \subseteq Free(d) \cup batch /\ Fits(d, batch)
  BY <1>2 DEF AddKeyPackages, Free, Rows, PackageInv, TypeOK
<1>3. ASSUME NEW a \in Accounts, NEW c \in Claimants,
             NEW chosen \in [Devices -> Packages \cup {NoOne}],
             ClaimDevicePackages(a, c, chosen)
      PROVE  Free(d)' \subseteq Free(d)
  <2>1. c # NoOne
    BY PackageAssumption
  <2> QED
    BY <1>3, <2>1 DEF ClaimDevicePackages, Free, Rows, PackageInv, TypeOK
<1>4. CASE Cleanup
  BY <1>1, <1>4 DEF Cleanup, Free, Rows, PackageInv, TypeOK
<1>5. CASE UNCHANGED <<device, by>>
  BY <1>5 DEF Free, Rows
<1> QED
  BY <1>2, <1>3, <1>4, <1>5 DEF Next, RegisterDevice, Age, vars

(* No device has more unclaimed packages than the limit. *)
THEOREM WithinLimitCorrect == Spec => []WithinLimit
<1>1. \A d \in Devices : IsFiniteSet(Free(d)) /\ IsFiniteSet(Free(d)')
  BY PackageAssumption, FS_Subset DEF Free, Rows
<1>2. Init => WithinLimit
  <2> SUFFICES ASSUME Init, NEW d \in Devices PROVE Cardinality(Free(d)) <= MaxPackages
    BY DEF WithinLimit
  <2>1. Free(d) = {}
    BY PackageAssumption DEF Init, Free, Rows
  <2> QED
    BY <2>1, FS_EmptySet, PackageAssumption
<1>3. PackageInv /\ WithinLimit /\ [Next]_vars => WithinLimit'
  <2> SUFFICES ASSUME PackageInv, WithinLimit, [Next]_vars, NEW d \in Devices
               PROVE  Cardinality(Free(d)') <= MaxPackages
    BY DEF WithinLimit
  <2>1. /\ Cardinality(Free(d)) \in Nat /\ Cardinality(Free(d)') \in Nat
        /\ Cardinality(Free(d)) <= MaxPackages
    BY <1>1, FS_CardinalityType DEF WithinLimit
  <2>2. CASE Free(d)' \subseteq Free(d)
    <3>1. Cardinality(Free(d)') <= Cardinality(Free(d))
      BY <1>1, <2>2, FS_Subset
    <3> QED
      BY <2>1, <3>1, PackageAssumption
  <2>3. ASSUME NEW batch \in SUBSET Packages,
               Free(d)' \subseteq Free(d) \cup batch, Fits(d, batch)
        PROVE  Cardinality(Free(d)') <= MaxPackages
    <3>1. IsFiniteSet(batch)
      BY PackageAssumption, FS_Subset
    <3>2. /\ IsFiniteSet(Free(d) \cup batch)
          /\ Cardinality(Free(d) \cup batch)
               = Cardinality(Free(d)) + Cardinality(batch) - Cardinality(Free(d) \cap batch)
      BY <1>1, <3>1, FS_Union
    <3>3. Cardinality(Free(d)') <= Cardinality(Free(d) \cup batch)
      BY <2>3, <3>2, FS_Subset
    <3>4. IsFiniteSet(Free(d) \cap batch)
      BY <3>1, FS_Subset
    <3>5. Cardinality(batch) \in Nat /\ Cardinality(Free(d) \cap batch) \in Nat
      BY <3>1, <3>4, FS_CardinalityType
    <3> QED
      BY <2>1, <2>3, <3>2, <3>3, <3>5, PackageAssumption DEF Fits
  <2> QED
    BY <2>2, <2>3, FreeGrows
<1> QED
  BY <1>2, <1>3, PackageInvCorrect, PTL DEF Spec

-----------------------------------------------------------------------------
(* The refinement: what a device's pool and reservations are before and after. *)
LEMMA PoolValues ==
  ASSUME NEW d \in Devices
  PROVE  /\ \A p : p \in FreePackages[d]
                  <=> p \in Packages /\ device[p] = d /\ by[p] = NoOne
         /\ \A c \in Claimants : \A p :
              p \in Reservations[d][c]
                <=> p \in Packages /\ device[p] = d /\ by[p] = c
         /\ FreePackages[d] \subseteq Packages
         /\ Reservations[d] \in [Claimants -> SUBSET Packages]
BY DEF FreePackages, Reservations, Free, Reserved, Rows

LEMMA PoolValuesAfter ==
  ASSUME NEW d \in Devices
  PROVE  /\ \A p : p \in FreePackages'[d]
                  <=> p \in Packages /\ device'[p] = d /\ by'[p] = NoOne
         /\ \A c \in Claimants : \A p :
              p \in Reservations'[d][c]
                <=> p \in Packages /\ device'[p] = d /\ by'[p] = c
         /\ FreePackages'[d] \subseteq Packages
         /\ Reservations'[d] \in [Claimants -> SUBSET Packages]
BY DEF FreePackages, Reservations, Free, Reserved, Rows

LEMMA PoolTypes ==
  ASSUME TypeOK'
  PROVE  /\ FreePackages' \in [Devices -> SUBSET Packages]
         /\ Reservations' \in [Devices -> [Claimants -> SUBSET Packages]]
         /\ held' \in [Claimants -> [Devices -> Packages \cup {NoOne}]]
BY DEF FreePackages, Reservations, Free, Reserved, Rows, TypeOK

(* Rows that stay what they are leave the pool, or the reservation, as it is.  *)
LEMMA SameFree ==
  ASSUME NEW d \in Devices,
         \A p \in Packages : device'[p] = d /\ by'[p] = NoOne
                               <=> device[p] = d /\ by[p] = NoOne
  PROVE  FreePackages'[d] = FreePackages[d]
<1>1. \A p : p \in FreePackages'[d] <=> p \in FreePackages[d]
  BY PoolValues, PoolValuesAfter
<1> QED
  BY <1>1

LEMMA SameReserved ==
  ASSUME NEW d \in Devices, NEW c \in Claimants,
         \A p \in Packages : device'[p] = d /\ by'[p] = c <=> device[p] = d /\ by[p] = c
  PROVE  Reservations'[d][c] = Reservations[d][c]
<1>1. \A p : p \in Reservations'[d][c] <=> p \in Reservations[d][c]
  BY PoolValues, PoolValuesAfter
<1> QED
  BY <1>1

(* A device whose rows do not change takes no step. *)
LEMMA PoolStutters ==
  ASSUME NEW d \in Devices, FreePackages'[d] = FreePackages[d],
         \A c \in Claimants : Reservations'[d][c] = Reservations[d][c]
  PROVE  Pool!DeviceStep(d)
<1>1. FreePackages'[d] = FreePackages[d] /\ Reservations'[d] = Reservations[d]
  BY PoolValues, PoolValuesAfter
<1> QED
  BY <1>1 DEF Pool!DeviceStep, Pool!Expired

(* What a device may have given away is what it has rows of. *)
LEMMA KnownAreRows ==
  ASSUME NEW e \in Devices, NEW p \in Pool!Known(e)
  PROVE  p \in Packages /\ device[p] = e
<1>1. CASE p \in FreePackages[e]
  BY <1>1, PoolValues
<1>2. ASSUME NEW c \in Claimants, p \in Reservations[e][c]
      PROVE  p \in Packages /\ device[p] = e
  BY <1>2, PoolValues
<1> QED
  BY <1>1, <1>2 DEF Pool!Known

(* An upload adds to the pool of its device what no device has. *)
LEMMA UploadIsOne ==
  ASSUME PackageInv, WithinLimit', NEW a \in Accounts, NEW u \in Devices,
         NEW batch \in SUBSET Packages, AddKeyPackages(a, u, batch),
         NEW d \in Devices
  PROVE  Pool!DeviceStep(d)
<1> DEFINE new == {p \in batch : device[p] = NoOne}
<1>1. /\ device' = [p \in Packages |-> IF p \in new THEN u ELSE device[p]]
      /\ by' = by
  BY DEF AddKeyPackages
<1>2. d # NoOne /\ u # NoOne /\ \A c \in Claimants : c # NoOne
  BY PackageAssumption
<1>3. \A p \in new : by[p] = NoOne
  BY DEF PackageInv
<1>4. \A c \in Claimants : Reservations'[d][c] = Reservations[d][c]
  <2> SUFFICES ASSUME NEW c \in Claimants
               PROVE  Reservations'[d][c] = Reservations[d][c]
    OBVIOUS
  <2>1. \A p \in Packages : device'[p] = d /\ by'[p] = c <=> device[p] = d /\ by[p] = c
    BY <1>1, <1>2, <1>3
  <2> QED
    BY <2>1, SameReserved
<1>5. CASE d # u
  <2>1. FreePackages'[d] = FreePackages[d]
    <3>1. \A p \in Packages : device'[p] = d /\ by'[p] = NoOne
                                <=> device[p] = d /\ by[p] = NoOne
      BY <1>1, <1>2, <1>5
    <3> QED
      BY <3>1, SameFree
  <2> QED
    BY <1>4, <2>1, PoolStutters
<1>6. CASE d = u
  <2>1. FreePackages'[d] = FreePackages[d] \cup new
    BY <1>1, <1>2, <1>3, <1>6, PoolValues, PoolValuesAfter
  <2>2. Cardinality(FreePackages'[d]) <= MaxPackages
    BY DEF WithinLimit, FreePackages
  <2>3. ASSUME NEW e \in Devices
        PROVE  (FreePackages'[d] \ FreePackages[d]) \cap Pool!Known(e) = {}
    <3>1. e # NoOne
      BY PackageAssumption
    <3>2. \A p \in FreePackages'[d] \ FreePackages[d] : device[p] = NoOne
      BY <2>1
    <3> QED
      BY <3>1, <3>2, KnownAreRows
  <2>4. Reservations'[d] = Reservations[d]
    BY <1>4, PoolValues, PoolValuesAfter
  <2>5. FreePackages[d] \subseteq FreePackages'[d]
    BY <2>1
  <2> QED
    BY <2>2, <2>3, <2>4, <2>5 DEF Pool!DeviceStep, Pool!Uploaded, Pool!Cardinality, Cardinality
<1> QED
  BY <1>5, <1>6

(* What a claim does to the rows of one device: nothing, if it is none of the  *)
(* account's or has nothing to give; otherwise its one choice is reserved.     *)
LEMMA ClaimOnDevice ==
  ASSUME PackageInv, NEW a \in Accounts, NEW c \in Claimants,
         NEW chosen \in [Devices -> Packages \cup {NoOne}],
         ClaimDevicePackages(a, c, chosen), NEW d \in Devices
  PROVE  /\ \A b \in Claimants \ {c} : Reservations'[d][b] = Reservations[d][b]
         /\ d \notin Owned(a) \/ chosen[d] = NoOne
              => FreePackages'[d] = FreePackages[d] /\ Reservations'[d][c] = Reservations[d][c]
         /\ d \in Owned(a) /\ chosen[d] # NoOne
              => /\ FreePackages'[d] = FreePackages[d] \ {chosen[d]}
                 /\ Reservations'[d][c] = {chosen[d]}
                 /\ Reservations[d][c] \subseteq {chosen[d]}
                 /\ chosen[d] \in FreePackages[d] \cup Reservations[d][c]
<1> DEFINE got == {chosen[e] : e \in Owned(a)} \ {NoOne}
<1>1. /\ by' = [p \in Packages |-> IF p \in got /\ by[p] = NoOne THEN c ELSE by[p]]
      /\ device' = device
  BY DEF ClaimDevicePackages
<1>2. c # NoOne /\ d # NoOne /\ \A b \in Claimants : b # NoOne
  BY PackageAssumption
<1>3. \A p \in got : device[p] = d => d \in Owned(a) /\ p = chosen[d]
  <2>1. ASSUME NEW e \in Owned(a), chosen[e] # NoOne, device[chosen[e]] = d
        PROVE  e = d
    BY <2>1, ChoiceFacts
  <2> QED
    BY <2>1
<1>4. \A b \in Claimants \ {c} : Reservations'[d][b] = Reservations[d][b]
  <2> SUFFICES ASSUME NEW b \in Claimants, b # c
               PROVE  Reservations'[d][b] = Reservations[d][b]
    OBVIOUS
  <2>1. \A p \in Packages : device'[p] = d /\ by'[p] = b <=> device[p] = d /\ by[p] = b
    BY <1>1, <1>2
  <2> QED
    BY <2>1, SameReserved
<1>5. ASSUME d \notin Owned(a) \/ chosen[d] = NoOne
      PROVE  FreePackages'[d] = FreePackages[d] /\ Reservations'[d][c] = Reservations[d][c]
  <2>1. \A p \in Packages : device[p] = d => by'[p] = by[p]
    BY <1>1, <1>3, <1>5
  <2> QED
    BY <1>1, <2>1, SameFree, SameReserved
<1>6. ASSUME d \in Owned(a), chosen[d] # NoOne
      PROVE  /\ FreePackages'[d] = FreePackages[d] \ {chosen[d]}
             /\ Reservations'[d][c] = {chosen[d]}
             /\ Reservations[d][c] \subseteq {chosen[d]}
             /\ chosen[d] \in FreePackages[d] \cup Reservations[d][c]
  <2>1. /\ chosen[d] \in Packages /\ device[chosen[d]] = d
        /\ by[chosen[d]] \in {NoOne, c}
        /\ \A p \in Packages : device[p] = d /\ by[p] = c => p = chosen[d]
    BY <1>6, ChoiceFacts
  <2>2. by'[chosen[d]] = c
    BY <1>1, <1>6, <2>1
  <2>3. \A p \in Packages : device[p] = d /\ p # chosen[d] => by'[p] = by[p]
    BY <1>1, <1>3
  <2> QED
    <3>1. \A p : p \in FreePackages'[d] <=> p \in FreePackages[d] \ {chosen[d]}
      <4>1. \A p \in Packages : device'[p] = d /\ by'[p] = NoOne
                    <=> device[p] = d /\ by[p] = NoOne /\ p # chosen[d]
        BY <1>1, <1>2, <2>2, <2>3
      <4> QED
        BY <4>1, PoolValues, PoolValuesAfter
    <3>2. \A p : p \in Reservations'[d][c] <=> p = chosen[d]
      <4>1. \A p \in Packages : device'[p] = d /\ by'[p] = c <=> p = chosen[d]
        BY <1>1, <2>1, <2>2, <2>3
      <4> QED
        BY <2>1, <4>1, PoolValuesAfter
    <3>3. /\ Reservations[d][c] \subseteq {chosen[d]}
          /\ chosen[d] \in FreePackages[d] \cup Reservations[d][c]
      BY <2>1, PoolValues
    <3> QED
      BY <3>1, <3>2, <3>3
<1> QED
  BY <1>4, <1>5, <1>6

(* A claim takes at most one package out of each pool, for its claimant. *)
LEMMA ClaimIsOne ==
  ASSUME PackageInv, NEW a \in Accounts, NEW c \in Claimants,
         NEW chosen \in [Devices -> Packages \cup {NoOne}],
         ClaimDevicePackages(a, c, chosen), NEW d \in Devices
  PROVE  Pool!DeviceStep(d)
<1>1. CASE d \notin Owned(a) \/ chosen[d] = NoOne
  <2>1. /\ FreePackages'[d] = FreePackages[d]
        /\ \A b \in Claimants : Reservations'[d][b] = Reservations[d][b]
    BY <1>1, ClaimOnDevice
  <2> QED
    BY <2>1, PoolStutters
<1>2. CASE d \in Owned(a) /\ chosen[d] # NoOne
  <2> DEFINE k == chosen[d]
  <2>1. /\ \A b \in Claimants \ {c} : Reservations'[d][b] = Reservations[d][b]
        /\ FreePackages'[d] = FreePackages[d] \ {k} /\ Reservations'[d][c] = {k}
        /\ Reservations[d][c] \subseteq {k} /\ k \in FreePackages[d] \cup Reservations[d][c]
    BY <1>2, ClaimOnDevice
  <2>2. k \in FreePackages[d] => k \notin Reservations[d][c]
    BY PackageAssumption, PoolValues
  <2>3. CASE k \in Reservations[d][c]
    <3>1. Reservations'[d][c] = Reservations[d][c] /\ FreePackages'[d] = FreePackages[d]
      BY <2>1, <2>2, <2>3
    <3>2. \A b \in Claimants : Reservations'[d][b] = Reservations[d][b]
      BY <2>1, <3>1
    <3> QED
      BY <3>1, <3>2, PoolStutters
  <2>4. CASE k \in FreePackages[d]
    <3>1. Reservations[d][c] = {} /\ k \in FreePackages[d]
      BY <2>1, <2>2, <2>4
    <3>2. Reservations'[d] = [Reservations[d] EXCEPT ![c] = {k}]
      <4>1. /\ Reservations[d] \in [Claimants -> SUBSET Packages]
            /\ Reservations'[d] \in [Claimants -> SUBSET Packages]
        BY PoolValues, PoolValuesAfter
      <4> QED
        BY <2>1, <4>1
    <3> QED
      BY <2>1, <3>1, <3>2 DEF Pool!DeviceStep, Pool!Claimed
  <2> QED
    BY <2>1, <2>3, <2>4
<1> QED
  BY <1>1, <1>2

(* The claimant is told what is reserved for it now; nobody else is told.      *)
LEMMA ClaimIsTold ==
  ASSUME PackageInv, NEW a \in Accounts, NEW c \in Claimants,
         NEW chosen \in [Devices -> Packages \cup {NoOne}],
         ClaimDevicePackages(a, c, chosen), NEW d \in Devices, NEW b \in Claimants
  PROVE  held'[b][d] = held[b][d] \/ Pool!Told(b, d)
<1>1. CASE b # c \/ d \notin Owned(a)
  BY <1>1 DEF ClaimDevicePackages, PackageInv, TypeOK
<1>2. CASE b = c /\ d \in Owned(a)
  <2>1. held'[c][d] = chosen[d] /\ chosen[d] \in Choices(d, c)
    BY <1>2 DEF ClaimDevicePackages, PackageInv, TypeOK
  <2>2. CASE chosen[d] = NoOne
    <3>1. Reservations[d][c] = {} /\ FreePackages[d] = {}
      BY <2>1, <2>2, PackageAssumption DEF Choices, Reserved, Free, Rows,
           FreePackages, Reservations
    <3>2. Reservations'[d][c] = {} /\ FreePackages'[d] = {}
      BY <2>2, <3>1, ClaimOnDevice
    <3> QED
      BY <1>2, <2>1, <2>2, <3>1, <3>2 DEF Pool!Told
  <2>3. CASE chosen[d] # NoOne
    <3>1. Reservations'[d][c] = {chosen[d]} /\ Reservations[d][c] \subseteq {chosen[d]}
      BY <1>2, <2>3, ClaimOnDevice
    <3> QED
      BY <1>2, <2>1, <2>3, <3>1 DEF Pool!Told
  <2> QED
    BY <2>2, <2>3
<1> QED
  BY <1>1, <1>2

(* The purge takes reservations, and whole ones. *)
LEMMA CleanupExpires ==
  ASSUME PackageInv, Cleanup, NEW d \in Devices
  PROVE  Pool!DeviceStep(d)
<1>1. /\ device' = [p \in Packages |-> IF p \in aged THEN NoOne ELSE device[p]]
      /\ by' = [p \in Packages |-> IF p \in aged THEN NoOne ELSE by[p]]
  BY DEF Cleanup
<1>2. d # NoOne /\ \A c \in Claimants : c # NoOne
  BY PackageAssumption
<1>3. FreePackages'[d] = FreePackages[d]
  <2>1. \A p \in Packages : device'[p] = d /\ by'[p] = NoOne
                              <=> device[p] = d /\ by[p] = NoOne
    BY <1>1, <1>2 DEF PackageInv
  <2> QED
    BY <2>1, SameFree
<1>4. ASSUME NEW c \in Claimants PROVE Reservations'[d][c] \in {Reservations[d][c], {}}
  <2>1. Reservations'[d][c] = Reservations[d][c] \ aged
    BY <1>1, <1>2, PoolValues, PoolValuesAfter
  <2>2. \A p, q \in Reservations[d][c] : p = q
    BY <1>2, PoolValues DEF PackageInv, OneReservation
  <2> QED
    BY <2>1, <2>2
<1> QED
  BY <1>3, <1>4 DEF Pool!DeviceStep, Pool!Expired

(* Every call is a step of the pool, or hidden from it. *)
LEMMA PoolNext ==
  ASSUME PackageInv, PackageInv', WithinLimit', [Next]_vars
  PROVE  [Pool!Next]_<<FreePackages, Reservations, held>>
<1>1. CASE UNCHANGED <<device, by, held>>
  BY <1>1 DEF FreePackages, Reservations, Free, Reserved, Rows
<1>2. SUFFICES ASSUME NEW d \in Devices, ~ UNCHANGED <<device, by, held>>
               PROVE  /\ Pool!DeviceStep(d)
                      /\ \A c \in Claimants : held'[c][d] = held[c][d] \/ Pool!Told(c, d)
  BY <1>1, PoolTypes DEF PackageInv, Pool!Next
<1>3. ASSUME NEW a \in Accounts, NEW u \in Devices, NEW batch \in SUBSET Packages,
             AddKeyPackages(a, u, batch)
      PROVE  Pool!DeviceStep(d) /\ held' = held
  BY <1>3, UploadIsOne DEF AddKeyPackages
<1>4. CASE Cleanup
  BY <1>4, CleanupExpires DEF Cleanup
<1>5. ASSUME NEW a \in Accounts, NEW c \in Claimants,
             NEW chosen \in [Devices -> Packages \cup {NoOne}],
             ClaimDevicePackages(a, c, chosen)
      PROVE  /\ Pool!DeviceStep(d)
             /\ \A b \in Claimants : held'[b][d] = held[b][d] \/ Pool!Told(b, d)
  BY <1>5, ClaimIsOne, ClaimIsTold
<1> QED
  BY <1>2, <1>3, <1>4, <1>5 DEF Next, RegisterDevice, Age, vars

(* The rows of any number of devices are pools of one-time packages. *)
THEOREM PoolKeptCorrect == Spec => PoolKept
<1>1. Init => Pool!Init
  BY PackageAssumption DEF Init, Pool!Init, FreePackages, Reservations, Free, Reserved, Rows
<1>2. PackageInv /\ PackageInv' /\ WithinLimit' /\ [Next]_vars
        => [Pool!Next]_<<FreePackages, Reservations, held>>
  BY PoolNext
<1> QED
  BY <1>1, <1>2, PackageInvCorrect, WithinLimitCorrect, PTL DEF Spec, PoolKept, Pool!Spec
=============================================================================
