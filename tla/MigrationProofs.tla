--------------------------- MODULE MigrationProofs ---------------------------
(***************************************************************************)
(* Proof that a database is stamped and used only when it is complete, that  *)
(* its server id stays, that a newer one is not touched, and that all this     *)
(* looks like one indivisible upgrade (SchemaUpgrade), for any number of      *)
(* processes and of faults.                                                 *)
(***************************************************************************)
EXTENDS Migration, TLAPS

Stages ==
  {Off, CheckVersion, Create, LookAtTransport, AlterTransport, LookAtPackages,
   AlterPackages, Index, Stamp, Name, Switch, Open}

LEMMA StageSet == Stages = Off .. Open
BY DEF Stages, Off, CheckVersion, Create, LookAtTransport, AlterTransport,
  LookAtPackages, AlterPackages, Index, Stamp, Name, Switch, Open

(* Whatever a first start may find is consistent. *)
LEMMA MigrationInit == Init => MigrationInv
<1> SUFFICES ASSUME Init PROVE MigrationInv
  OBVIOUS
<1> USE MigrationAssumption DEF Init
<1>1. \A p \in Procs : stage[p] = Off
  OBVIOUS
<1>2. version = Supported => Full
  BY DEF Fresh, Older, UpToDate, Newer, Full, Unstamped
<1>3. TypeOK
  BY StageSet DEF TypeOK, Stages, Fresh, Older, UpToDate, Newer
<1>4. Behind
  <2> HIDE DEF Init
  <2>1. ASSUME NEW p \in Procs
        PROVE  /\ ~(stage[p] > Create) /\ ~(stage[p] > AlterTransport)
               /\ ~(stage[p] > AlterPackages) /\ ~(stage[p] > Index)
               /\ ~(stage[p] > Stamp) /\ ~(stage[p] > Name)
               /\ stage[p] \in {Off, CheckVersion}
    BY <1>1 DEF Off, CheckVersion, Create, AlterTransport, AlterPackages, Index, Stamp, Name
  <2> QED
    BY <2>1 DEF Behind
<1> QED
  BY <1>2, <1>3, <1>4 DEF MigrationInv, StampHonest

(* What is in the database stays there: no column is lost, nor the stamp.     *)
LEMMA Grows ==
  ASSUME MigrationInv, Next
  PROVE  /\ TypeOK'
         /\ transport # "absent" => transport' # "absent"
         /\ transport = "full" => transport' = "full"
         /\ packages # "absent" => packages' # "absent"
         /\ packages = "full" => packages' = "full"
         /\ index => index'
         /\ serverId # NoId => serverId' = serverId
         /\ version = Supported \/ version' # version => version' = Supported
         /\ version > Supported => UNCHANGED <<schema, serverId>>
<1>1. PICK p \in Procs : Start(p) \/ Migrate(p) \/ Close(p) \/ Fail(p)
  BY DEF Next
<1> USE MigrationAssumption, StageSet
    DEF MigrationInv, TypeOK, Stages, Step, schema
<1>2. CASE Start(p) \/ Close(p) \/ Fail(p)
  BY <1>2 DEF Start, Close, Fail
<1>3. CASE Look(p) \/ LookTransport(p) \/ LookPackages(p) \/ Duplicate(p) \/ SwitchToWal(p)
  BY <1>3 DEF Look, LookTransport, LookPackages, Duplicate, SwitchToWal
<1>4. /\ version > Supported => stage[p] \in {Off, CheckVersion}
      /\ stage[p] > AlterPackages => packages = "full"
  BY <1>1 DEF Behind
<1> USE DEF Off, CheckVersion, Create, LookAtTransport, AlterTransport, LookAtPackages,
      AlterPackages, Index, Stamp, Name, Switch
<1>5. CASE CreateTables(p)
  BY <1>4, <1>5 DEF CreateTables, Made
<1>6. CASE AddServerName(p) \/ AddClaimedBy(p)
  BY <1>4, <1>6 DEF AddServerName, AddClaimedBy
<1>7. CASE CreateIndex(p)
  <2>1. stage[p] = Index /\ packages = "full" /\ index' = TRUE
    BY <1>4, <1>7 DEF CreateIndex
  <2>2. UNCHANGED <<version, transport, packages, serverId, faults>>
    BY <1>7 DEF CreateIndex
  <2>3. stage' \in [Procs -> Off .. Open]
    BY <1>7 DEF CreateIndex
  <2>4. ~(version > Supported) /\ (index => index')
    BY <1>4, <2>1
  <2>5. TypeOK'
    BY <2>1, <2>2, <2>3
  <2> QED
    BY <2>2, <2>4, <2>5
<1>8. CASE StampVersion(p)
  BY <1>4, <1>8 DEF StampVersion
<1>9. ASSUME NEW id \in Ids, NameServer(p, id)
      PROVE  /\ TypeOK' /\ UNCHANGED schema
             /\ serverId # NoId => serverId' = serverId
             /\ ~(version > Supported)
  BY <1>4, <1>9 DEF NameServer
<1> QED
  BY <1>1, <1>2, <1>3, <1>5, <1>6, <1>7, <1>8, <1>9 DEF Migrate

(* A process gets one statement further when that statement has done its part. *)
LEMMA BehindNext == MigrationInv /\ Next => Behind'
<1> SUFFICES ASSUME MigrationInv, Next, NEW q \in Procs
             PROVE  /\ stage'[q] > Create => transport' # "absent" /\ packages' # "absent"
                    /\ stage'[q] > AlterTransport => transport' = "full"
                    /\ stage'[q] > AlterPackages => packages' = "full"
                    /\ stage'[q] > Index => index'
                    /\ stage'[q] > Stamp => version' = Supported
                    /\ stage'[q] > Name => serverId' # NoId
                    /\ version' > Supported => stage'[q] \in {Off, CheckVersion}
  BY DEF Behind
<1>1. PICK p \in Procs : Start(p) \/ Migrate(p) \/ Close(p) \/ Fail(p)
  BY DEF Next
<1>2. TypeOK /\ Behind /\ StampHonest
  BY DEF MigrationInv
<1>3. CASE stage'[q] = stage[q]
  BY <1>2, <1>3, Grows, MigrationAssumption DEF Behind, TypeOK, schema
<1>4. CASE stage'[q] # stage[q]
  <2>1. q = p
    BY <1>1, <1>2, <1>4 DEF TypeOK, Step, Start, Migrate, Close, Fail, Look, CreateTables,
      LookTransport, AddServerName, LookPackages, AddClaimedBy, Duplicate, CreateIndex,
      StampVersion, NameServer, SwitchToWal
  <2> USE <1>2, <2>1, MigrationAssumption
      DEF Behind, TypeOK, Step, schema, Off, CheckVersion, Create, LookAtTransport,
        AlterTransport, LookAtPackages, AlterPackages, Index, Stamp, Name, Switch, Open
  <2>2. CASE Start(p) \/ Close(p) \/ Fail(p)
    BY <2>2 DEF Start, Close, Fail
  <2>3. CASE Look(p)
    BY <2>3 DEF Look
  <2>4. CASE CreateTables(p)
    BY <2>4 DEF CreateTables, Made
  <2>5. CASE LookTransport(p)
    BY <2>5 DEF LookTransport
  <2>6. CASE AddServerName(p) \/ AddClaimedBy(p)
    BY <2>6 DEF AddServerName, AddClaimedBy
  <2>7. CASE LookPackages(p) \/ Duplicate(p)
    BY <2>7 DEF LookPackages, Duplicate
  <2>8. CASE CreateIndex(p)
    BY <2>8 DEF CreateIndex
  <2>9. CASE StampVersion(p)
    BY <2>9 DEF StampVersion
  <2>10. CASE SwitchToWal(p)
    BY <2>10 DEF SwitchToWal
  <2>11. ASSUME NEW id \in Ids, NameServer(p, id)
         PROVE  stage'[q] = Switch /\ serverId' # NoId /\ UNCHANGED schema
    BY <2>11 DEF NameServer
  <2>12. CASE \E id \in Ids : NameServer(p, id)
    <3>1. stage[q] = Name
      BY <2>12 DEF NameServer
    <3> QED
      BY <2>11, <2>12, <3>1
  <2> QED
    BY <1>1, <2>2, <2>3, <2>4, <2>5, <2>6, <2>7, <2>8, <2>9, <2>10, <2>12 DEF Migrate
<1> QED
  BY <1>3, <1>4

(* The version is stamped by a process that has all the columns behind it.    *)
LEMMA StampNext == MigrationInv /\ Next => StampHonest'
<1> SUFFICES ASSUME MigrationInv, Next, version' = Supported
             PROVE  Full'
  BY DEF StampHonest
<1>1. CASE version = Supported
  BY <1>1, Grows DEF MigrationInv, StampHonest, Full
<1>2. CASE version # Supported
  <2>1. PICK p \in Procs : StampVersion(p)
    BY <1>2 DEF Next, Start, Migrate, Close, Fail, Look, CreateTables, LookTransport,
      AddServerName, LookPackages, AddClaimedBy, Duplicate, CreateIndex, NameServer,
      SwitchToWal, schema
  <2>2. Full
    BY <2>1 DEF MigrationInv, Behind, Full, StampVersion, Step, AlterTransport,
      AlterPackages, Index, Stamp
  <2> QED
    BY <2>2, Grows DEF Full
<1> QED
  BY <1>1, <1>2

LEMMA MigrationNext == MigrationInv /\ [Next]_vars => MigrationInv'
<1> SUFFICES ASSUME MigrationInv, [Next]_vars PROVE MigrationInv'
  OBVIOUS
<1>1. CASE Next
  BY <1>1, Grows, BehindNext, StampNext DEF MigrationInv
<1>2. CASE UNCHANGED vars
  BY <1>2 DEF vars, schema, MigrationInv, TypeOK, StampHonest, Full, Behind
<1> QED
  BY <1>1, <1>2

(* The inductive invariant, TypeOK among it: every process has behind it what  *)
(* its place in _migrate says.                                              *)
THEOREM MigrationInvCorrect == Spec => []MigrationInv
BY MigrationInit, MigrationNext, PTL DEF Spec

(* The index is never there without its column, whoever is killed between the
   two statements (_migrate). *)
THEOREM TypeCorrect == Spec => []TypeOK
<1>1. MigrationInv => TypeOK
  BY DEF MigrationInv
<1> QED
  BY <1>1, MigrationInvCorrect, PTL

(* A database says that it is of this version only once it is (_migrate). *)
THEOREM StampHonestCorrect == Spec => []StampHonest
<1>1. MigrationInv => StampHonest
  BY DEF MigrationInv
<1> QED
  BY <1>1, MigrationInvCorrect, PTL

(* An open store has every column, the index, the stamp and the server id.    *)
THEOREM OpenCompleteCorrect == Spec => []OpenComplete
<1>1. MigrationInv => OpenComplete
  BY DEF MigrationInv, OpenComplete, Behind, StampHonest, Full, Open, AlterTransport,
    AlterPackages, Index, Stamp, Name
<1> QED
  BY <1>1, MigrationInvCorrect, PTL

(* The server id is set once. *)
THEOREM OneServerIdCorrect == Spec => OneServerId
<1>1. MigrationInv /\ [Next]_vars => [serverId # NoId => serverId' = serverId]_vars
  BY Grows
<1> QED
  BY <1>1, MigrationInvCorrect, PTL DEF Spec, OneServerId

(* A database of a newer version is left as it is. *)
THEOREM NewerUntouchedCorrect == Spec => NewerUntouched
<1>1. MigrationInv /\ [Next]_vars
        => [version > Supported => UNCHANGED <<schema, serverId>>]_vars
  BY Grows
<1> QED
  BY <1>1, MigrationInvCorrect, PTL DEF Spec, NewerUntouched

-----------------------------------------------------------------------------
(* The refinement: what the database is to whoever opens it, and who does.    *)
Opens == {p \in Procs : stage[p] = Open}

(* Only the stamp makes an older database a present one, and nothing takes     *)
(* the era back.                                                            *)
LEMMA EraMoves ==
  ASSUME MigrationInv, Next
  PROVE  \/ Era' = Era
         \/ Era = "older" /\ Era' = "present" /\ \E p \in Procs : StampVersion(p)
<1>1. /\ version = Supported => Full
      /\ version' = Supported => Full'
      /\ version = Supported \/ version' # version => version' = Supported
      /\ version > Supported => version' = version
      /\ version \in Nat /\ version' \in Nat /\ Supported \in Nat
  BY Grows, StampNext, MigrationAssumption
     DEF MigrationInv, StampHonest, TypeOK, schema
<1>2. CASE version' = version
  <2>1. Era' = Era
    BY <1>1, <1>2 DEF Era
  <2> QED
    BY <2>1
<1>3. CASE version' # version
  <2>1. Era = "older" /\ Era' = "present"
    BY <1>1, <1>3 DEF Era
  <2>2. \E p \in Procs : StampVersion(p)
    BY <1>3 DEF Next, Start, Migrate, Close, Fail, Look, CreateTables, LookTransport,
      AddServerName, LookPackages, AddClaimedBy, Duplicate, CreateIndex, NameServer,
      SwitchToWal, schema
  <2> QED
    BY <2>1, <2>2
<1> QED
  BY <1>2, <1>3

(* A process that neither opens the store nor had it open leaves the others.  *)
LEMMA OpensMove ==
  ASSUME TypeOK, NEW p \in Procs, NEW from, NEW to, Step(p, from, to)
  PROVE  Opens' = IF to = Open THEN Opens \cup {p} ELSE Opens \ {p}
BY DEF Opens, Step, TypeOK

(* Every statement is hidden, or is the upgrade, the naming, or an opening or  *)
(* an end.                                                                  *)
LEMMA UpgradeNext ==
  ASSUME MigrationInv, [Next]_vars
  PROVE  [Upgrade!Next]_<<Era, serverId, Opens>>
<1>1. CASE UNCHANGED vars
  BY <1>1 DEF vars, schema, Era, Full, Opens
<1>2. CASE Next
  <2>1. PICK p \in Procs : Start(p) \/ Migrate(p) \/ Close(p) \/ Fail(p)
    BY <1>2 DEF Next
  <2>2. TypeOK
    BY DEF MigrationInv
  <2> USE DEF Off, CheckVersion, Create, LookAtTransport, AlterTransport,
        LookAtPackages, AlterPackages, Index, Stamp, Name, Switch, Open
  <2>3. CASE Close(p) \/ Fail(p)
    <3>1. UNCHANGED <<schema, serverId>> /\ Step(p, stage[p], Off)
      BY <2>3 DEF Close, Fail, Step
    <3>2. Opens' = Opens \ {p} /\ UNCHANGED <<Era, serverId>>
      BY <2>2, <3>1, OpensMove DEF Era, Full, schema
    <3>3. CASE p \in Opens
      BY <3>2, <3>3 DEF Upgrade!Next, Upgrade!Ended, Opens
    <3>4. CASE p \notin Opens
      BY <3>2, <3>4
    <3> QED
      BY <3>3, <3>4
  <2>4. CASE SwitchToWal(p)
    <3>1. Step(p, Switch, Open) /\ UNCHANGED <<schema, serverId>> /\ stage[p] = Switch
      BY <2>4 DEF SwitchToWal, Step
    <3>2. Opens' = Opens \cup {p} /\ UNCHANGED <<Era, serverId>>
      BY <2>2, <3>1, OpensMove DEF Era, Full, schema
    <3>3. Era = "present" /\ serverId # NoId
      BY <3>1, MigrationAssumption
         DEF MigrationInv, Behind, StampHonest, TypeOK, Era
    <3> QED
      BY <3>2, <3>3 DEF Upgrade!Next, Upgrade!Opened, Opens
  <2>5. ASSUME NEW i \in Ids, NameServer(p, i)
        PROVE  [Upgrade!Next]_<<Era, serverId, Opens>>
    <3>1. /\ Step(p, Name, Switch) /\ stage[p] = Name /\ UNCHANGED schema
          /\ serverId' = IF serverId = NoId THEN i ELSE serverId
      BY <2>5 DEF NameServer, Step
    <3>2. Opens' = Opens \ {p} /\ p \notin Opens /\ UNCHANGED Era
      BY <2>2, <3>1, OpensMove DEF Era, Full, schema, Opens
    <3>3. Era = "present"
      BY <3>1, MigrationAssumption
         DEF MigrationInv, Behind, StampHonest, TypeOK, Era
    <3> QED
      BY <3>1, <3>2, <3>3 DEF Upgrade!Next, Upgrade!Named, Opens
  <2>6. ASSUME NEW from, NEW to, Step(p, from, to), from # Open, to # Open,
               UNCHANGED serverId
        PROVE  [Upgrade!Next]_<<Era, serverId, Opens>>
    <3>1. Opens' = Opens
      BY <2>2, <2>6, OpensMove DEF Opens, Step
    <3> QED
      BY <1>2, <2>6, <3>1, EraMoves DEF Upgrade!Next, Upgrade!Upgraded, Opens
  <2>7. CASE Start(p)
    BY <2>6, <2>7 DEF Start
  <2>8. CASE Look(p) \/ CreateTables(p) \/ LookTransport(p) \/ AddServerName(p)
    BY <2>6, <2>8 DEF Look, CreateTables, LookTransport, AddServerName
  <2>9. CASE LookPackages(p) \/ AddClaimedBy(p) \/ Duplicate(p)
    BY <2>6, <2>9 DEF LookPackages, AddClaimedBy, Duplicate
  <2>10. CASE CreateIndex(p) \/ StampVersion(p)
    BY <2>6, <2>10 DEF CreateIndex, StampVersion
  <2> QED
    BY <2>1, <2>3, <2>4, <2>5, <2>7, <2>8, <2>9, <2>10 DEF Migrate
<1> QED
  BY <1>1, <1>2

(* Any number of starts, killed or in each other's way, look to their users    *)
(* like one indivisible upgrade, and the id is named once (_migrate).          *)
THEOREM UpgradeKeptCorrect == Spec => UpgradeKept
<1>1. Init => Upgrade!Init
  <2> SUFFICES ASSUME Init PROVE Upgrade!Init
    OBVIOUS
  <2>1. Era \in {"older", "present", "newer"}
    BY DEF Era
  <2>2. serverId \in Ids \cup {NoId}
    BY DEF Init
  <2>3. {p \in Procs : stage[p] = Open} = {}
    BY DEF Init, Off, Open
  <2> QED
    BY <2>1, <2>2, <2>3 DEF Upgrade!Init
<1>2. MigrationInv /\ [Next]_vars
        => [Upgrade!Next]_<<Era, serverId, {p \in Procs : stage[p] = Open}>>
  BY UpgradeNext DEF Opens
<1> QED
  BY <1>1, <1>2, MigrationInvCorrect, PTL DEF Spec, UpgradeKept, Upgrade!Spec
=============================================================================
