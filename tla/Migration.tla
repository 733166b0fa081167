------------------------------ MODULE Migration ------------------------------
(***************************************************************************)
(* How a database comes to the present schema (storage.py Store.__init__ and *)
(* _migrate).                                                               *)
(*                                                                         *)
(* Every command, and the server, opens the database and migrates it first,  *)
(* several of them at a time when the operator types a command while the App *)
(* boots.  The tables are created in one transaction; every other statement  *)
(* of _migrate is a transaction of its own, so that others come in between.  *)
(* A process may be killed, or a statement fail (locked, disk full), at any   *)
(* point; whoever started it starts it again.                               *)
(***************************************************************************)
EXTENDS Integers

CONSTANTS
  Procs,     \* the processes that open the database
  Ids,       \* the server ids uuid4 returns
  NoId,      \* no server_id yet
  Supported, \* STORAGE_SCHEMA_VERSION
  MaxFaults  \* bound: kills and failed statements

Unstamped == 0

ASSUME MigrationAssumption ==
  NoId \notin Ids /\ Supported \in Nat \ {Unstamped} /\ MaxFaults \in Nat

(* Where a process stands: each number is the statement it executes next.     *)
Off == 0
CheckVersion == 1
Create == 2
LookAtTransport == 3
AlterTransport == 4
LookAtPackages == 5
AlterPackages == 6
Index == 7
Stamp == 8
Name == 9
Switch == 10
Open == 11

VARIABLES
  stage,      \* where each process stands
  version,    \* metadata.schema_version; Unstamped: no row
  transport,  \* federation_peer_transport: absent, narrow (no tls_server_name), full
  packages,   \* key_packages: absent, narrow (no claimed_by), full
  index,      \* key_packages_claimant_idx is there
  serverId,   \* metadata.server_id
  faults      \* how many steps have failed

schema == <<version, transport, packages, index>>
vars   == <<stage, schema, serverId, faults>>

Step(p, from, to) == stage[p] = from /\ stage' = [stage EXCEPT ![p] = to]

Start(p) == Step(p, Off, CheckVersion) /\ UNCHANGED <<schema, serverId, faults>>

(* A newer database is refused before anything is written to it.             *)
LookOnly(p) ==      \* leaves a newer one to CREATE TABLE IF NOT EXISTS
  Step(p, CheckVersion, Create) /\ UNCHANGED <<schema, serverId, faults>>
SkipIfStamped(p) == \* trusts the stamp
  /\ Step(p, CheckVersion, CASE version > Supported -> Off
                             [] version = Supported -> Switch
                             [] OTHER -> Create)
  /\ UNCHANGED <<schema, serverId, faults>>
Look(p) ==
  /\ Step(p, CheckVersion, IF version > Supported THEN Off ELSE Create)
  /\ UNCHANGED <<schema, serverId, faults>>

(* BEGIN IMMEDIATE ... COMMIT: a table that is missing is made with all of its *)
(* columns, one that is there stays as it is.  CreateAndStamp also writes the *)
(* version.                                                                *)
Made(table) == IF table = "absent" THEN "full" ELSE table
CreateAndStamp(p) ==
  /\ Step(p, Create, LookAtTransport)
  /\ transport' = Made(transport) /\ packages' = Made(packages)
  /\ version' = Supported
  /\ UNCHANGED <<index, serverId, faults>>
CreateTables(p) ==
  /\ Step(p, Create, LookAtTransport)
  /\ transport' = Made(transport) /\ packages' = Made(packages)
  /\ UNCHANGED <<version, index, serverId, faults>>

(* PRAGMA table_info, and what follows from it.                              *)
LookTransportAlways(p) ==   \* alters without a look
  Step(p, LookAtTransport, AlterTransport) /\ UNCHANGED <<schema, serverId, faults>>
LookTransport(p) ==
  /\ Step(p, LookAtTransport,
          IF transport = "narrow" THEN AlterTransport ELSE LookAtPackages)
  /\ UNCHANGED <<schema, serverId, faults>>

LookPackagesNever(p) ==     \* forgets the column
  Step(p, LookAtPackages, Index) /\ UNCHANGED <<schema, serverId, faults>>
LookPackages(p) ==
  /\ Step(p, LookAtPackages, IF packages = "narrow" THEN AlterPackages ELSE Index)
  /\ UNCHANGED <<schema, serverId, faults>>

AddServerName(p) ==
  /\ Step(p, AlterTransport, LookAtPackages)
  /\ transport = "narrow" /\ transport' = "full"
  /\ UNCHANGED <<version, packages, index, serverId, faults>>

AddClaimedBy(p) ==
  /\ Step(p, AlterPackages, Index)
  /\ packages = "narrow" /\ packages' = "full"
  /\ UNCHANGED <<version, transport, index, serverId, faults>>

(* Another process added the column since the look: "duplicate column name"    *)
(* ends this one.                                                           *)
Duplicate(p) ==
  /\ \/ Step(p, AlterTransport, Off) /\ transport = "full"
     \/ Step(p, AlterPackages, Off) /\ packages = "full"
  /\ UNCHANGED <<schema, serverId, faults>>

CreateIndex(p) ==
  /\ Step(p, Index, Stamp)
  /\ index' = TRUE
  /\ UNCHANGED <<version, transport, packages, serverId, faults>>

StampVersion(p) ==
  /\ Step(p, Stamp, Name)
  /\ version' = Supported
  /\ UNCHANGED <<transport, packages, index, serverId, faults>>

(* INSERT OR IGNORE; NameAnew updates the row, as for the version.            *)
NameAnew(p, id) ==
  /\ Step(p, Name, Switch)
  /\ serverId' = id
  /\ UNCHANGED <<schema, faults>>
NameServer(p, id) ==
  /\ Step(p, Name, Switch)
  /\ serverId' = IF serverId = NoId THEN id ELSE serverId
  /\ UNCHANGED <<schema, faults>>

(* The journal mode and the time-out: the store is open. *)
SwitchToWal(p) == Step(p, Switch, Open) /\ UNCHANGED <<schema, serverId, faults>>
Close(p) == Step(p, Open, Off) /\ UNCHANGED <<schema, serverId, faults>>

(* A kill, or a statement that fails: what was not committed is gone.         *)
Fail(p) ==
  /\ stage[p] # Off /\ faults < MaxFaults
  /\ stage' = [stage EXCEPT ![p] = Off]
  /\ faults' = faults + 1
  /\ UNCHANGED <<schema, serverId>>

-----------------------------------------------------------------------------
Full == transport = "full" /\ packages = "full" /\ index

(* What a process may find: no database yet, one of an older version, one     *)
(* that is up to date, one of a newer version.                              *)
Fresh == version = Unstamped /\ transport = "absent" /\ packages = "absent" /\ ~index
Older == /\ version \in 1 .. Supported - 1
         /\ transport \in {"absent", "narrow", "full"}
         /\ packages \in {"absent", "narrow", "full"}
         /\ index = (packages = "full")
UpToDate == version = Supported /\ transport = "full" /\ packages = "full" /\ index
Newer == version = Supported + 1 /\ index = (packages = "full")

Init ==
  /\ stage = [p \in Procs |-> Off]
  /\ faults = 0
  /\ version \in 0 .. Supported + 1
  /\ transport \in {"absent", "narrow", "full"}
  /\ packages \in {"absent", "narrow", "full"}
  /\ index \in BOOLEAN
  /\ \/ Fresh /\ serverId = NoId
     \/ (Older \/ UpToDate \/ Newer) /\ serverId \in Ids

Migrate(p) ==
  \/ Look(p) \/ CreateTables(p)
  \/ LookTransport(p) \/ AddServerName(p)
  \/ LookPackages(p) \/ AddClaimedBy(p)
  \/ Duplicate(p) \/ CreateIndex(p) \/ StampVersion(p)
  \/ \E id \in Ids : NameServer(p, id)
  \/ SwitchToWal(p)

Next == \E p \in Procs : Start(p) \/ Migrate(p) \/ Close(p) \/ Fail(p)

Spec == Init /\ [][Next]_vars

(* A process that runs gets on, and one that ended is started again: run.sh by *)
(* the supervisor, a command by the operator.                               *)
FairSpec == Spec /\ \A p \in Procs : WF_vars(Start(p)) /\ WF_vars(Migrate(p))

-----------------------------------------------------------------------------
(* The index is never there without the column it stands on. *)
TypeOK ==
  /\ stage \in [Procs -> Off .. Open]
  /\ version \in Nat
  /\ transport \in {"absent", "narrow", "full"}
  /\ packages \in {"absent", "narrow", "full"}
  /\ index \in BOOLEAN /\ (index => packages = "full")
  /\ serverId \in Ids \cup {NoId}
  /\ faults \in 0..MaxFaults

(* A database says that it is of this version only once it is: not while one   *)
(* of several starts still has a statement to go, whoever of them is killed.  *)
StampHonest == version = Supported => Full

(* Nobody works on a database that lacks a column, the index that keeps a      *)
(* package from two claimants, the stamp or the server id: also one who came   *)
(* by after another start was killed half-way, and as long as it is open.     *)
OpenComplete ==
  \A p \in Procs : stage[p] = Open => Full /\ version = Supported /\ serverId # NoId

(* A database of a newer version is not touched (test_regressions.py:117), by  *)
(* none of the statements.                                                  *)
NewerUntouched == [][version > Supported => UNCHANGED <<schema, serverId>>]_vars

(* Killed or in each other's way, every start gets through in the end, unless  *)
(* the database is newer: no half-way migration refuses the next one.         *)
EventuallyOpens == \A p \in Procs : <>(stage[p] = Open) \/ [](version > Supported)

(* The inductive invariant of MigrationProofs: what a process has behind it is *)
(* there, and none gets past the look at a newer database.                   *)
Behind ==
  \A p \in Procs :
    /\ stage[p] > Create => transport # "absent" /\ packages # "absent"
    /\ stage[p] > AlterTransport => transport = "full"
    /\ stage[p] > AlterPackages => packages = "full"
    /\ stage[p] > Index => index
    /\ stage[p] > Stamp => version = Supported
    /\ stage[p] > Name => serverId # NoId
    /\ version > Supported => stage[p] \in {Off, CheckVersion}
MigrationInv == TypeOK /\ StampHonest /\ Behind

(* To whoever opens it, the database is brought up to date in one step, its    *)
(* server id is set once, and nobody works on it before: SchemaUpgrade, for    *)
(* any number of starts that are killed or get in each other's way (_migrate). *)
Era == IF version > Supported THEN "newer"
       ELSE IF version = Supported /\ Full THEN "present" ELSE "older"
Upgrade == INSTANCE SchemaUpgrade WITH
  db <- Era, id <- serverId, open <- {p \in Procs : stage[p] = Open}
UpgradeKept == Upgrade!Spec

(* The server id, which peers and events know the server by, is never changed  *)
(* again, whichever of the first starts is the first to set it.              *)
OneServerId == [][serverId # NoId => serverId' = serverId]_vars
=============================================================================
