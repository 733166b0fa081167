------------------------------- MODULE Startup -------------------------------
(***************************************************************************)
(* How the App boots (run.sh, cli.py) and what that makes of the accounts   *)
(* and of the table of federation peers (storage.py add_peer,               *)
(* configure_peer, disable_all_peers, resolve_peer).                        *)
(*                                                                         *)
(* run.sh runs one short process after the other on the same database:       *)
(* bootstrap-account, disable-peers, one configure-peer for each entry of    *)
(* the operator's list, and at last the server.  Any of them may be killed,  *)
(* the operator edits the list at any time (it is read once a boot), and     *)
(* may run create-account and add-peer by hand meanwhile.  A command that    *)
(* fails ends the boot (set -e); the supervisor then starts it again.        *)
(***************************************************************************)
EXTENDS Integers, FiniteSets

CONSTANTS
  Peers,        \* peer ids
  Addresses,    \* IPv4 addresses
  Ports,        \* TCP ports
  Manual,       \* bound: the peers the operator may add by hand
  MaxAccounts,  \* bound: accounts ever created
  MaxBoots      \* bound: boots

Nowhere == <<"nowhere">>
Endpoints == Addresses \X Ports

ASSUME StartupAssumption ==
  /\ Nowhere \notin Endpoints
  /\ Manual \subseteq Peers
  /\ MaxAccounts \in Nat /\ MaxBoots \in Nat

(* A list of peers: each peer at most once, no two at one endpoint.         *)
Tables == [Peers -> Endpoints \cup {Nowhere}]
Injective(table) ==
  \A p, q \in Peers : table[p] = table[q] /\ table[p] # Nowhere => p = q
Lists == {table \in Tables : Injective(table)}
Entries(table) == {p \in Peers : table[p] # Nowhere}

VARIABLES
  options,   \* the operator's federation_peers
  row,       \* federation_peers: endpoint of each peer; Nowhere: no row
  enabled,   \* federation_peers.enabled
  phase,     \* where the boot stands
  list,      \* the list as this boot read it
  todo,      \* its entries not yet configured
  accounts,  \* number of accounts
  boots,     \* boots so far
  byHand,    \* history: peers add-peer enabled since disable-peers
  firsts     \* history: accounts bootstrap-account created

vars == <<options, row, enabled, phase, list, todo, accounts, boots, byHand,
          firsts>>
peers == <<row, enabled, byHand>>

-----------------------------------------------------------------------------
(* The commands of run.sh *)

Boot ==
  /\ phase \in {"down", "aborted"} /\ boots < MaxBoots
  /\ boots' = boots + 1
  /\ phase' = "bootstrap"
  /\ UNCHANGED <<options, peers, list, todo, accounts, firsts>>

(* bootstrap-account looks whether there is an account, then creates one;    *)
(* both under the store's lock, but one after the other.                    *)
CountNothing ==   \* creates it at every boot
  /\ phase = "bootstrap"
  /\ phase' = "create"
  /\ UNCHANGED <<options, peers, list, todo, accounts, boots, firsts>>
CountAccounts ==
  /\ phase = "bootstrap"
  /\ phase' = IF accounts > 0 THEN "disable" ELSE "create"
  /\ UNCHANGED <<options, peers, list, todo, accounts, boots, firsts>>

CreateFirst ==
  /\ phase = "create" /\ accounts < MaxAccounts
  /\ accounts' = accounts + 1
  /\ firsts' = firsts + 1
  /\ phase' = "disable"
  /\ UNCHANGED <<options, peers, list, todo, boots>>

DisablePeers ==
  /\ phase = "disable"
  /\ enabled' = {}
  /\ byHand' = {}
  /\ phase' = "read"
  /\ UNCHANGED <<options, row, list, todo, accounts, boots, firsts>>

(* The loop reads the list from a process substitution, whose failure        *)
(* neither set -e nor pipefail sees: the list is then empty.                *)
ReadList ==
  /\ phase = "read"
  /\ \/ list' = options
     \/ list' = [p \in Peers |-> Nowhere]
  /\ todo' = Entries(list')
  /\ phase' = "configure"
  /\ UNCHANGED <<options, peers, accounts, boots, firsts>>

(* configure_peer: the endpoint is looked for among all the other rows, the  *)
(* disabled ones included.                                                  *)
Conflict(p, endpoint) == \E q \in Peers \ {p} : row[q] = endpoint

ConfigureNew(p) ==   \* leaves the endpoint of a known peer alone
  /\ phase = "configure" /\ p \in todo
  /\ ~Conflict(p, list[p])
  /\ row' = [row EXCEPT ![p] = IF @ = Nowhere THEN list[p] ELSE @]
  /\ enabled' = enabled \cup {p}
  /\ todo' = todo \ {p}
  /\ UNCHANGED <<options, phase, list, accounts, boots, byHand, firsts>>
ConfigurePeer(p) ==
  /\ phase = "configure" /\ p \in todo
  /\ ~Conflict(p, list[p])
  /\ row' = [row EXCEPT ![p] = list[p]]
  /\ enabled' = enabled \cup {p}
  /\ todo' = todo \ {p}
  /\ UNCHANGED <<options, phase, list, accounts, boots, byHand, firsts>>

RefusePeer(p) ==
  /\ phase = "configure" /\ p \in todo
  /\ Conflict(p, list[p])
  /\ phase' = "aborted"
  /\ UNCHANGED <<options, peers, list, todo, accounts, boots, firsts>>

Serve ==
  /\ phase = "configure" /\ todo = {}
  /\ phase' = "serve"
  /\ UNCHANGED <<options, peers, list, todo, accounts, boots, firsts>>

(* A stop of the App, at any moment. *)
Kill ==
  /\ phase \notin {"down", "aborted"}
  /\ phase' = "down"
  /\ UNCHANGED <<options, peers, list, todo, accounts, boots, firsts>>

-----------------------------------------------------------------------------
(* The operator *)

EditOptions ==
  /\ options' \in Lists \ {options}
  /\ UNCHANGED <<peers, phase, list, todo, accounts, boots, firsts>>

(* create-account. *)
CreateAccount ==
  /\ accounts < MaxAccounts
  /\ accounts' = accounts + 1
  /\ UNCHANGED <<options, peers, phase, list, todo, boots, firsts>>

(* add-peer: the primary key and UNIQUE(address, port) refuse the rest.      *)
AddPeer(p, endpoint) ==
  /\ row[p] = Nowhere
  /\ ~Conflict(p, endpoint)
  /\ row' = [row EXCEPT ![p] = endpoint]
  /\ enabled' = enabled \cup {p}
  /\ byHand' = byHand \cup {p}
  /\ UNCHANGED <<options, phase, list, todo, accounts, boots, firsts>>

Init ==
  /\ options \in Lists
  /\ row = [p \in Peers |-> Nowhere]
  /\ enabled = {}
  /\ phase = "down"
  /\ list = [p \in Peers |-> Nowhere]
  /\ todo = {}
  /\ accounts = 0
  /\ boots = 0
  /\ byHand = {}
  /\ firsts = 0

Next ==
  \/ Boot \/ CountAccounts \/ CreateFirst \/ DisablePeers \/ ReadList
  \/ \E p \in Peers : ConfigurePeer(p) \/ RefusePeer(p)
  \/ Serve \/ Kill
  \/ EditOptions \/ CreateAccount
  \/ \E p \in Manual, endpoint \in Endpoints : AddPeer(p, endpoint)

Spec == Init /\ [][Next]_vars

(* resolve_peer: the enabled peers an address, with or without a port, may   *)
(* stand for; with none or with several the lookup is refused.               *)
AnyAtAddress(address) == {p \in Entries(row) : row[p][1] = address}  \* disabled too
AtAddress(address) == {p \in enabled : row[p][1] = address}
AtEndpoint(endpoint) == {p \in enabled : row[p] = endpoint}
ResolvesTo(found, p) == found = {p}

-----------------------------------------------------------------------------
(* The values of the options, of the table and of the boot. *)
TypeOK ==
  /\ options \in Lists /\ list \in Lists
  /\ row \in Tables
  /\ enabled \subseteq Entries(row) /\ byHand \subseteq enabled
  /\ phase \in {"down", "bootstrap", "create", "disable", "read", "configure",
                "serve", "aborted"}
  /\ todo \subseteq Entries(list)
  /\ accounts \in 0..MaxAccounts /\ firsts \in 0..accounts
  /\ boots \in 0..MaxBoots

(* A running server talks exactly to the peers of the list it booted with,  *)
(* at the endpoints of that list, and to those the operator added by hand   *)
(* since: nothing of an earlier list, of a boot that was killed half way or  *)
(* of an aborted one is left enabled.                                       *)
ServingMatches ==
  phase = "serve" =>
    /\ enabled = Entries(list) \cup byHand
    /\ \A p \in Entries(list) : row[p] = list[p]

(* Every listed peer is found again under its endpoint, and under its bare  *)
(* address when no other enabled peer shares that: no disabled leftover     *)
(* ever answers for it (resolve_peer).                                      *)
ListedResolve ==
  phase = "serve" =>
    \A p \in Entries(list) :
      /\ ResolvesTo(AtEndpoint(list[p]), p)
      /\ ResolvesTo(AtAddress(list[p][1]), p)
           <=> \A q \in enabled \ {p} : row[q][1] # list[p][1]

(* DOCS.md:14: the bootstrap account "is ignored after the first account     *)
(* exists": over all the boots of one database, whatever is killed, it is    *)
(* created at most once.                                                    *)
BootstrapOnce == firsts <= 1

(* DOCS.md:34-41: the operator configures the peers in the list, and a peer  *)
(* removed from it is disabled by the next restart.  So a boot with a list   *)
(* without contradictions applies it.                                       *)
ListApplies == phase # "aborted"

(* What they rest on: no two rows share an endpoint, what is enabled is what *)
(* this boot has configured so far and what was added by hand, and           *)
(* bootstrap-account only gets past its look at the accounts once.          *)
TableUnique == Injective(row)
EnabledSoFar ==
  /\ phase = "read" => enabled = byHand
  /\ phase \in {"configure", "serve"} =>
       /\ enabled = (Entries(list) \ todo) \cup byHand
       /\ \A p \in Entries(list) \ todo : row[p] = list[p]
  /\ phase = "serve" => todo = {}
FirstIsFirst == phase = "create" => firsts = 0

(* The inductive invariant of StartupProofs. *)
BootInv == TypeOK /\ TableUnique /\ EnabledSoFar /\ FirstIsFirst /\ BootstrapOnce
=============================================================================
