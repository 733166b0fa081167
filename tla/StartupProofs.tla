---------------------------- MODULE StartupProofs ----------------------------
(***************************************************************************)
(* Proof that a running server is enabled for exactly the peers of its list *)
(* and those added by hand, that they resolve, and that the bootstrap        *)
(* account is created once, for any peers, endpoints and number of boots.   *)
(***************************************************************************)
EXTENDS Startup, TLAPS

(* The invariant holds with an empty database. *)
LEMMA BootInit == Init => BootInv
BY StartupAssumption
DEF Init, BootInv, TypeOK, TableUnique, EnabledSoFar, FirstIsFirst, BootstrapOnce,
    Lists, Tables, Injective, Entries

(* The commands and edits that leave the peer table and the list alone.     *)
LEMMA PlainKeeps ==
  ASSUME BootInv,
         \/ Boot \/ CountAccounts \/ CreateFirst \/ Serve \/ Kill
         \/ EditOptions \/ CreateAccount \/ (\E p \in Peers : RefusePeer(p))
  PROVE  BootInv'
<1>1. CASE Boot
  BY <1>1, StartupAssumption DEF Boot, BootInv, TypeOK, TableUnique, EnabledSoFar, FirstIsFirst,
    BootstrapOnce, peers
<1>2. CASE CountAccounts
  BY <1>2 DEF CountAccounts, BootInv, TypeOK, TableUnique, EnabledSoFar, FirstIsFirst,
    BootstrapOnce, peers
<1>3. CASE CreateFirst
  BY <1>3, StartupAssumption DEF CreateFirst, BootInv, TypeOK, TableUnique,
    EnabledSoFar, FirstIsFirst, BootstrapOnce, peers
<1>4. CASE Serve \/ Kill
  BY <1>4 DEF Serve, Kill, BootInv, TypeOK, TableUnique, EnabledSoFar, FirstIsFirst,
    BootstrapOnce, peers
<1>5. CASE EditOptions
  BY <1>5 DEF EditOptions, BootInv, TypeOK, TableUnique, EnabledSoFar, FirstIsFirst,
    BootstrapOnce, peers
<1>6. CASE CreateAccount
  BY <1>6, StartupAssumption DEF CreateAccount, BootInv, TypeOK, TableUnique,
    EnabledSoFar, FirstIsFirst, BootstrapOnce, peers
<1>7. CASE \E p \in Peers : RefusePeer(p)
  BY <1>7 DEF RefusePeer, BootInv, TypeOK, TableUnique, EnabledSoFar, FirstIsFirst,
    BootstrapOnce, peers
<1> QED
  BY <1>1, <1>2, <1>3, <1>4, <1>5, <1>6, <1>7

(* disable-peers and the reading of the list start from a clean table. *)
LEMMA ListKeeps ==
  ASSUME BootInv, DisablePeers \/ ReadList
  PROVE  BootInv'
<1>1. CASE DisablePeers
  BY <1>1 DEF DisablePeers, BootInv, TypeOK, TableUnique, EnabledSoFar, FirstIsFirst,
    BootstrapOnce
<1>2. CASE ReadList
  <2>1. [p \in Peers |-> Nowhere] \in Lists
    BY DEF Lists, Tables, Injective
  <2>2. list' \in Lists /\ todo' = Entries(list')
    BY <1>2, <2>1 DEF ReadList, BootInv, TypeOK
  <2> QED
    BY <1>2, <2>2 DEF ReadList, BootInv, TypeOK, TableUnique, EnabledSoFar,
      FirstIsFirst, BootstrapOnce, peers
<1> QED
  BY <1>1, <1>2

(* An insert or update of a row whose endpoint no other row has. *)
LEMMA RowKeeps ==
  ASSUME BootInv, NEW p \in Peers, NEW endpoint \in Endpoints,
         ~Conflict(p, endpoint),
         row' = [row EXCEPT ![p] = endpoint]
  PROVE  /\ row' \in Tables
         /\ Injective(row')
         /\ Entries(row') = Entries(row) \cup {p}
<1>1. row \in Tables /\ Injective(row) /\ endpoint # Nowhere
  BY StartupAssumption DEF BootInv, TypeOK, TableUnique
<1>2. row' \in Tables
  BY <1>1 DEF Tables
<1>3. Injective(row')
  BY <1>1 DEF Injective, Tables, Conflict
<1>4. Entries(row') = Entries(row) \cup {p}
  BY <1>1 DEF Entries, Tables
<1> QED
  BY <1>2, <1>3, <1>4

(* A configured peer has the endpoint of the list. *)
LEMMA ConfigureKeeps ==
  ASSUME BootInv, NEW p \in Peers, ConfigurePeer(p)
  PROVE  BootInv'
<1>1. p \in Entries(list) /\ list[p] \in Endpoints
  BY DEF ConfigurePeer, BootInv, TypeOK, Entries, Lists, Tables
<1>2. row' \in Tables /\ Injective(row') /\ Entries(row') = Entries(row) \cup {p}
  BY <1>1, RowKeeps DEF ConfigurePeer
<1>3. \A q \in Entries(list) \ todo' : row'[q] = list[q]
  BY <1>1 DEF ConfigurePeer, BootInv, TypeOK, EnabledSoFar, Tables, Entries
<1> QED
  BY <1>1, <1>2, <1>3 DEF ConfigurePeer, BootInv, TypeOK, TableUnique, EnabledSoFar,
    FirstIsFirst, BootstrapOnce

(* A peer added by hand is counted as such. *)
LEMMA AddKeeps ==
  ASSUME BootInv, NEW p \in Manual, NEW endpoint \in Endpoints, AddPeer(p, endpoint)
  PROVE  BootInv'
<1>1. p \in Peers
  BY StartupAssumption
<1>2. row' \in Tables /\ Injective(row') /\ Entries(row') = Entries(row) \cup {p}
  BY <1>1, RowKeeps DEF AddPeer
<1>3. phase \in {"configure", "serve"} =>
        \A q \in Entries(list) \ todo : row'[q] = list[q]
  <2> SUFFICES ASSUME phase \in {"configure", "serve"}, NEW q \in Entries(list) \ todo
               PROVE  row'[q] = list[q]
    OBVIOUS
  <2>1. row[q] = list[q] /\ list[q] # Nowhere /\ row[p] = Nowhere
    BY DEF AddPeer, BootInv, EnabledSoFar, Entries
  <2> QED
    BY <2>1, <1>1 DEF AddPeer, BootInv, TypeOK, Tables, Entries
<1> QED
  BY <1>1, <1>2, <1>3 DEF AddPeer, BootInv, TypeOK, TableUnique, EnabledSoFar,
    FirstIsFirst, BootstrapOnce

(* Every step preserves the invariant. *)
LEMMA BootNext == BootInv /\ [Next]_vars => BootInv'
<1> SUFFICES ASSUME BootInv, [Next]_vars PROVE BootInv'
  OBVIOUS
<1>1. CASE UNCHANGED vars
  BY <1>1 DEF vars, BootInv, TypeOK, TableUnique, EnabledSoFar, FirstIsFirst, BootstrapOnce
<1>2. CASE Next
  BY <1>2, PlainKeeps, ListKeeps, ConfigureKeeps, AddKeeps DEF Next
<1> QED
  BY <1>1, <1>2

(* The inductive invariant, TypeOK among it. *)
THEOREM BootInvCorrect == Spec => []BootInv
BY BootInit, BootNext, PTL DEF Spec

(* A running server is enabled for the peers of its list and those added by  *)
(* hand, no others, whatever boots were killed or aborted before.           *)
THEOREM ServingMatchesCorrect == Spec => []ServingMatches
<1>1. BootInv => ServingMatches
  BY DEF BootInv, EnabledSoFar, ServingMatches
<1> QED
  BY <1>1, BootInvCorrect, PTL

(* Every listed peer resolves. *)
THEOREM ListedResolveCorrect == Spec => []ListedResolve
<1>1. BootInv => ListedResolve
  <2> SUFFICES ASSUME BootInv, phase = "serve", NEW p \in Entries(list)
               PROVE  /\ AtEndpoint(list[p]) = {p}
                      /\ AtAddress(list[p][1]) = {p}
                           <=> \A q \in enabled \ {p} : row[q][1] # list[p][1]
    BY DEF ListedResolve, ResolvesTo
  <2>1. p \in enabled /\ row[p] = list[p] /\ row[p] # Nowhere
    BY DEF BootInv, EnabledSoFar, Entries
  <2>2. AtEndpoint(list[p]) = {p}
    BY <2>1 DEF AtEndpoint, BootInv, TypeOK, TableUnique, Injective, Entries
  <2>3. AtAddress(list[p][1]) = {p} <=> \A q \in enabled \ {p} : row[q][1] # list[p][1]
    BY <2>1 DEF AtAddress
  <2> QED
    BY <2>2, <2>3
<1> QED
  BY <1>1, BootInvCorrect, PTL

(* Over all boots the bootstrap account is created at most once. *)
THEOREM BootstrapOnceCorrect == Spec => []BootstrapOnce
<1>1. BootInv => BootstrapOnce
  BY DEF BootInv
<1> QED
  BY <1>1, BootInvCorrect, PTL
=============================================================================
