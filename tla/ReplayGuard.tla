----------------------------- MODULE ReplayGuard -----------------------------
(***************************************************************************)
(* Acceptance of signed federation requests (api.py _federation_peer,       *)
(* security.py verify_federation_signature, storage.py                      *)
(* record_federation_nonce).  A handler thread reads the clock to judge the  *)
(* request's timestamp, reads it again for the cut-off of old nonces, and    *)
(* only then takes the store's lock to delete what is older and to insert   *)
(* the nonce.  Other threads, and the clock, move between the three.  The   *)
(* network may bring the same request any number of times.                  *)
(***************************************************************************)
EXTENDS Integers

CONSTANTS
  Requests,   \* signed requests
  Req,        \* request -> [peer, nonce, stamp]
  Handlers,   \* handler threads
  Skew,       \* FEDERATION_CLOCK_SKEW_SECONDS, 300
  Retention,  \* age at which a nonce is deleted, 600
  MaxLag,     \* longest time a thread takes from judging to recording
  MaxClock    \* bound: end of the clock

(* Nonces are told apart per peer; in KeyOfNonce they are not. *)
KeyOfNonce(r) == [nonce |-> Req[r].nonce]
Key(r) == [peer |-> Req[r].peer, nonce |-> Req[r].nonce]
Stamp(r) == Req[r].stamp

ASSUME ReplayAssumption ==
  /\ \A r \in Requests : Stamp(r) \in Int
  /\ Skew \in Nat /\ Retention \in Nat /\ MaxLag \in Nat /\ MaxClock \in Nat
  /\ Skew + MaxLag <= Retention

(* A peer never signs two requests with one nonce.                          *)
ASSUME NonceAssumption ==
  \A r, q \in Requests :
    Req[r].peer = Req[q].peer /\ Req[r].nonce = Req[q].nonce => r = q

VARIABLES
  clock,     \* int(time.time())
  pc,        \* handler -> "idle", "verified" or "cutoff"
  req,       \* handler -> the request it is serving
  since,     \* handler -> when it judged the timestamp
  cutoff,    \* handler -> the cut-off it computed
  nonces,    \* rows of federation_nonces: [key, seen]
  accepted,  \* history: how often each request was accepted
  refused    \* history: requests ever refused as replayed

vars == <<clock, pc, req, since, cutoff, nonces, accepted, refused>>

(* |now - stamp| is within the skew; NotAhead looks to one side only.        *)
NotAhead(r) == Stamp(r) - clock <= Skew
Fresh(r) == clock - Stamp(r) <= Skew /\ Stamp(r) - clock <= Skew

(* The signature is right; the timestamp decides.  A stale request gets 401 *)
(* and changes nothing.                                                     *)
Verify(h, r) ==
  /\ pc[h] = "idle"
  /\ Fresh(r)
  /\ pc' = [pc EXCEPT ![h] = "verified"]
  /\ req' = [req EXCEPT ![h] = r]
  /\ since' = [since EXCEPT ![h] = clock]
  /\ UNCHANGED <<clock, cutoff, nonces, accepted, refused>>

(* record_federation_nonce before its lock. *)
ReadCutoff(h) ==
  /\ pc[h] = "verified"
  /\ pc' = [pc EXCEPT ![h] = "cutoff"]
  /\ cutoff' = [cutoff EXCEPT ![h] = clock - Retention]
  /\ UNCHANGED <<clock, req, since, nonces, accepted, refused>>

(* Under the lock: the delete, then the insert and its primary key.         *)
Record(h) ==
  LET r == req[h]
      kept == {n \in nonces : n.seen >= cutoff[h]}
      known == \E n \in kept : n.key = Key(r)
  IN /\ pc[h] = "cutoff"
     /\ pc' = [pc EXCEPT ![h] = "idle"]
     /\ nonces' = IF known THEN kept ELSE kept \cup {[key |-> Key(r), seen |-> Stamp(r)]}
     /\ accepted' = [accepted EXCEPT ![r] = IF known THEN @ ELSE @ + 1]
     /\ refused' = IF known THEN refused \cup {r} ELSE refused
     /\ UNCHANGED <<clock, req, since, cutoff>>

(* A restart of the server loses the threads and keeps the table.           *)
Restart ==
  /\ \E h \in Handlers : pc[h] # "idle"
  /\ pc' = [h \in Handlers |-> "idle"]
  /\ UNCHANGED <<clock, req, since, cutoff, nonces, accepted, refused>>

Tick ==
  /\ clock < MaxClock
  /\ \A h \in Handlers : pc[h] # "idle" => clock + 1 - since[h] <= MaxLag
  /\ clock' = clock + 1
  /\ UNCHANGED <<pc, req, since, cutoff, nonces, accepted, refused>>

Init ==
  /\ clock = 0
  /\ pc = [h \in Handlers |-> "idle"]
  /\ req \in [Handlers -> Requests]
  /\ since = [h \in Handlers |-> 0]
  /\ cutoff = [h \in Handlers |-> 0]
  /\ nonces = {}
  /\ accepted = [r \in Requests |-> 0]
  /\ refused = {}

Next ==
  \/ \E h \in Handlers, r \in Requests : Verify(h, r)
  \/ \E h \in Handlers : ReadCutoff(h) \/ Record(h)
  \/ Restart
  \/ Tick

Spec == Init /\ [][Next]_vars

-----------------------------------------------------------------------------
(* The values the handlers and the table take. *)
TypeOK ==
  /\ clock \in 0..MaxClock
  /\ pc \in [Handlers -> {"idle", "verified", "cutoff"}]
  /\ req \in [Handlers -> Requests]
  /\ since \in [Handlers -> Int]
  /\ cutoff \in [Handlers -> Int]
  /\ \A n \in nonces : \E r \in Requests : n = [key |-> Key(r), seen |-> Stamp(r)]
  /\ accepted \in [Requests -> Nat]
  /\ refused \subseteq Requests

(* No signed request is accepted twice, however often and late it arrives   *)
(* and however its handlers interleave with the deletion of old nonces, as  *)
(* long as a handler records within Retention - Skew of judging.            *)
AcceptedOnce == \A r \in Requests : accepted[r] <= 1

(* Only a request that was accepted before is refused as replayed: neither  *)
(* a stale row nor another peer's nonce stands in its way.                  *)
RefusedOnlyReplays == \A r \in refused : accepted[r] > 0

(* Why: an accepted nonce stays in the table as long as a handler could      *)
(* still have judged its timestamp good.                                    *)
Remembered ==
  /\ \A r \in Requests :
       \/ accepted[r] = 0 /\ \A n \in nonces : n.key # Key(r)
       \/ accepted[r] = 1 /\ \/ \E n \in nonces : n.key = Key(r)
                             \/ clock - Retention > Stamp(r)
  /\ \A h \in Handlers : pc[h] # "idle" =>
       /\ since[h] - Stamp(req[h]) <= Skew
       /\ clock - since[h] <= MaxLag
  /\ \A h \in Handlers : pc[h] = "cutoff" => cutoff[h] <= clock - Retention

(* The inductive invariant of ReplayGuardProofs. *)
ReplayInv == TypeOK /\ Remembered /\ RefusedOnlyReplays
=============================================================================
