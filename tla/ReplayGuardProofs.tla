-------------------------- MODULE ReplayGuardProofs --------------------------
(***************************************************************************)
(* Proof that no signed request is accepted twice, for any number of         *)
(* requests and handlers and any length of the run.                         *)
(***************************************************************************)
EXTENDS ReplayGuard, TLAPS

(* The invariant holds with an empty table. *)
LEMMA ReplayInit == Init => ReplayInv
BY ReplayAssumption DEF Init, ReplayInv, TypeOK, Remembered, RefusedOnlyReplays

(* The delete of a handler spares the nonce of every request a handler may   *)
(* still be serving.                                                        *)
LEMMA RecordKeeps ==
  ASSUME ReplayInv, NEW h \in Handlers, pc[h] = "cutoff",
         NEW r \in Requests, NEW n \in nonces, n.key = Key(r)
  PROVE  n.seen >= cutoff[h] \/ clock - Retention > Stamp(r)
<1>1. n.seen = Stamp(r)
  <2>1. PICK q \in Requests : n = [key |-> Key(q), seen |-> Stamp(q)]
    BY DEF ReplayInv, TypeOK
  <2> QED
    BY <2>1, NonceAssumption DEF Key
<1>2. cutoff[h] \in Int /\ cutoff[h] <= clock - Retention
  BY DEF ReplayInv, TypeOK, Remembered
<1>3. Stamp(r) \in Int /\ clock \in Int /\ Retention \in Int
  BY ReplayAssumption DEF ReplayInv, TypeOK
<1> QED
  BY <1>1, <1>2, <1>3

(* And every step preserves it. *)
LEMMA ReplayNext == ReplayInv /\ [Next]_vars => ReplayInv'
<1> SUFFICES ASSUME ReplayInv, [Next]_vars PROVE ReplayInv'
  OBVIOUS
<1> USE ReplayAssumption
<1>1. ASSUME NEW h \in Handlers, NEW r \in Requests, Verify(h, r) PROVE ReplayInv'
  BY <1>1 DEF Fresh, Verify, ReplayInv, TypeOK, Remembered, RefusedOnlyReplays
<1>2. ASSUME NEW h \in Handlers, ReadCutoff(h) PROVE ReplayInv'
  BY <1>2 DEF ReadCutoff, ReplayInv, TypeOK, Remembered, RefusedOnlyReplays
<1>3. ASSUME NEW h \in Handlers, Record(h) PROVE ReplayInv'
  <2> DEFINE r == req[h]
             kept == {n \in nonces : n.seen >= cutoff[h]}
             known == \E n \in kept : n.key = Key(r)
             row == [key |-> Key(r), seen |-> Stamp(r)]
  <2>1. r \in Requests /\ row.key = Key(r)
    BY DEF ReplayInv, TypeOK
  <2>2. clock - Retention <= Stamp(r)
    <3>1. since[h] - Stamp(r) <= Skew /\ clock - since[h] <= MaxLag
      BY <1>3 DEF Record, ReplayInv, Remembered
    <3>2. since[h] \in Int /\ Stamp(r) \in Int /\ clock \in Int
      BY <2>1 DEF ReplayInv, TypeOK
    <3> QED
      BY <3>1, <3>2
  <2>3. \A n \in nonces : n.key = Key(r) => n \in kept
    BY <1>3, <2>1, <2>2, RecordKeeps DEF Record, ReplayInv, TypeOK
  <2>4. known <=> accepted[r] = 1
    BY <2>1, <2>2, <2>3 DEF ReplayInv, TypeOK, Remembered
  <2>5. accepted[r] \in {0, 1}
    BY <2>1 DEF ReplayInv, Remembered
  <2>6. /\ nonces' = IF known THEN kept ELSE kept \cup {row}
        /\ accepted' = [accepted EXCEPT ![r] = IF known THEN @ ELSE @ + 1]
        /\ refused' = IF known THEN refused \cup {r} ELSE refused
        /\ pc' = [pc EXCEPT ![h] = "idle"]
        /\ UNCHANGED <<clock, req, since, cutoff>>
    BY <1>3 DEF Record
  <2> HIDE DEF r, kept, known, row
  <2>7. TypeOK'
    <3>1. \A n \in nonces' : \E q \in Requests : n = [key |-> Key(q), seen |-> Stamp(q)]
      BY <2>1, <2>6 DEF ReplayInv, TypeOK, kept, row
    <3> QED
      BY <2>1, <2>5, <2>6, <3>1 DEF ReplayInv, TypeOK
  <2>8. ASSUME NEW q \in Requests
        PROVE  \/ accepted'[q] = 0 /\ \A n \in nonces' : n.key # Key(q)
               \/ accepted'[q] = 1 /\ \/ \E n \in nonces' : n.key = Key(q)
                                      \/ clock - Retention > Stamp(q)
    <3>1. CASE q = r
      <4>1. accepted'[r] = 1
        BY <2>1, <2>4, <2>5, <2>6 DEF ReplayInv, TypeOK
      <4>2. \E n \in nonces' : n.key = Key(r)
        BY <2>1, <2>6 DEF known
      <4> QED
        BY <3>1, <4>1, <4>2
    <3>2. CASE q # r
      <4>1. accepted'[q] = accepted[q]
        BY <2>6, <3>2 DEF ReplayInv, TypeOK
      <4>2. row.key # Key(q)
        BY <2>1, <3>2, NonceAssumption DEF Key
      <4>3. CASE \A n \in nonces : n.key # Key(q)
        BY <2>6, <4>1, <4>2, <4>3 DEF ReplayInv, Remembered, kept
      <4>4. ASSUME NEW n \in nonces, n.key = Key(q)
            PROVE  \/ \E m \in nonces' : m.key = Key(q)
                   \/ clock - Retention > Stamp(q)
        <5>1. n \in kept \/ clock - Retention > Stamp(q)
          BY <1>3, <4>4, RecordKeeps DEF Record, kept
        <5> QED
          BY <2>6, <4>4, <5>1
      <4>5. accepted[q] = 1 \/ \A n \in nonces : n.key # Key(q)
        BY DEF ReplayInv, Remembered
      <4> QED
        BY <4>1, <4>3, <4>4, <4>5
    <3> QED
      BY <3>1, <3>2
  <2>9. Remembered'
    BY <2>6, <2>8 DEF ReplayInv, TypeOK, Remembered, Key, Stamp
  <2>10. RefusedOnlyReplays'
    BY <2>1, <2>4, <2>5, <2>6 DEF ReplayInv, TypeOK, RefusedOnlyReplays
  <2> QED
    BY <2>7, <2>9, <2>10 DEF ReplayInv
<1>4. ASSUME Restart PROVE ReplayInv'
  BY <1>4 DEF Restart, ReplayInv, TypeOK, Remembered, RefusedOnlyReplays
<1>5. ASSUME Tick PROVE ReplayInv'
  <2>1. clock' = clock + 1 /\ clock \in Int /\ Retention \in Nat
    BY <1>5 DEF Tick, ReplayInv, TypeOK
  <2>2. \A r \in Requests : Stamp(r) \in Int
    OBVIOUS
  <2>3. \A h \in Handlers : since[h] \in Int /\ cutoff[h] \in Int
    BY DEF ReplayInv, TypeOK
  <2> QED
    BY <1>5, <2>1, <2>2, <2>3
       DEF Tick, ReplayInv, TypeOK, Remembered, RefusedOnlyReplays
<1>6. CASE UNCHANGED vars
  BY <1>6 DEF vars, ReplayInv, TypeOK, Remembered, RefusedOnlyReplays
<1> QED
  BY <1>1, <1>2, <1>3, <1>4, <1>5, <1>6 DEF Next

(* A request is accepted at most once (_federation_peer), provided a handler *)
(* records the nonce within Retention - Skew of judging the timestamp.       *)
THEOREM AcceptedOnceCorrect == Spec => []AcceptedOnce
<1>1. ReplayInv => AcceptedOnce
  <2>1. ReplayInv => \A r \in Requests : accepted[r] = 0 \/ accepted[r] = 1
    BY DEF ReplayInv, Remembered
  <2>2. ASSUME ReplayInv, NEW r \in Requests PROVE accepted[r] <= 1
    BY <2>1, <2>2
  <2> QED
    BY <2>2 DEF AcceptedOnce
<1> QED
  BY <1>1, ReplayInit, ReplayNext, PTL DEF Spec

(* Only a request accepted before is answered replayed_request.              *)
THEOREM RefusedOnlyReplaysCorrect == Spec => []RefusedOnlyReplays
<1>1. ReplayInv => RefusedOnlyReplays
  BY DEF ReplayInv
<1> QED
  BY <1>1, ReplayInit, ReplayNext, PTL DEF Spec
=============================================================================
