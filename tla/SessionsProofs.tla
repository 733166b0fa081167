--------------------------- MODULE SessionsProofs ---------------------------
(* Proofs about Sessions, for any number of handlers, tokens and addresses.   *)
EXTENDS Sessions, RateLimiterProofs

USE SessionAssumption

(* Logging in and out uses the limiter as the limiter is to be used: every     *)
(* step is one of the limiter's or leaves it alone.                          *)
THEOREM LimiterImplemented == Spec => LimiterSpec
<1>1. Init => LimiterInit
  BY DEF Init
<1>2. [Next]_access => [LimiterNext]_limiter
  <2> SUFFICES ASSUME [Next]_access PROVE [LimiterNext]_limiter
    OBVIOUS
  <2>1. CASE UNCHANGED access
    BY <2>1 DEF access
  <2>2. ASSUME NEW now \in Recent, NEW h \in Handlers, NEW k \in Keys,
               NEW evicted \in SUBSET Keys, Login(h, k, now, evicted)
        PROVE  LimiterNext
    BY <2>2 DEF Login, LimiterNext
  <2>3. ASSUME NEW now \in Recent, NEW k \in Keys, TurnAway(k, now)
        PROVE  LimiterNext
    BY <2>3 DEF TurnAway, LimiterNext
  <2>4. ASSUME NEW now \in Recent, NEW h \in Handlers, NEW t \in Tokens,
               CreateSession(h, t, now) \/ BeginLogout(h, t, now)
        PROVE  UNCHANGED limiter
    BY <2>4 DEF CreateSession, BeginLogout
  <2>5. ASSUME NEW now \in Recent, Cleanup(now) PROVE UNCHANGED limiter
    BY <2>5 DEF Cleanup
  <2>6. ASSUME NEW h \in Handlers, WrongPassword(h) \/ RevokeSession(h)
        PROVE  UNCHANGED limiter
    BY <2>6 DEF WrongPassword, RevokeSession
  <2>7. Pass => LimiterNext
    BY DEF Pass, LimiterNext
  <2>8. Restart => LimiterNext
    BY DEF Restart, LimiterNext
  <2> QED
    BY <2>1, <2>2, <2>3, <2>4, <2>5, <2>6, <2>7, <2>8 DEF Next
<1> QED
  BY <1>1, <1>2, PTL DEF Spec, LimiterSpec

(* No burst of logins gets through: whatever the handlers and the sessions do, *)
(* a request and the one Limit places after it of one address are at least    *)
(* Window - MaxLag apart (allow, as create_session's caller uses it).          *)
THEOREM LoginsSpaced == Spec => []Spaced
  BY LimiterImplemented, SpacedCorrect, PTL

(* A login that is turned away had Limit of its address let through before it, *)
(* whoever else logs in, out or restarts the server.                          *)
THEOREM LoginRefusedForCause == Spec => []RefusedForCause
  BY LimiterImplemented, RefusedForCauseCorrect, PTL

(* A login from a new address makes a full table forget the idlest one only.   *)
THEOREM LoginEvictsIdleFirst == Spec => EvictsIdleFirst
  BY LimiterImplemented, EvictsIdleFirstCorrect, PTL

-----------------------------------------------------------------------------
(* The sessions' part of the invariant; LimiterInv gives the limiter's.       *)
Rows ==
  /\ work \in [Handlers -> {Idle, Checking} \cup Tokens]
  /\ expires \in [Tokens -> Nat \cup {NoRow}]
  /\ due \in [Tokens -> Nat \cup {NoRow}]
  /\ revoked \subseteq Tokens
  /\ LiveKept
  /\ \A t \in Tokens : /\ expires[t] \in {NoRow, due[t]}
                       /\ t \in revoked => expires[t] = NoRow /\ due[t] # NoRow
  /\ \A h \in Handlers : work[h] \in Tokens => due[work[h]] # NoRow

(* A purge takes no row that has not expired by the clock.                    *)
LEMMA PurgeSpares ==
  ASSUME Rows, clock \in Nat, NEW now \in Recent, NEW t \in Tokens
  PROVE  /\ Unexpired(now)[t] \in {NoRow, expires[t]}
         /\ clock < due[t] /\ t \notin revoked => Unexpired(now)[t] = due[t]
<1>1. now \in Nat /\ now <= clock
  BY DEF Recent
<1>2. expires[t] \in Nat \cup {NoRow} /\ due[t] \in Nat \cup {NoRow}
  BY DEF Rows
<1>3. clock < due[t] /\ t \notin revoked => expires[t] = due[t]
  BY DEF Rows, LiveKept
<1> QED
  BY <1>1, <1>2, <1>3 DEF Unexpired, NoRow

LEMMA RowsInit == Init => Rows
  BY DEF Init, LimiterInit, Rows, LiveKept, Idle, Checking, NoRow

LEMMA RowsNext ==
  ASSUME Rows, LimiterTypeOK, [Next]_access
  PROVE  Rows'
<1>1. clock \in Nat
  BY DEF LimiterTypeOK
<1>2. CASE UNCHANGED access
  BY <1>2 DEF access, limiter, sessions, Rows, LiveKept
<1>3. ASSUME NEW now \in Recent, NEW h \in Handlers, NEW k \in Keys,
             NEW evicted \in SUBSET Keys, Login(h, k, now, evicted)
      PROVE  Rows'
  BY <1>3 DEF Login, Allow, Rows, LiveKept
<1>4. ASSUME NEW now \in Recent, NEW k \in Keys, TurnAway(k, now)
      PROVE  Rows'
  BY <1>4 DEF TurnAway, Refuse, sessions, Rows, LiveKept
<1>5. ASSUME NEW now \in Recent, NEW h \in Handlers, NEW t \in Tokens,
             CreateSession(h, t, now)
      PROVE  Rows'
  <2>1. /\ now \in Nat /\ clock' = clock /\ revoked' = revoked
        /\ due[t] = NoRow /\ t \notin revoked
        /\ expires' = [Unexpired(now) EXCEPT ![t] = now + Lifetime]
        /\ due' = [due EXCEPT ![t] = now + Lifetime]
        /\ work' = [work EXCEPT ![h] = Idle]
    BY <1>5 DEF CreateSession, limiter, Rows, Recent
  <2>2. /\ now + Lifetime \in Nat /\ now + Lifetime # NoRow
        /\ expires'[t] = now + Lifetime /\ due'[t] = now + Lifetime
    BY <2>1 DEF Rows, Unexpired, NoRow
  <2>3. ASSUME NEW o \in Tokens, o # t
        PROVE  /\ expires'[o] = Unexpired(now)[o]
               /\ due'[o] = due[o]
    BY <2>1, <2>3 DEF Rows, Unexpired
  <2>4. ASSUME NEW o \in Tokens
        PROVE  /\ expires'[o] \in {NoRow, due'[o]}
               /\ o \in revoked => expires'[o] = NoRow /\ due'[o] # NoRow
               /\ clock < due'[o] /\ o \notin revoked => expires'[o] = due'[o]
    <3>1. CASE o = t
      BY <2>1, <2>2, <3>1
    <3>2. CASE o # t
      <4>1. expires[o] \in {NoRow, due[o]}
            /\ (o \in revoked => expires[o] = NoRow /\ due[o] # NoRow)
        BY DEF Rows
      <4> QED
        BY <1>1, <2>3, <3>2, <4>1, PurgeSpares
    <3> QED
      BY <3>1, <3>2
  <2>5. /\ expires' \in [Tokens -> Nat \cup {NoRow}]
        /\ due' \in [Tokens -> Nat \cup {NoRow}]
        /\ work' \in [Handlers -> {Idle, Checking} \cup Tokens]
    BY <2>1, <2>2 DEF Rows, Unexpired
  <2>6. ASSUME NEW g \in Handlers, work'[g] \in Tokens
        PROVE  due'[work'[g]] # NoRow
    BY <2>1, <2>2, <2>3, <2>6 DEF Rows
  <2> QED
    BY <2>1, <2>4, <2>5, <2>6 DEF Rows, LiveKept
<1>6. ASSUME NEW now \in Recent, NEW h \in Handlers, NEW t \in Tokens,
             BeginLogout(h, t, now)
      PROVE  Rows'
  <2>1. due[t] # NoRow
    <3>1. now \in Nat /\ expires[t] > now /\ expires[t] \in {NoRow, due[t]}
      BY <1>6 DEF BeginLogout, Honoured, Rows, Recent
    <3> QED
      BY <3>1 DEF NoRow
  <2> QED
    BY <1>6, <2>1 DEF BeginLogout, limiter, Rows, LiveKept
<1>7. ASSUME NEW now \in Recent, Cleanup(now)
      PROVE  Rows'
  <2>1. /\ clock' = clock /\ work' = work /\ due' = due /\ revoked' = revoked
        /\ expires' = Unexpired(now)
    BY <1>7 DEF Cleanup, limiter
  <2>2. expires' \in [Tokens -> Nat \cup {NoRow}]
    BY <2>1 DEF Rows, Unexpired
  <2>3. ASSUME NEW o \in Tokens
        PROVE  /\ expires'[o] \in {NoRow, due[o]}
               /\ o \in revoked => expires'[o] = NoRow
               /\ clock < due[o] /\ o \notin revoked => expires'[o] = due[o]
    <3>1. expires[o] \in {NoRow, due[o]} /\ (o \in revoked => expires[o] = NoRow)
      BY DEF Rows
    <3> QED
      BY <1>1, <2>1, <3>1, PurgeSpares
  <2> QED
    BY <2>1, <2>2, <2>3 DEF Rows, LiveKept
<1>8. ASSUME NEW h \in Handlers, WrongPassword(h)
      PROVE  Rows'
  BY <1>8 DEF WrongPassword, limiter, Rows, LiveKept
<1>9. ASSUME NEW h \in Handlers, RevokeSession(h)
      PROVE  Rows'
  <2>1. /\ clock' = clock /\ due' = due /\ work[h] \in Tokens /\ due[work[h]] # NoRow
        /\ expires' = [expires EXCEPT ![work[h]] = NoRow]
        /\ revoked' = revoked \cup {work[h]}
        /\ work' = [work EXCEPT ![h] = Idle]
    BY <1>9 DEF RevokeSession, limiter, Rows
  <2> QED
    BY <2>1 DEF Rows, LiveKept
<1>10. CASE Pass
  BY <1>1, <1>10 DEF Pass, Tick, sessions, Rows, LiveKept, NoRow
<1>11. CASE Restart
  BY <1>11 DEF Restart, Forget, Rows, LiveKept
<1> QED
  BY <1>2, <1>3, <1>4, <1>5, <1>6, <1>7, <1>8, <1>9, <1>10, <1>11 DEF Next

(* A row is that of its token, and only issued tokens are revoked: SessionInv  *)
(* is inductive, with what LimiterInv says of the clock.                      *)
THEOREM SessionInvCorrect == Spec => []SessionInv
<1>1. Spec => []LimiterInv
  BY LimiterImplemented, LimiterInvCorrect, PTL
<1>2. LimiterInv => LimiterTypeOK
  BY DEF LimiterInv
<1>3. Rows /\ LimiterTypeOK /\ [Next]_access => Rows'
  BY RowsNext
<1>4. Spec => []Rows
  BY <1>1, <1>2, <1>3, RowsInit, PTL DEF Spec
<1>5. Rows /\ LimiterTypeOK => SessionInv
  BY DEF Rows, SessionInv, TypeOK
<1> QED
  BY <1>1, <1>2, <1>4, <1>5, PTL

(* The table of the limiter stays within max_keys and limit, and the sessions
   keep their types, for any number of handlers (allow, create_session). *)
THEOREM TypeCorrect == Spec => []TypeOK
<1>1. SessionInv => TypeOK
  BY DEF SessionInv
<1> QED
  BY <1>1, SessionInvCorrect, PTL

(* Nobody is logged out but by their own log-out or expiry. *)
THEOREM LiveKeptCorrect == Spec => []LiveKept
<1>1. SessionInv => LiveKept
  BY DEF SessionInv
<1> QED
  BY <1>1, SessionInvCorrect, PTL

(* A token that was logged out or has expired, even if its row is still        *)
(* there, is honoured by no handler.                                         *)
THEOREM DeadStaysOutCorrect == Spec => []DeadStaysOut
<1>1. SessionInv => DeadStaysOut
  <2> SUFFICES ASSUME SessionInv, NEW t \in Tokens,
                      t \in revoked \/ clock >= due[t] + MaxLag,
                      NEW now \in Recent
               PROVE  ~ Honoured(t, now)
    BY DEF DeadStaysOut
  <2>1. /\ now \in Nat /\ clock \in Nat /\ clock - now <= MaxLag
        /\ due[t] \in Nat \cup {NoRow}
        /\ expires[t] \in {NoRow, due[t]} /\ (t \in revoked => expires[t] = NoRow)
    BY DEF SessionInv, TypeOK, LimiterTypeOK, Recent
  <2>2. expires[t] = NoRow \/ expires[t] <= clock - MaxLag
    <3>1. CASE t \in revoked
      BY <2>1, <3>1
    <3>2. CASE clock >= due[t] + MaxLag /\ due[t] # NoRow
      BY <2>1, <3>2, LimiterAssumption DEF NoRow
    <3>3. CASE due[t] = NoRow
      BY <2>1, <3>3
    <3> QED
      BY <3>1, <3>2, <3>3
  <2> QED
    BY <2>1, <2>2, LimiterAssumption DEF Honoured, NoRow
<1> QED
  BY <1>1, SessionInvCorrect, PTL
=============================================================================
