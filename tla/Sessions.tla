------------------------------ MODULE Sessions ------------------------------
(***************************************************************************)
(* Logging in and out, and what a session token is good for (api.py          *)
(* /v1/sessions, _client_account, /v1/session; storage.py create_session,    *)
(* account_for_token, revoke_session).                                      *)
(*                                                                         *)
(* An attempt to log in goes through the login limiter, has its password     *)
(* checked outside any lock, and then stores a session that lives for        *)
(* Lifetime.  Every request looks its token up.  Expired sessions go when    *)
(* another one is created and with the cleanup of the message operations.    *)
(* Each of these steps reads the clock before it takes the lock.  Sessions   *)
(* are persistent, the limiter and the requests under way are not.           *)
(***************************************************************************)
EXTENDS RateLimiter

CONSTANTS
  Handlers,  \* the threads that serve requests
  Tokens,    \* the tokens new_session_token returns, each of them once
  Lifetime   \* SESSION_LIFETIME_SECONDS

Idle == "idle"
Checking == "checking"
NoRow == -1

ASSUME SessionAssumption == Lifetime \in Nat \ {0} /\ {Idle, Checking} \cap Tokens = {}

VARIABLES
  work,     \* a handler: checking a password, or about to revoke a token
  expires,  \* sessions.expires_at; NoRow: no row
  due,      \* history: when an issued token is to expire
  revoked   \* history: the tokens that were logged out

sessions == <<work, expires, due, revoked>>
access   == <<limiter, sessions>>

(* POST /v1/sessions up to the password check, let through or refused.       *)
Login(h, k, now, evicted) ==
  /\ work[h] = Idle
  /\ Allow(k, now, evicted)
  /\ work' = [work EXCEPT ![h] = Checking]
  /\ UNCHANGED <<expires, due, revoked>>

TurnAway(k, now) == Refuse(k, now) /\ UNCHANGED sessions

(* authenticate found no such account or another password. *)
WrongPassword(h) ==
  /\ work[h] = Checking
  /\ work' = [work EXCEPT ![h] = Idle]
  /\ UNCHANGED <<limiter, expires, due, revoked>>

(* DELETE FROM sessions WHERE expires_at <= ?; UnexpiredEarly takes those     *)
(* that are about to expire.                                                *)
UnexpiredEarly(now) ==
  [t \in Tokens |-> IF expires[t] <= now + 1 THEN NoRow ELSE expires[t]]
Unexpired(now) == [t \in Tokens |-> IF expires[t] <= now THEN NoRow ELSE expires[t]]

(* create_session: the clock is read once for the purge and the new row.      *)
CreateSession(h, t, now) ==
  /\ work[h] = Checking
  /\ due[t] = NoRow
  /\ expires' = [Unexpired(now) EXCEPT ![t] = now + Lifetime]
  /\ due' = [due EXCEPT ![t] = now + Lifetime]
  /\ work' = [work EXCEPT ![h] = Idle]
  /\ UNCHANGED <<limiter, revoked>>

(* account_for_token.  A request other than a log-out changes last_seen_at    *)
(* only, which nothing reads.  HonouredWhileStored leaves expiry to the purge. *)
HonouredWhileStored(t, now) == expires[t] # NoRow
Honoured(t, now) == expires[t] > now

(* DELETE /v1/session: the look-up and the deletion are two steps.            *)
BeginLogout(h, t, now) ==
  /\ work[h] = Idle
  /\ Honoured(t, now)
  /\ work' = [work EXCEPT ![h] = t]
  /\ UNCHANGED <<limiter, expires, due, revoked>>

RevokeSession(h) ==
  /\ work[h] \in Tokens
  /\ expires' = [expires EXCEPT ![work[h]] = NoRow]
  /\ revoked' = revoked \cup {work[h]}
  /\ work' = [work EXCEPT ![h] = Idle]
  /\ UNCHANGED <<limiter, due>>

(* The sessions' part of _cleanup_expired_locked. *)
Cleanup(now) == expires' = Unexpired(now) /\ UNCHANGED <<limiter, work, due, revoked>>

Pass == Tick /\ UNCHANGED sessions

Restart ==
  /\ Forget
  /\ work' = [h \in Handlers |-> Idle]
  /\ UNCHANGED <<expires, due, revoked>>

Init ==
  /\ LimiterInit
  /\ work = [h \in Handlers |-> Idle]
  /\ expires = [t \in Tokens |-> NoRow]
  /\ due = [t \in Tokens |-> NoRow]
  /\ revoked = {}

Next ==
  \/ \E now \in Recent :
       \/ \E h \in Handlers, k \in Keys, evicted \in SUBSET Keys : Login(h, k, now, evicted)
       \/ \E k \in Keys : TurnAway(k, now)
       \/ \E h \in Handlers, t \in Tokens :
            CreateSession(h, t, now) \/ BeginLogout(h, t, now)
       \/ Cleanup(now)
  \/ \E h \in Handlers : WrongPassword(h) \/ RevokeSession(h)
  \/ Pass
  \/ Restart

Spec == Init /\ [][Next]_access

-----------------------------------------------------------------------------
TypeOK ==
  /\ LimiterTypeOK
  /\ work \in [Handlers -> {Idle, Checking} \cup Tokens]
  /\ expires \in [Tokens -> Nat \cup {NoRow}]
  /\ due \in [Tokens -> Nat \cup {NoRow}]
  /\ revoked \subseteq Tokens

(* Nobody is logged out but by a log-out of that token or by its own expiry:   *)
(* neither by the purges, whichever clock they were started with, nor by the  *)
(* log-out of another session, nor by a restart.                             *)
LiveKept ==
  \A t \in Tokens : clock < due[t] /\ t \notin revoked => expires[t] = due[t]

(* A token that was logged out or is past its expiry opens nothing again,     *)
(* also while its row is still there (account_for_token, revoke_session).     *)
DeadStaysOut ==
  \A t \in Tokens : t \in revoked \/ clock >= due[t] + MaxLag =>
    \A now \in Recent : ~Honoured(t, now)

(* The inductive invariant of SessionsProofs: a row is that of its token, and  *)
(* a token that somebody revokes has been issued.                            *)
SessionInv ==
  /\ TypeOK
  /\ LiveKept
  /\ \A t \in Tokens : /\ expires[t] \in {NoRow, due[t]}
                       /\ t \in revoked => expires[t] = NoRow /\ due[t] # NoRow
  /\ \A h \in Handlers : work[h] \in Tokens => due[work[h]] # NoRow
=============================================================================
